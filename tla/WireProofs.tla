----------------------------- MODULE WireProofs -----------------------------
(***************************************************************************)
(* What holds of the bytes between panel and client for lines of any        *)
(* number and length, any cut of read() and any number of troubles.        *)
(***************************************************************************)
EXTENDS Wire, SequenceLemmas, FiniteSetTheorems

-----------------------------------------------------------------------------
(* The frame.                                                              *)
LEMMA SumType ==
  ASSUME NEW s \in Seq(Int)
  PROVE  Sum(s) \in Int
  <1> DEFINE f == CHOOSE x : Totals(x, s, Len(s))
             T == {n \in Nat : n <= Len(s) => f[n] \in Int}
  <1>0. Len(s) \in Nat /\ \A i \in 1..Len(s) : s[i] \in Int
    OBVIOUS
  <1>1. Sum(s) = f[Len(s)]
    BY DEF Sum, Totals
  <1>2. Totals(f, s, Len(s))
    BY <1>0, TotalsExist
  <1> HIDE DEF f
  <1>3. \A i \in 0..Len(s) : f[i] = IF i = 0 THEN 0 ELSE f[i - 1] + s[i]
    BY <1>2 DEF Totals
  <1>4. 0 \in T
    BY <1>0, <1>3
  <1>5. ASSUME NEW n \in T PROVE n + 1 \in T
    <2>1. CASE n + 1 <= Len(s)
      <3>1. n \in Nat /\ n + 1 \in 0..Len(s) /\ n + 1 \in 1..Len(s) /\ n + 1 # 0 /\ n + 1 - 1 = n
        BY <1>0, <2>1
      <3>2. f[n + 1] = f[n] + s[n + 1] /\ f[n] \in Int
        BY <1>0, <1>3, <2>1, <3>1
      <3> QED
        BY <1>0, <3>1, <3>2
    <2> QED
      BY <2>1
  <1>6. T = Nat
    <2> HIDE DEF T
    <2>1. T \subseteq Nat
      BY DEF T
    <2> QED
      BY <1>4, <1>5, <2>1, SetInduction
  <1> QED
    BY <1>0, <1>1, <1>6

LEMMA HexDigits ==
  \A d \in 0..15 : HexChar(d) \in 48..57 \cup 65..70 /\ HexDigit(HexChar(d)) = {d}
  BY DEF HexChar, HexDigit

(* Two digits are read as the number they were written for.                 *)
LEMMA HexBytes ==
  ASSUME NEW n \in 0..255
  PROVE  /\ HexByte(n) \in Seq(48..57 \cup 65..70) /\ Len(HexByte(n)) = 2
         /\ HexValue(HexByte(n)) = {n}
  <1> DEFINE q == n \div 16
             r == n % 16
             h == HexChar(q)
             l == HexChar(r)
  <1>1. q \in 0..15 /\ r \in 0..15 /\ n = 16 * q + r
    OBVIOUS
  <1>2. q % 16 = q
    BY <1>1
  <1>3. HexByte(n) = <<h, l>>
    <2>1. HexByte(n) = <<>> \o <<HexChar(q % 16), HexChar(r)>>
      <3>1. (IF n > 255 THEN <<HexChar(n \div 256)>> ELSE <<>>) = <<>>
        OBVIOUS
      <3> QED
        BY <3>1, Zenon DEF HexByte
    <2>2. \A x : <<>> \o <<x, HexChar(r)>> = <<x, HexChar(r)>>
      OBVIOUS
    <2> HIDE DEF q, r
    <2> QED
      BY <1>2, <2>1, <2>2
  <1> HIDE DEF q, r
  <1>7. /\ h \in 48..57 \cup 65..70 /\ l \in 48..57 \cup 65..70
        /\ HexDigit(h) = {q} /\ HexDigit(l) = {r}
    BY <1>1, HexDigits
  <1> HIDE DEF h, l
  <1>4. Stripped(<<h, l>>) = <<h, l>>
    BY <1>7 DEF Stripped, Space
  <1>5. HexValue(<<h, l>>) = {16 * pair[1] + pair[2] : pair \in HexDigit(h) \X HexDigit(l)}
    BY <1>4, <1>7 DEF HexValue
  <1>6. HexDigit(h) \X HexDigit(l) = {<<q, r>>}
    BY <1>7
  <1>8. HexValue(<<h, l>>) = {16 * q + r}
    <2> DEFINE p == <<q, r>>
    <2>1. HexValue(<<h, l>>) = {16 * pair[1] + pair[2] : pair \in {p}}
      BY <1>5, <1>6
    <2>2. \A pair \in {p} : 16 * pair[1] + pair[2] = 16 * q + r
      OBVIOUS
    <2> QED
      BY <2>1, <2>2
  <1>9. <<h, l>> \in Seq(48..57 \cup 65..70) /\ Len(<<h, l>>) = 2
    <2> DEFINE S == 48..57 \cup 65..70
    <2>1. h \in S /\ l \in S
      BY <1>7
    <2> HIDE DEF S
    <2>2. <<h, l>> \in Seq(S) /\ Len(<<h, l>>) = 2
      BY <2>1
    <2> QED
      BY <2>2 DEF S
  <1>10. {16 * q + r} = {n}
    BY <1>1
  <1> QED
    BY <1>3, <1>8, <1>9, <1>10

(* Every message that is framed has a good checksum, and the client decodes *)
(* what the panel says to what it means.                                    *)
Plain == Latin \ {CR, LF}

LEMMA WiderType ==
  ASSUME NEW S, NEW T, S \subseteq T, NEW s \in Seq(S)
  PROVE  s \in Seq(T)
  OBVIOUS

LEMMA Joined ==
  ASSUME NEW S, NEW s \in Seq(S), NEW t \in Seq(S)
  PROVE  /\ s \o t \in Seq(S)
         /\ Len(s) \in Nat /\ Len(t) \in Nat /\ Len(s \o t) = Len(s) + Len(t)
         /\ \A i \in 1..Len(s) : (s \o t)[i] = s[i]
         /\ \A i \in 1..Len(t) : (s \o t)[Len(s) + i] = t[i]
         /\ \A i \in Len(s) + 1..Len(s) + Len(t) : (s \o t)[i] = t[i - Len(s)]
  OBVIOUS

(* A part of a sequence.                                                   *)
LEMMA PartOf ==
  ASSUME NEW S, NEW s \in Seq(S), NEW a \in Int, NEW b \in Int, 1 <= a, b <= Len(s), a <= b + 1
  PROVE  /\ SubSeq(s, a, b) \in Seq(S) /\ Len(SubSeq(s, a, b)) = b - a + 1
         /\ \A i \in 1..b - a + 1 : SubSeq(s, a, b)[i] = s[a + i - 1]
  OBVIOUS

LEMMA SameSequence ==
  ASSUME NEW S, NEW s \in Seq(S), NEW t \in Seq(S), Len(s) = Len(t),
         \A i \in 1..Len(s) : s[i] = t[i]
  PROVE  s = t
  OBVIOUS

LEMMA SameParts ==
  ASSUME NEW S, NEW s \in Seq(S), NEW t \in Seq(S), NEW a \in Int, NEW b \in Int,
         1 <= a, a <= b + 1, b <= Len(s), b <= Len(t), \A i \in a..b : s[i] = t[i]
  PROVE  SubSeq(s, a, b) = SubSeq(t, a, b)
  <1>1. \A i \in 1..b - a + 1 : SubSeq(s, a, b)[i] = SubSeq(t, a, b)[i]
    <2>1. ASSUME NEW i \in 1..b - a + 1 PROVE SubSeq(s, a, b)[i] = SubSeq(t, a, b)[i]
      <3>1. a + i - 1 \in a..b
        OBVIOUS
      <3> QED
        BY <3>1, PartOf
    <2> QED
      BY <2>1
  <1>2. /\ Len(SubSeq(s, a, b)) = b - a + 1 /\ Len(SubSeq(t, a, b)) = b - a + 1
        /\ SubSeq(s, a, b) \in Seq(S) /\ SubSeq(t, a, b) \in Seq(S)
    BY PartOf
  <1> QED
    BY <1>1, <1>2, SameSequence

LEMMA PlainCodes ==
  Plain \subseteq Int /\ 48..57 \cup 65..70 \subseteq Plain
  BY DEF Plain, Latin, CR, LF

(* Two codes at the end are taken back.                                    *)
LEMMA TakenBack ==
  ASSUME NEW S, NEW m \in Seq(S), NEW h \in Seq(S), Len(h) = 2
  PROVE  /\ m \o h \in Seq(S) /\ Len(m \o h) = Len(m) + 2
         /\ \A i \in 1..Len(m) : (m \o h)[i] = m[i]
         /\ But2(m \o h) = m /\ Last2(m \o h) = h
  <1>1. /\ m \o h \in Seq(S) /\ Len(m) \in Nat /\ Len(m \o h) = Len(m) + 2
        /\ \A i \in 1..Len(m) : (m \o h)[i] = m[i]
        /\ \A i \in 1..2 : (m \o h)[Len(m) + i] = h[i]
    BY Joined
  <1> DEFINE f == m \o h
  <1>2. SubSeq(f, 1, Len(f) - 2) = m
    <2>1. Len(SubSeq(f, 1, Len(f) - 2)) = Len(m)
      BY <1>1, PartOf
    <2>2. \A i \in 1..Len(m) : SubSeq(f, 1, Len(f) - 2)[i] = m[i]
      BY <1>1, PartOf
    <2> QED
      BY <1>1, <2>1, <2>2, SameSequence, PartOf
  <1>3. SubSeq(f, Len(f) - 1, Len(f)) = h
    <2>1. Len(SubSeq(f, Len(f) - 1, Len(f))) = 2
      BY <1>1, PartOf
    <2>2. \A i \in 1..2 : SubSeq(f, Len(f) - 1, Len(f))[i] = h[i]
      BY <1>1, PartOf
    <2> QED
      BY <1>1, <2>1, <2>2, SameSequence, PartOf
  <1> HIDE DEF f
  <1> QED
    BY <1>1, <1>2, <1>3 DEF But2, Last2, f

LEMMA FrameIn ==
  ASSUME NEW S, S \subseteq Int, 48..57 \cup 65..70 \subseteq S, NEW m \in Seq(S)
  PROVE  /\ Checksum(m) \in 0..255
         /\ HexByte(Checksum(m)) \in Seq(S) /\ Len(HexByte(Checksum(m))) = 2
         /\ Framed(m) \in Seq(S) /\ Len(Framed(m)) = Len(m) + 2
         /\ \A i \in 1..Len(m) : Framed(m)[i] = m[i]
         /\ But2(Framed(m)) = m /\ Last2(Framed(m)) = HexByte(Checksum(m))
  <1> DEFINE c == Checksum(m)
             h == HexByte(c)
  <1>1. m \in Seq(Int) /\ Len(m) \in Nat
    <2>1. m \in Seq(Int)
      BY WiderType
    <2> QED
      BY <2>1
  <1>2. c \in 0..255
    <2>1. \A x \in Int : (256 - x) % 256 \in 0..255
      OBVIOUS
    <2> QED
      BY <1>1, <2>1, SumType DEF Checksum
  <1> HIDE DEF c
  <1>3. h \in Seq(48..57 \cup 65..70) /\ Len(h) = 2
    BY <1>2, HexBytes
  <1>4. h \in Seq(S)
    <2> HIDE DEF h
    <2> QED
      BY <1>3, WiderType
  <1>5. Framed(m) = m \o h
    BY DEF Framed, c
  <1> HIDE DEF h
  <1>6. /\ m \o h \in Seq(S) /\ Len(m \o h) = Len(m) + 2
        /\ \A i \in 1..Len(m) : (m \o h)[i] = m[i]
        /\ But2(m \o h) = m /\ Last2(m \o h) = h
    BY <1>3, <1>4, TakenBack, Zenon
  <1> QED
    BY <1>2, <1>3, <1>4, <1>5, <1>6 DEF c, h

LEMMA ChecksumIn ==
  ASSUME NEW S, S \subseteq Int, 48..57 \cup 65..70 \subseteq S, NEW m \in Seq(S)
  PROVE  ChecksumIsGood(Framed(m))
  <1>1. HexValue(Last2(Framed(m))) = {Checksum(m)} /\ Sum(But2(Framed(m))) = Sum(m)
    BY FrameIn, HexBytes
  <1>2. Sum(m) \in Int
    BY WiderType, SumType
  <1>3. (Checksum(m) + Sum(m)) % 256 = 0
    <2> DEFINE x == Sum(m)
    <2>1. \A y \in Int : (((256 - y) % 256) + y) % 256 = 0
      OBVIOUS
    <2> QED
      BY <1>2, <2>1 DEF Checksum
  <1> QED
    BY <1>1, <1>3 DEF ChecksumIsGood

LEMMA FrameType ==
  ASSUME NEW m \in Seq(Plain)
  PROVE  /\ Checksum(m) \in 0..255
         /\ HexByte(Checksum(m)) \in Seq(Plain) /\ Len(HexByte(Checksum(m))) = 2
         /\ Framed(m) \in Seq(Plain) /\ Len(Framed(m)) = Len(m) + 2
         /\ \A i \in 1..Len(m) : Framed(m)[i] = m[i]
         /\ But2(Framed(m)) = m /\ Last2(Framed(m)) = HexByte(Checksum(m))
  BY PlainCodes, FrameIn

LEMMA ChecksumsAreGood ==
  ASSUME NEW m \in Seq(Plain)
  PROVE  ChecksumIsGood(Framed(m))
  BY PlainCodes, ChecksumIn

(* What the panel may say, and the line that it becomes.                    *)
Sayable(l) == l \in Texts \/ IsSpoken(l)
LineOf(l) == IF l \in Texts THEN l ELSE Framed(l)

LEMMA SpokenIsValid ==
  ASSUME NEW m, IsSpoken(m)
  PROVE  IsValid(Framed(m))
  <1> DEFINE f == Framed(m)
  <1>0. PICK n \in 4..255 : Len(m) = n
    BY Zenon DEF IsSpoken
  <1>1. m \in Seq(Plain) /\ Len(m) \in 0..255 /\ First(m, 2) = HexByte(Len(m))
    <2>1. Len(m) \in 0..255
      BY <1>0
    <2> QED
      BY <2>1, Zenon DEF IsSpoken, Plain
  <1>2. f \in Seq(Plain) /\ Len(f) = Len(m) + 2 /\ \A i \in 1..Len(m) : f[i] = m[i]
    <2>1. m \in Seq(Plain)
      BY <1>1
    <2> QED
      BY <2>1, FrameType
  <1>3. ChecksumIsGood(f)
    BY <1>1, ChecksumsAreGood
  <1> HIDE DEF f
  <1>4. SubSeq(f, 1, 2) = SubSeq(m, 1, 2)
    <2>1. /\ 1 <= 1 /\ 1 <= 2 + 1 /\ 2 <= Len(f) /\ 2 <= Len(m)
          /\ \A i \in 1..2 : f[i] = m[i]
      BY <1>0, <1>2
    <2>2. m \in Seq(Plain)
      BY <1>1
    <2> QED
      BY <1>2, <2>1, <2>2, SameParts
  <1>5. First(f, 2) = First(m, 2)
    <2>1. ~(Len(f) < 2) /\ ~(Len(m) < 2)
      BY <1>0, <1>2
    <2> QED
      BY <1>4, <2>1, Zenon DEF First
  <1>6. HexValue(First(f, 2)) = {Len(m)}
    BY <1>1, <1>5, HexBytes
  <1> QED
    BY <1>0, <1>2, <1>3, <1>6 DEF IsValid, f

LEMMA SpokenIsDecoded ==
  ASSUME NEW m, IsSpoken(m)
  PROVE  Decode(Framed(m)) = Meaning(m)
  <1> DEFINE f == Framed(m)
  <1>0. PICK n \in 4..255 : Len(m) = n
    BY Zenon DEF IsSpoken
  <1>1. m \in Seq(Plain) /\ Small(GetElkCommand(m)) \in Decoders
    BY DEF IsSpoken, Plain
  <1>2. f \in Seq(Plain) /\ Len(f) = Len(m) + 2 /\ \A i \in 1..Len(m) : f[i] = m[i]
    BY <1>1, FrameType
  <1>3. Decode(f) = {Message(f)}
    BY SpokenIsValid DEF Decode
  <1> HIDE DEF f
  <1>4. ASSUME NEW b \in 4..Len(m) PROVE SubSeq(f, 3, b) = SubSeq(m, 3, b)
    <2>1. /\ b \in Int /\ 1 <= 3 /\ 3 <= b + 1 /\ b <= Len(f) /\ b <= Len(m)
          /\ \A i \in 3..b : f[i] = m[i]
      BY <1>0, <1>2, <1>4
    <2>2. m \in Seq(Plain)
      BY <1>1
    <2> QED
      BY <1>2, <2>1, <2>2, SameParts
  <1>5. GetElkCommand(f) = GetElkCommand(m)
    <2>1. 4 \in 4..n /\ ~(n + 2 < 4) /\ ~(n < 4)
      OBVIOUS
    <2>2. Len(f) = n + 2
      BY <1>0, <1>2
    <2>3. 4 \in 4..Len(m) /\ ~(Len(f) < 4) /\ ~(Len(m) < 4)
      BY <1>0, <2>1, <2>2, Zenon
    <2> QED
      BY <1>4, <2>3, Zenon DEF GetElkCommand
  <1>6. SubSeq(f, 3, Len(f) - 2) = SubSeq(m, 3, Len(m))
    <2>1. Len(f) - 2 = n
      <3>1. Len(f) = n + 2
        BY <1>0, <1>2
      <3>2. n + 2 - 2 = n
        OBVIOUS
      <3> QED
        BY <3>1, <3>2
    <2>2. n \in 4..Len(m)
      BY <1>0
    <2> QED
      BY <1>0, <1>4, <2>1, <2>2
  <1>7. Message(f) = [event |-> "message", data |-> SubSeq(m, 3, Len(m))]
    BY <1>1, <1>5, <1>6 DEF Message
  <1>8. m \notin Texts
    <2>1. ASSUME m \in Texts PROVE Len(m) = 1
      BY <2>1 DEF Texts
    <2> QED
      BY <1>0, <2>1
  <1> QED
    BY <1>3, <1>7, <1>8 DEF Meaning, f

LEMMA SingleElement ==
  ASSUME NEW x PROVE SubSeq(<<x>>, 1, 1) = <<x>>
  <1> DEFINE s == <<x>>
  <1>1. s \in Seq({x}) /\ Len(s) = 1 /\ s[1] = x
    OBVIOUS
  <1> HIDE DEF s
  <1>2. /\ SubSeq(s, 1, 1) \in Seq({x}) /\ Len(SubSeq(s, 1, 1)) = 1
        /\ \A i \in 1..1 : SubSeq(s, 1, 1)[i] = s[i]
    <2>1. /\ SubSeq(s, 1, 1) \in Seq({x}) /\ Len(SubSeq(s, 1, 1)) = 1 - 1 + 1
          /\ \A i \in 1..1 - 1 + 1 : SubSeq(s, 1, 1)[i] = s[1 + i - 1]
      BY <1>1, PartOf
    <2> QED
      BY <2>1
  <1>3. SubSeq(s, 1, 1) = s
    BY <1>1, <1>2, SameSequence
  <1> QED
    BY <1>3 DEF s

LEMMA TextIsDecoded ==
  ASSUME NEW t \in Texts
  PROVE  Decode(t) = Meaning(t)
  <1>1. PICK c \in {Prompt, Granted, Refused} : t = <<c>>
    BY DEF Texts
  <1>2. c \in {256, 257, 258} /\ Len(t) = 1 /\ t[1] = c /\ t # <<>> /\ DOMAIN t = 1..1
    BY <1>1 DEF Prompt, Granted, Refused
  <1>3. First(t, 2) = t /\ First(t, 1) = t
    <2>1. SubSeq(<<c>>, 1, 1) = <<c>>
      BY SingleElement
    <2>2. Len(t) < 2 /\ ~(Len(t) < 1)
      BY <1>2
    <2>3. First(t, 2) = SubSeq(t, 1, Len(t)) /\ First(t, 1) = SubSeq(t, 1, 1)
      BY <2>2, Zenon DEF First
    <2> QED
      BY <1>1, <1>2, <2>1, <2>3
  <1>4. ~IsValid(t)
    <2>1. Stripped(t) = t
      BY <1>2 DEF Stripped
    <2>2. HexDigit(c) = {}
      <3>1. c \notin 48..57 /\ c \notin 65..70 /\ c \notin 97..102
        BY <1>2
      <3> QED
        BY <3>1, Zenon DEF HexDigit
    <2>3. HexValue(t) = {}
      BY <1>2, <2>1, <2>2 DEF HexValue
    <2> QED
      BY <1>3, <2>3 DEF IsValid
  <1>5. ToSet(t) = {c}
    BY <1>1 DEF ToSet
  <1>6. \A x, y : Login(x) = Login(y) => x = y
    <2>1. \A x, y : <<x>> = <<y>> => x = y
      OBVIOUS
    <2>2. \A x : Login(x).data = <<x>>
      BY DEF Login
    <2> QED
      BY <2>1, <2>2
  <1>7. CASE c = Prompt
    BY <1>1, <1>2, <1>3, <1>4, <1>7 DEF Decode, Meaning
  <1>8. CASE c = Granted
    <2>1. Decode(t) = {Login(Granted)}
      BY <1>1, <1>2, <1>3, <1>4, <1>5, <1>8 DEF Decode, Granted, Prompt
    <2>2. Meaning(t) = {Login(Granted)}
      BY <1>2, <1>6, <1>8 DEF Meaning, Granted, Prompt
    <2> QED
      BY <2>1, <2>2
  <1>9. CASE c = Refused
    <2>1. /\ t # <<>> /\ First(t, 1) # <<Prompt>> /\ Granted \notin ToSet(t)
          /\ {Refused} \cap {t[1]} = {Refused}
      <3>1. t # <<>> /\ Granted \notin ToSet(t)
        BY <1>2, <1>5, <1>9 DEF Granted, Refused
      <3>2. First(t, 1) # <<Prompt>>
        <4>1. First(t, 1)[1] = Refused
          BY <1>2, <1>3, <1>9
        <4>2. <<Prompt>>[1] = Prompt
          OBVIOUS
        <4>3. Prompt # Refused
          BY DEF Prompt, Refused
        <4> QED
          BY <4>1, <4>2, <4>3
      <3>3. {Refused} \cap {t[1]} = {Refused}
        BY <1>2, <1>9
      <3> QED
        BY <3>1, <3>2, <3>3
    <2>3. Decode(t) = {Login(u) : u \in {Refused}}
      BY <1>4, <2>1, Zenon DEF Decode
    <2>2. Meaning(t) = {Login(Refused)}
      BY <1>2, <1>6, <1>9 DEF Meaning, Refused, Prompt
    <2> QED
      BY <2>2, <2>3
  <1> QED
    BY <1>7, <1>8, <1>9

LEMMA LineIsDecoded ==
  ASSUME NEW l, Sayable(l)
  PROVE  Decode(LineOf(l)) = Meaning(l)
  BY SpokenIsDecoded, TextIsDecoded DEF Sayable, LineOf

-----------------------------------------------------------------------------
(* The line ends of a buffer.                                              *)
LEMMA GreatestNumber ==
  ASSUME NEW n \in Nat, NEW T, T \subseteq 0..n, T # {}
  PROVE  \E x \in T : \A y \in T : y <= x
  <1> DEFINE U == {n - x : x \in T}
  <1>1. U \subseteq Nat /\ U # {}
    <2>1. PICK x \in T : TRUE
      OBVIOUS
    <2>2. n - x \in U
      BY <2>1
    <2>3. \A y \in T : y \in Int /\ y <= n
      OBVIOUS
    <2>4. ASSUME NEW u \in U PROVE u \in Nat
      <3>1. PICK y \in T : u = n - y
        OBVIOUS
      <3> HIDE DEF U
      <3> QED
        BY <2>3, <3>1
    <2> HIDE DEF U
    <2> QED
      BY <2>2, <2>4
  <1>2. PICK u \in U : \A v \in U : u <= v
    BY <1>1, LeastNumber
  <1>3. PICK x \in T : u = n - x
    OBVIOUS
  <1>4. ASSUME NEW y \in T PROVE y <= x
    <2>1. n - x <= n - y
      BY <1>2, <1>3
    <2> QED
      BY <2>1
  <1> QED
    BY <1>4

LEMMA EndsAreInside ==
  ASSUME NEW s \in Seq(Element)
  PROVE  /\ Len(s) \in Nat /\ LineEnds(s) \subseteq 1..Len(s) - 1
         /\ LineEnds(s) \subseteq 0..Len(s) /\ LineEnds(s) \subseteq Nat
         /\ IsFiniteSet(LineEnds(s)) /\ Cardinality(LineEnds(s)) \in Nat
  <1>1. PICK n \in Nat : Len(s) = n
    OBVIOUS
  <1>2. LineEnds(s) \subseteq 1..n - 1
    BY <1>1 DEF LineEnds
  <1>3. IsFiniteSet(1..n - 1) /\ 1..n - 1 \subseteq 0..n /\ 1..n - 1 \subseteq Nat
    BY FS_Interval
  <1>4. IsFiniteSet(LineEnds(s))
    BY <1>2, <1>3, FS_Subset
  <1> QED
    BY <1>1, <1>2, <1>3, <1>4, FS_CardinalityType

LEMMA LastEndIsLast ==
  ASSUME NEW s \in Seq(Element), LineEnds(s) # {}
  PROVE  LastEnd(s) \in LineEnds(s) /\ \A j \in LineEnds(s) : j <= LastEnd(s)
  <1>1. \E i \in LineEnds(s) : \A j \in LineEnds(s) : j <= i
    BY EndsAreInside, GreatestNumber
  <1> QED
    BY <1>1 DEF LastEnd

LEMMA After ==
  ASSUME NEW S, NEW s \in Seq(S), NEW a \in 0..Len(s)
  PROVE  /\ SubSeq(s, a + 1, Len(s)) \in Seq(S) /\ Len(SubSeq(s, a + 1, Len(s))) = Len(s) - a
         /\ \A i \in 1..Len(s) - a : SubSeq(s, a + 1, Len(s))[i] = s[a + i]
  <1>1. PICK n \in Nat : Len(s) = n
    OBVIOUS
  <1> DEFINE t == SubSeq(s, a + 1, n)
  <1>2. t \in Seq(S) /\ Len(t) = n - (a + 1) + 1 /\ \A i \in 1..n - (a + 1) + 1 : t[i] = s[a + 1 + i - 1]
    <2>1. a + 1 \in Int /\ n \in Int /\ 1 <= a + 1 /\ n <= Len(s) /\ a + 1 <= n + 1
      BY <1>1
    <2> QED
      BY <2>1, PartOf
  <1> HIDE DEF t
  <1>3. n - (a + 1) + 1 = n - a /\ \A i \in Int : a + 1 + i - 1 = a + i
    BY <1>1
  <1>4. \A i \in 1..n - a : t[i] = s[a + i]
    BY <1>1, <1>2, <1>3
  <1> QED
    BY <1>1, <1>2, <1>3, <1>4 DEF t

LEMMA RestIsAfter ==
  ASSUME NEW s \in Seq(Element), LineEnds(s) # {}
  PROVE  /\ LastEnd(s) \in 1..Len(s) - 1
         /\ Rest(s) \in Seq(Element) /\ Len(Rest(s)) = Len(s) - (LastEnd(s) + 1)
         /\ \A i \in 1..Len(Rest(s)) : Rest(s)[i] = s[LastEnd(s) + 1 + i]
         /\ LineEnds(Rest(s)) = {}
  <1> DEFINE e == LastEnd(s)
             r == Rest(s)
  <1>1. e \in LineEnds(s) /\ \A j \in LineEnds(s) : j <= e
    BY LastEndIsLast
  <1>2. PICK n \in Nat : Len(s) = n
    OBVIOUS
  <1>3. e \in 1..n - 1
    BY <1>1, <1>2, EndsAreInside
  <1>4. r = SubSeq(s, e + 1 + 1, n)
    <2>1. e + 2 = e + 1 + 1
      BY <1>3
    <2> QED
      BY <1>2, <2>1 DEF Rest
  <1> HIDE DEF e
  <1>5. /\ r \in Seq(Element) /\ Len(r) = n - (e + 1)
        /\ \A i \in 1..n - (e + 1) : r[i] = s[e + 1 + i]
    <2>1. e + 1 \in 0..Len(s)
      BY <1>2, <1>3
    <2> QED
      BY <1>2, <1>4, <2>1, After
  <1> HIDE DEF r
  <1>6. ASSUME NEW i \in LineEnds(r) PROVE FALSE
    <2>1. Len(r) = n - (e + 1) /\ n - (e + 1) \in Nat
      BY <1>3, <1>4, <1>5
    <2>2. i \in 1..n - (e + 1) - 1 /\ r[i].code = CR /\ r[i + 1].code = LF
      BY <1>6, <2>1 DEF LineEnds
    <2>3. i \in 1..n - (e + 1) /\ i + 1 \in 1..n - (e + 1)
      BY <1>3, <2>2
    <2>4. r[i] = s[e + 1 + i] /\ r[i + 1] = s[e + 1 + (i + 1)]
      BY <1>4, <1>5, <2>3
    <2>5. e + 1 + i \in 1..n - 1 /\ e + 1 + (i + 1) = e + 1 + i + 1
      BY <1>3, <2>2
    <2>6. e + 1 + i \in LineEnds(s)
      BY <1>2, <2>2, <2>4, <2>5 DEF LineEnds
    <2>7. e + 1 + i <= e
      BY <1>1, <2>6
    <2> QED
      BY <1>3, <2>2, <2>7
  <1>7. LineEnds(r) = {}
    BY <1>6
  <1> QED
    BY <1>2, <1>3, <1>4, <1>5, <1>7 DEF e, r

NextEnd(s, x) ==
    CHOOSE i \in LineEnds(s) : i > x /\ \A j \in LineEnds(s) : j > x => i <= j
Ending(e, s, n) == e = [k \in 0..n |-> IF k = 0 THEN -1 ELSE NextEnd(s, e[k - 1])]

LEMMA EndingExists ==
  ASSUME NEW s, NEW c \in Nat
  PROVE  \E e : Ending(e, s, c)
  <1> DEFINE T == {n \in Nat : \E e : Ending(e, s, n)}
  <1>1. 0 \in T
    <2> DEFINE e == [i \in 0..0 |-> -1]
    <2>1. Ending(e, s, 0)
      BY DEF Ending
    <2> QED
      BY <2>1
  <1>2. ASSUME NEW n \in T PROVE n + 1 \in T
    <2>1. PICK f : Ending(f, s, n)
      OBVIOUS
    <2> DEFINE g == [i \in 0..n + 1 |-> IF i = n + 1 THEN NextEnd(s, f[n]) ELSE f[i]]
    <2>2. n \in Nat
      OBVIOUS
    <2>3. ASSUME NEW i \in 0..n + 1 PROVE g[i] = IF i = 0 THEN -1 ELSE NextEnd(s, g[i - 1])
      <3>1. CASE i = n + 1
        BY <2>2, <3>1
      <3>2. CASE i \in 1..n
        BY <2>1, <2>2, <3>2 DEF Ending
      <3>3. CASE i = 0
        BY <2>1, <2>2, <3>3 DEF Ending
      <3> QED
        BY <2>2, <3>1, <3>2, <3>3
    <2> HIDE DEF g
    <2>4. g = [i \in 0..n + 1 |-> g[i]]
      BY DEF g
    <2>5. Ending(g, s, n + 1)
      BY <2>3, <2>4 DEF Ending
    <2> QED
      BY <2>2, <2>5
  <1>3. T = Nat
    <2> HIDE DEF T
    <2>1. T \subseteq Nat
      BY DEF T
    <2> QED
      BY <1>1, <1>2, <2>1, SetInduction
  <1> QED
    BY <1>3

(* The ends of a buffer, in their order, and none left out.                 *)
Beyond(s, x) == {j \in LineEnds(s) : j > x}
InOrder(e, s) ==
    /\ e[0] = -1
    /\ \A k \in 1..Cardinality(LineEnds(s)) :
          /\ e[k] \in LineEnds(s) /\ e[k - 1] \in LineEnds(s) \cup {-1} /\ e[k] > e[k - 1]
          /\ \A j \in LineEnds(s) : j > e[k - 1] => e[k] <= j
    /\ \A j \in LineEnds(s) : \E k \in 1..Cardinality(LineEnds(s)) : e[k] = j

LEMMA NextEndIsNext ==
  ASSUME NEW s \in Seq(Element), NEW x \in Int, Beyond(s, x) # {}
  PROVE  /\ NextEnd(s, x) \in LineEnds(s) /\ NextEnd(s, x) > x
         /\ \A j \in LineEnds(s) : j > x => NextEnd(s, x) <= j
  <1>1. Beyond(s, x) \subseteq Nat
    BY EndsAreInside DEF Beyond
  <1>2. PICK i \in Beyond(s, x) : \A j \in Beyond(s, x) : i <= j
    BY <1>1, LeastNumber
  <1>3. i \in LineEnds(s) /\ i > x /\ \A j \in LineEnds(s) : j > x => i <= j
    BY <1>2 DEF Beyond
  <1> QED
    BY <1>3 DEF NextEnd

LEMMA EndsInOrder ==
  ASSUME NEW s \in Seq(Element), NEW e, Ending(e, s, Cardinality(LineEnds(s)))
  PROVE  InOrder(e, s)
  <1> DEFINE C == Cardinality(LineEnds(s))
             Good(n) == /\ e[n] \in LineEnds(s) \cup {-1}
                        /\ IsFiniteSet(Beyond(s, e[n])) /\ Cardinality(Beyond(s, e[n])) = C - n
             T == {n \in Nat : n <= C => Good(n)}
  <1>0. /\ C \in Nat /\ LineEnds(s) \subseteq Nat /\ IsFiniteSet(LineEnds(s))
        /\ LineEnds(s) \cup {-1} \subseteq Int
    BY EndsAreInside
  <1>1. e[0] = -1 /\ \A k \in 1..C : e[k] = NextEnd(s, e[k - 1])
    <2>1. 0 \in 0..C /\ \A k \in 1..C : k \in 0..C /\ k # 0
      BY <1>0
    <2>2. \A k \in 0..C : e[k] = IF k = 0 THEN -1 ELSE NextEnd(s, e[k - 1])
      BY DEF Ending
    <2> QED
      BY <2>1, <2>2
  <1>2. 0 \in T
    <2>1. Beyond(s, e[0]) = LineEnds(s)
      BY <1>0, <1>1 DEF Beyond
    <2>2. Cardinality(Beyond(s, e[0])) = C - 0
      BY <1>0, <2>1
    <2> QED
      BY <1>0, <1>1, <2>1, <2>2
  <1>3. ASSUME NEW n \in Nat, n + 1 <= C, Good(n)
        PROVE  /\ Good(n + 1) /\ e[n + 1] \in LineEnds(s) /\ e[n + 1] > e[n]
               /\ \A j \in LineEnds(s) : j > e[n] => e[n + 1] <= j
    <2>1. e[n + 1] = NextEnd(s, e[n])
      <3>1. n + 1 \in 1..C /\ n + 1 - 1 = n
        BY <1>0, <1>3
      <3> QED
        BY <1>1, <3>1
    <2>2. Beyond(s, e[n]) # {}
      <3>1. Cardinality(Beyond(s, e[n])) # 0
        BY <1>0, <1>3
      <3> QED
        BY <3>1, FS_EmptySet
    <2>3. e[n] \in Int
      BY <1>0, <1>3
    <2>4. /\ e[n + 1] \in LineEnds(s) /\ e[n + 1] > e[n]
          /\ \A j \in LineEnds(s) : j > e[n] => e[n + 1] <= j
      BY <2>1, <2>2, <2>3, NextEndIsNext
    <2>5. Beyond(s, e[n + 1]) = Beyond(s, e[n]) \ {e[n + 1]} /\ e[n + 1] \in Beyond(s, e[n])
      BY <1>0, <2>3, <2>4 DEF Beyond
    <2>6. IsFiniteSet(Beyond(s, e[n + 1])) /\ Cardinality(Beyond(s, e[n + 1])) = C - n - 1
      <3> DEFINE B == Beyond(s, e[n])
                 x == e[n + 1]
      <3>1. IsFiniteSet(B) /\ Cardinality(B) = C - n /\ Beyond(s, x) = B \ {x} /\ x \in B
        BY <1>3, <2>5
      <3> HIDE DEF B, x
      <3>2. IsFiniteSet(B \ {x}) /\ Cardinality(B \ {x}) = Cardinality(B) - 1
        BY <3>1, FS_RemoveElement
      <3>3. IsFiniteSet(Beyond(s, x)) /\ Cardinality(Beyond(s, x)) = C - n - 1
        BY <3>1, <3>2
      <3> QED
        BY <3>3 DEF x
    <2>7. C - n - 1 = C - (n + 1)
      BY <1>0
    <2> QED
      BY <2>4, <2>6, <2>7
  <1>4. T = Nat
    <2>1. ASSUME NEW n \in T PROVE n + 1 \in T
      <3>1. n \in Nat /\ (n <= C => Good(n))
        OBVIOUS
      <3>2. n + 1 <= C => n <= C
        BY <1>0, <3>1
      <3> QED
        BY <1>3, <3>1, <3>2
    <2>2. T \subseteq Nat
      OBVIOUS
    <2> HIDE DEF T
    <2> QED
      BY <1>2, <2>1, <2>2, SetInduction
  <1>5. ASSUME NEW n \in 0..C PROVE Good(n)
    <2>1. n \in Nat /\ n <= C
      BY <1>0
    <2>2. n \in T
      BY <1>4, <2>1
    <2> QED
      BY <2>1, <2>2
  <1>6. ASSUME NEW k \in 1..C
        PROVE  /\ e[k] \in LineEnds(s) /\ e[k - 1] \in LineEnds(s) \cup {-1} /\ e[k] > e[k - 1]
               /\ \A j \in LineEnds(s) : j > e[k - 1] => e[k] <= j
    <2>1. k - 1 \in Nat /\ k - 1 + 1 = k /\ k <= C /\ k - 1 \in 0..C
      BY <1>0
    <2>2. PICK n \in Nat : n = k - 1
      BY <2>1
    <2>3. Good(n) /\ n + 1 <= C /\ n + 1 = k
      BY <1>5, <2>1, <2>2
    <2>4. /\ e[n + 1] \in LineEnds(s) /\ e[n + 1] > e[n]
          /\ \A j \in LineEnds(s) : j > e[n] => e[n + 1] <= j
      BY <1>3, <2>3
    <2> QED
      BY <2>2, <2>3, <2>4
  <1>7. ASSUME NEW j \in LineEnds(s) PROVE \E k \in 1..C : e[k] = j
    <2> DEFINE K == {k \in 0..C : e[k] < j}
    <2>1. 0 \in K
      BY <1>0, <1>1
    <2>2. PICK k \in K : \A m \in K : m <= k
      <3>1. K \subseteq 0..C /\ K # {}
        BY <2>1
      <3> HIDE DEF K
      <3> QED
        BY <1>0, <3>1, GreatestNumber
    <2>3. k # C
      <3>1. Cardinality(Beyond(s, e[C])) = 0 /\ IsFiniteSet(Beyond(s, e[C])) /\ e[C] \in Int
        BY <1>0, <1>5
      <3>2. Beyond(s, e[C]) = {}
        BY <3>1, FS_EmptySet
      <3>3. ~(j > e[C])
        BY <3>2 DEF Beyond
      <3>4. j \in Int
        BY <1>0
      <3> QED
        BY <2>2, <3>1, <3>3, <3>4
    <2>4. k + 1 \in 1..C /\ k + 1 - 1 = k /\ k + 1 \in 0..C /\ ~(k + 1 <= k)
      BY <1>0, <2>3
    <2>5. e[k + 1] <= j /\ e[k + 1] \in LineEnds(s)
      <3>1. j > e[k + 1 - 1]
        BY <2>4
      <3> QED
        BY <1>6, <2>4, <3>1
    <2>6. ~(e[k + 1] < j)
      <3>1. k + 1 \notin K
        BY <2>2, <2>4
      <3> QED
        BY <2>4, <3>1
    <2>7. e[k + 1] = j
      BY <1>0, <2>5, <2>6
    <2> QED
      BY <2>4, <2>7
  <1> QED
    BY <1>1, <1>6, <1>7 DEF InOrder

(* The lines of a buffer are what is between its ends.                      *)
LEMMA LinesAreBetween ==
  ASSUME NEW s \in Seq(Element)
  PROVE  \E e : /\ InOrder(e, s)
                /\ Lines(s) = [k \in 1..Cardinality(LineEnds(s)) |->
                                  Codes(SubSeq(s, e[k - 1] + 2, e[k] - 1))]
  <1> DEFINE C == Cardinality(LineEnds(s))
             e == CHOOSE x : Ending(x, s, C)
  <1>1. Lines(s) = [k \in 1..C |-> Codes(SubSeq(s, e[k - 1] + 2, e[k] - 1))]
    BY DEF Lines, Ending, NextEnd
  <1>2. Ending(e, s, C)
    BY EndsAreInside, EndingExists
  <1> HIDE DEF e
  <1>3. InOrder(e, s)
    BY <1>2, EndsInOrder
  <1> QED
    BY <1>1, <1>3

(* The end before an end, or the beginning.                                 *)
LEMMA EndBefore ==
  ASSUME NEW s \in Seq(Element), NEW p \in Nat, p # 0 => p - 1 \in LineEnds(s),
         NEW e, InOrder(e, s), NEW k \in 1..Cardinality(LineEnds(s)),
         e[k] > p, \A j \in LineEnds(s) : ~(p <= j /\ j < e[k])
  PROVE  e[k - 1] = p - 1
  <1>0. LineEnds(s) \subseteq Nat
    BY EndsAreInside
  <1>3. /\ e[k - 1] \in LineEnds(s) \cup {-1} /\ e[k] > e[k - 1] /\ e[k] \in LineEnds(s)
        /\ \A j \in LineEnds(s) : j > e[k - 1] => e[k] <= j
    BY DEF InOrder
  <1>4. e[k - 1] <= p - 1
    <2>1. CASE e[k - 1] = -1
      BY <2>1
    <2>2. CASE e[k - 1] \in LineEnds(s)
      <3>1. ~(p <= e[k - 1] /\ e[k - 1] < e[k])
        BY <2>2
      <3> QED
        BY <1>0, <1>3, <2>2, <3>1
    <2> QED
      BY <1>3, <2>1, <2>2
  <1>5. CASE p = 0
    BY <1>0, <1>3, <1>4, <1>5
  <1>6. CASE p # 0
    <2>1. ~(p - 1 > e[k - 1])
      <3>1. ~(e[k] <= p - 1)
        BY <1>0, <1>3
      <3> QED
        BY <1>3, <1>6, <3>1
    <2> QED
      BY <1>0, <1>3, <1>4, <2>1
  <1> QED
    BY <1>5, <1>6

(* What is between two line ends, or the beginning and an end, is a line.   *)
LEMMA LineIsFound ==
  ASSUME NEW s \in Seq(Element), NEW p \in 0..Len(s), p # 0 => p - 1 \in LineEnds(s),
         NEW q \in LineEnds(s), q > p, \A j \in LineEnds(s) : ~(p <= j /\ j < q)
  PROVE  \E k \in DOMAIN Lines(s) : Lines(s)[k] = Codes(SubSeq(s, p + 1, q - 1))
  <1>1. PICK e : /\ InOrder(e, s)
                 /\ Lines(s) = [k \in 1..Cardinality(LineEnds(s)) |->
                                   Codes(SubSeq(s, e[k - 1] + 2, e[k] - 1))]
    BY LinesAreBetween
  <1>2. PICK k \in 1..Cardinality(LineEnds(s)) : e[k] = q
    BY <1>1 DEF InOrder
  <1>3. p \in Nat
    BY EndsAreInside
  <1>4. e[k - 1] = p - 1
    BY <1>1, <1>2, <1>3, EndBefore
  <1>5. e[k - 1] + 2 = p + 1
    BY <1>3, <1>4
  <1>6. k \in DOMAIN Lines(s) /\ Lines(s)[k] = Codes(SubSeq(s, p + 1, q - 1))
    BY <1>1, <1>2, <1>5
  <1> QED
    BY <1>6

(* The codes of a part.                                                    *)
LEMMA CodesOfPart ==
  ASSUME NEW s \in Seq(Element), NEW S, NEW t \in Seq(S), NEW p \in Nat, p + Len(t) <= Len(s),
         \A j \in 1..Len(t) : s[p + j].code = t[j]
  PROVE  Codes(SubSeq(s, p + 1, p + Len(t))) = t
  <1>0. PICK k \in Nat : k = Len(t) /\ DOMAIN t = 1..k /\ t = [j \in 1..k |-> t[j]]
    OBVIOUS
  <1> DEFINE u == SubSeq(s, p + 1, p + k)
  <1>1. PICK a \in Int, z \in Int : a = p + 1 /\ z = p + k /\ 1 <= a /\ z <= Len(s) /\ a <= z + 1
    BY <1>0
  <1>2. /\ SubSeq(s, a, z) \in Seq(Element) /\ Len(SubSeq(s, a, z)) = z - a + 1
        /\ \A j \in 1..z - a + 1 : SubSeq(s, a, z)[j] = s[a + j - 1]
    BY <1>1, PartOf
  <1>3. z - a + 1 = k /\ u = SubSeq(s, a, z) /\ \A j \in 1..k : a + j - 1 = p + j
    <2>1. u = SubSeq(s, a, z)
      BY <1>1
    <2>2. a = p + 1 /\ z = p + k
      BY <1>1
    <2>3. z - a + 1 = k
      BY <2>2
    <2>4. \A j \in 1..k : a + j - 1 = p + j
      BY <2>2
    <2> QED
      BY <2>1, <2>3, <2>4
  <1> HIDE DEF u
  <1>4. u \in Seq(Element) /\ Len(u) = k /\ \A j \in 1..k : u[j] = s[p + j]
    <2>1. \A j \in 1..k : u[j] = s[a + j - 1]
      BY <1>2, <1>3
    <2> QED
      BY <1>2, <1>3, <2>1
  <1>5. \A j \in 1..k : u[j].code = t[j]
    BY <1>0, <1>4
  <1>6. DOMAIN u = 1..k
    BY <1>4
  <1>7. Codes(u) = [j \in 1..k |-> u[j].code]
    BY <1>6 DEF Codes
  <1>8. Codes(u) = t
    BY <1>0, <1>5, <1>7
  <1> QED
    BY <1>0, <1>8 DEF u

-----------------------------------------------------------------------------
(* What the lines of a buffer are handled as.                              *)
Known3 == {"message", "unknown", "login"}

LEMMA OneEvent ==
  ASSUME NEW line
  PROVE  /\ Decode(line) = {} \/ \E x : Decode(line) = {x}
         /\ \A x \in Decode(line) : x.event \in Known3
  <1>1. Message(line).event \in Known3
    BY DEF Message, Known3
  <1>2. \A t : Login(t).event \in Known3
    BY DEF Login, Known3
  <1>3. CASE IsValid(line)
    BY <1>1, <1>3, Zenon DEF Decode
  <1>4. CASE ~IsValid(line) /\ (line = <<>> \/ First(line, 1) = <<Prompt>>)
    BY <1>4, Zenon DEF Decode
  <1>5. CASE /\ ~IsValid(line) /\ ~(line = <<>> \/ First(line, 1) = <<Prompt>>)
             /\ Granted \in ToSet(line)
    <2>1. Decode(line) = {Login(Granted)}
      BY <1>5, Zenon DEF Decode
    <2> QED
      BY <1>2, <2>1, Zenon
  <1>6. CASE /\ ~IsValid(line) /\ ~(line = <<>> \/ First(line, 1) = <<Prompt>>)
             /\ Granted \notin ToSet(line)
    <2>1. Decode(line) = {Login(t) : t \in {Refused} \cap {line[1]}}
      BY <1>6, Zenon DEF Decode
    <2>2. Decode(line) = {} \/ Decode(line) = {Login(Refused)}
      BY <2>1
    <2> QED
      BY <1>2, <2>2, Zenon
  <1> QED
    BY <1>3, <1>4, <1>5, <1>6

LEMMA SmallSequences ==
  /\ SetToSeq({}) = <<>>
  /\ \A x : SetToSeq({x}) = <<x>>
  <1>1. SetToSeq({}) = <<>>
    <2>1. Cardinality({}) = 0
      BY FS_EmptySet
    <2>2. \A f \in [1..0 -> {}] : f = <<>>
      OBVIOUS
    <2>3. <<>> \in [1..0 -> {}] /\ IsInjective(<<>>)
      BY DEF IsInjective
    <2> QED
      BY <2>1, <2>2, <2>3 DEF SetToSeq
  <1>2. ASSUME NEW x PROVE SetToSeq({x}) = <<x>>
    <2>1. Cardinality({x}) = 1
      BY FS_Singleton
    <2>2. \A f \in [1..1 -> {x}] : f = <<x>>
      OBVIOUS
    <2>3. <<x>> \in [1..1 -> {x}] /\ IsInjective(<<x>>)
      BY DEF IsInjective
    <2> QED
      BY <2>1, <2>2, <2>3 DEF SetToSeq
  <1> QED
    BY <1>1, <1>2

EventSet(lines) == UNION {Decode(lines[k]) : k \in DOMAIN lines}

LEMMA DecodedSequence ==
  ASSUME NEW line
  PROVE  /\ SetToSeq(Decode(line)) \in Seq(Decode(line))
         /\ Len(SetToSeq(Decode(line))) \in 0..1
         /\ \A x \in Decode(line) : /\ Len(SetToSeq(Decode(line))) = 1
                                    /\ SetToSeq(Decode(line))[1] = x
  <1> DEFINE D == Decode(line)
             t == SetToSeq(D)
  <1>1. D = {} \/ \E x : D = {x}
    BY OneEvent
  <1> HIDE DEF D
  <1>2. CASE D = {}
    <2>1. t = <<>>
      BY <1>2, SmallSequences
    <2>2. \A x \in D : FALSE
      BY <1>2
    <2> HIDE DEF t
    <2>3. t \in Seq(D) /\ Len(t) = 0
      BY <2>1
    <2>4. 0 \in 0..1
      OBVIOUS
    <2> QED
      BY <2>2, <2>3, <2>4 DEF D, t
  <1>3. CASE \E x : D = {x}
    <2>1. PICK x : D = {x}
      BY <1>3
    <2>2. t = <<x>>
      BY <2>1, SmallSequences
    <2> HIDE DEF t
    <2>3. t \in Seq(D) /\ Len(t) = 1 /\ t[1] = x
      BY <2>1, <2>2
    <2>4. \A y \in D : y = x
      BY <2>1
    <2>5. 1 \in 0..1
      OBVIOUS
    <2> QED
      BY <2>3, <2>4, <2>5 DEF D, t
  <1> QED
    BY <1>1, <1>2, <1>3

LEMMA EventsOfLines ==
  ASSUME NEW c \in Nat, NEW lines, DOMAIN lines = 1..c
  PROVE  /\ Events(lines) \in Seq(EventSet(lines))
         /\ \A x \in EventSet(lines) : x.event \in Known3
         /\ \A k \in 1..c : Decode(lines[k]) \subseteq ToSet(Events(lines))
  <1> DEFINE S == EventSet(lines)
             seqs == [k \in DOMAIN lines |-> SetToSeq(Decode(lines[k]))]
  <1>1. \A k \in 1..c : seqs[k] = SetToSeq(Decode(lines[k])) /\ Decode(lines[k]) \subseteq S
    BY DEF EventSet
  <1>2. ASSUME NEW k \in 1..c PROVE seqs[k] \in Seq(S)
    <2> DEFINE d == Decode(lines[k])
               x == seqs[k]
    <2>1. x \in Seq(d) /\ d \subseteq S
      BY <1>1, DecodedSequence
    <2> HIDE DEF d, x, S
    <2>2. x \in Seq(S)
      BY <2>1, WiderType
    <2> QED
      BY <2>2 DEF x
  <1>3. seqs = [k \in 1..c |-> seqs[k]]
    OBVIOUS
  <1>4. Events(lines) = FlattenSeq(seqs)
    BY DEF Events
  <1> HIDE DEF seqs, S
  <1>5. seqs \in Seq(Seq(S)) /\ Len(seqs) = c
    <2> DEFINE Q == Seq(S)
    <2>1. \A k \in 1..c : seqs[k] \in Q
      BY <1>2
    <2> HIDE DEF Q
    <2>2. seqs \in Seq(Q) /\ Len(seqs) = c
      BY <1>3, <2>1
    <2> QED
      BY <2>2 DEF Q
  <1> USE DEF S
  <1>6. Events(lines) \in Seq(S)
    BY <1>4, <1>5, FlattenSeqType
  <1>7. \A x \in S : x.event \in Known3
    BY OneEvent DEF EventSet
  <1>8. ASSUME NEW k \in 1..c, NEW x \in Decode(lines[k]) PROVE x \in ToSet(Events(lines))
    <2>1. Len(seqs[k]) = 1 /\ seqs[k][1] = x
      BY <1>1, DecodedSequence
    <2>2. k \in 1..Len(seqs) /\ 1 \in 1..Len(seqs[k])
      BY <1>5, <2>1
    <2>3. PICK i \in 1..Len(FlattenSeq(seqs)) : FlattenSeq(seqs)[i] = seqs[k][1]
      BY <1>5, <2>2, FlattenSeqContains
    <2>4. i \in DOMAIN Events(lines) /\ Events(lines)[i] = x
      BY <1>4, <1>6, <2>1, <2>3
    <2> QED
      BY <2>4 DEF ToSet
  <1> QED
    BY <1>6, <1>7, <1>8

-----------------------------------------------------------------------------
(* The state's types. A code knows a line that was said.                    *)
Printed == Latin \cup {Prompt, Granted, Refused}
Tagged(n) == [code : Printed, of : 1..n]
Sent(l, n) == [i \in DOMAIN Bytes(l) |-> [code |-> Bytes(l)[i], of |-> n]]

TypeInv ==
    /\ script \in Scripts /\ Len(script) \in Nat
    /\ \A i \in 1..Len(script) : Sayable(script[i])
    /\ said \in 0..Len(script)
    /\ pipe \in Seq(Tagged(said)) /\ read_buffer \in Seq(Tagged(said))
    /\ LineEnds(read_buffer) = {}
    /\ handled \in Seq(ToSet(handled))
    /\ \A i \in DOMAIN handled : handled[i].event \in Known3
    /\ unsound \subseteq 1..said + 1
    /\ troubles \in 0..MaxTrouble

LEMMA TaggedIsElement ==
  ASSUME NEW n \in Nat
  PROVE  /\ Seq(Tagged(n)) \subseteq Seq(Element)
         /\ \A m \in n..n + 1 : Seq(Tagged(n)) \subseteq Seq(Tagged(m))
  <1>1. 1..n \subseteq Nat \ {0} /\ \A m \in n..n + 1 : 1..n \subseteq 1..m
    OBVIOUS
  <1>2. Tagged(n) \subseteq Element
    BY <1>1 DEF Tagged, Element, Printed
  <1>3. ASSUME NEW m \in n..n + 1 PROVE Seq(Tagged(n)) \subseteq Seq(Tagged(m))
    <2>1. Tagged(n) \subseteq Tagged(m)
      BY <1>1 DEF Tagged
    <2> QED
      BY <2>1, WiderType
  <1> QED
    BY <1>2, <1>3, WiderType

(* A line on its way: its codes, which hold no line end, and its line end.  *)
LEMMA LineType ==
  ASSUME NEW l, Sayable(l)
  PROVE  /\ LineOf(l) \in Seq(Printed \ {CR, LF}) /\ Len(LineOf(l)) \in Nat
         /\ Bytes(l) \in Seq(Printed) /\ Len(Bytes(l)) = Len(LineOf(l)) + 2
         /\ \A i \in 1..Len(LineOf(l)) : /\ Bytes(l)[i] = LineOf(l)[i]
                                         /\ Bytes(l)[i] \notin {CR, LF}
         /\ Bytes(l)[Len(LineOf(l)) + 1] = CR /\ Bytes(l)[Len(LineOf(l)) + 2] = LF
  <1> DEFINE t == LineOf(l)
             S == Printed \ {CR, LF}
             e == <<CR, LF>>
  <1>1. t \in Seq(S)
    <2>1. CASE l \in Texts
      <3>1. Prompt \in S /\ Granted \in S /\ Refused \in S
        BY DEF Printed, Prompt, Granted, Refused, CR, LF
      <3>2. t \in {<<Prompt>>, <<Granted>>, <<Refused>>}
        BY <2>1 DEF LineOf, Texts
      <3>3. PICK c : t = <<c>> /\ c \in {Prompt, Granted, Refused}
        BY <3>2
      <3>4. c \in S
        BY <3>1, <3>3
      <3> HIDE DEF S, t
      <3>5. <<c>> \in Seq(S)
        BY <3>4
      <3> QED
        BY <3>3, <3>5
    <2>2. CASE l \notin Texts
      <3>1. l \in Seq(Plain)
        BY <2>2 DEF Sayable, IsSpoken, Plain
      <3>2. t \in Seq(Plain)
        BY <2>2, <3>1, FrameType DEF LineOf
      <3>3. Plain \subseteq S
        BY DEF Plain, Printed
      <3> QED
        BY <3>2, <3>3, WiderType
    <2> QED
      BY <2>1, <2>2
  <1>2. Bytes(l) = t \o e
    BY DEF Bytes, LineOf
  <1>3. e \in Seq(Printed) /\ Len(e) = 2 /\ e[1] = CR /\ e[2] = LF
    BY DEF Printed, Latin, CR, LF
  <1>4. t \in Seq(Printed)
    BY <1>1, WiderType
  <1>5. Len(t) \in Nat /\ \A i \in 1..Len(t) : t[i] \in S
    BY <1>1
  <1> HIDE DEF t, e
  <1>6. /\ t \o e \in Seq(Printed) /\ Len(t \o e) = Len(t) + 2
        /\ \A i \in 1..Len(t) : (t \o e)[i] = t[i]
        /\ \A i \in 1..2 : (t \o e)[Len(t) + i] = e[i]
    BY <1>3, <1>4, Joined
  <1>7. 1 \in 1..2 /\ 2 \in 1..2
    OBVIOUS
  <1>8. /\ \A i \in 1..Len(t) : (t \o e)[i] = t[i] /\ (t \o e)[i] \notin {CR, LF}
        /\ (t \o e)[Len(t) + 1] = CR /\ (t \o e)[Len(t) + 2] = LF
    BY <1>3, <1>5, <1>6, <1>7
  <1> QED
    BY <1>1, <1>2, <1>5, <1>6, <1>8 DEF t

LEMMA SentType ==
  ASSUME NEW l, Sayable(l), NEW n \in Nat \ {0}
  PROVE  /\ Sent(l, n) \in Seq(Tagged(n)) /\ Len(Sent(l, n)) = Len(Bytes(l))
         /\ \A i \in 1..Len(Bytes(l)) : Sent(l, n)[i] = [code |-> Bytes(l)[i], of |-> n]
  <1> DEFINE b == Bytes(l)
  <1>1. b \in Seq(Printed)
    BY LineType
  <1> HIDE DEF b
  <1>2. PICK k \in Nat : Len(b) = k /\ DOMAIN b = 1..k /\ \A i \in 1..k : b[i] \in Printed
    BY <1>1
  <1>3. n \in 1..n
    OBVIOUS
  <1>4. Sent(l, n) = [i \in 1..k |-> [code |-> b[i], of |-> n]]
    BY <1>2 DEF Sent, b
  <1>5. \A i \in 1..k : [code |-> b[i], of |-> n] \in Tagged(n)
    BY <1>2, <1>3 DEF Tagged
  <1> DEFINE s == Sent(l, n)
  <1> HIDE DEF s
  <1>6. s = [i \in 1..k |-> s[i]] /\ \A i \in 1..k : s[i] = [code |-> b[i], of |-> n]
    BY <1>4 DEF s
  <1>7. s \in Seq(Tagged(n)) /\ Len(s) = k
    <2>1. \A i \in 1..k : s[i] \in Tagged(n)
      BY <1>5, <1>6
    <2> QED
      BY <1>6, <2>1
  <1> QED
    BY <1>2, <1>6, <1>7 DEF b, s

LEMMA UpTo ==
  ASSUME NEW S, NEW s \in Seq(S), NEW a \in 0..Len(s)
  PROVE  /\ SubSeq(s, 1, a) \in Seq(S) /\ Len(SubSeq(s, 1, a)) = a
         /\ \A i \in 1..a : SubSeq(s, 1, a)[i] = s[i]
  <1>1. 1 \in Int /\ a \in Int /\ a <= Len(s) /\ 1 <= a + 1
    OBVIOUS
  <1>2. /\ SubSeq(s, 1, a) \in Seq(S) /\ Len(SubSeq(s, 1, a)) = a - 1 + 1
        /\ \A i \in 1..a - 1 + 1 : SubSeq(s, 1, a)[i] = s[1 + i - 1]
    BY <1>1, PartOf
  <1>3. a - 1 + 1 = a /\ \A i \in Int : 1 + i - 1 = i
    OBVIOUS
  <1> QED
    BY <1>2, <1>3

(* What was read, and what is left of it.                                   *)
LEMMA BufferType ==
  ASSUME NEW S, NEW b \in Seq(S), NEW s \in Seq(S), NEW n \in 0..Len(s)
  PROVE  /\ b \o SubSeq(s, 1, n) \in Seq(S) /\ Len(b \o SubSeq(s, 1, n)) = Len(b) + n
         /\ SubSeq(s, n + 1, Len(s)) \in Seq(S)
         /\ Len(SubSeq(s, n + 1, Len(s))) = Len(s) - n
  BY UpTo, After, Joined

LEMMA Assumed ==
  /\ \A t \in Scripts : t \in Seq(ToSet(t)) /\ \A i \in DOMAIN t : Sayable(t[i])
  /\ Noise \subseteq Latin /\ MaxTrouble \in Nat
  BY WireAssumption DEF Sayable

LEMMA TypeStart ==
  ASSUME Init PROVE TypeInv
  <1>1. script \in Scripts /\ script \in Seq(ToSet(script))
    BY Assumed DEF Init
  <1>2. Len(script) \in Nat /\ DOMAIN script = 1..Len(script)
    BY <1>1
  <1>3. \A i \in 1..Len(script) : Sayable(script[i])
    BY <1>1, <1>2, Assumed
  <1>4. \A S : <<>> \in Seq(S)
    OBVIOUS
  <1>5. LineEnds(<<>>) = {}
    BY DEF LineEnds
  <1>6. DOMAIN <<>> = {}
    OBVIOUS
  <1> QED
    BY <1>1, <1>2, <1>3, <1>4, <1>5, <1>6, Assumed DEF Init, TypeInv

LEMMA TypeSay ==
  ASSUME TypeInv, Say PROVE TypeInv'
  <1> DEFINE l == script[said + 1]
             t == Sent(l, said + 1)
  <1>1. /\ said \in Nat /\ said + 1 \in Nat \ {0} /\ said + 1 \in 1..Len(script)
        /\ said + 1 \in 0..Len(script) /\ said + 1 \in said..said + 1
    BY DEF TypeInv, Say
  <1>2. pipe' = pipe \o t /\ said' = said + 1
    BY DEF Say, Sent
  <1>3. t \in Seq(Tagged(said + 1))
    BY <1>1, SentType DEF TypeInv
  <1>4. pipe \in Seq(Tagged(said + 1)) /\ read_buffer \in Seq(Tagged(said + 1))
    BY <1>1, TaggedIsElement DEF TypeInv
  <1> HIDE DEF t
  <1>5. pipe \o t \in Seq(Tagged(said + 1))
    BY <1>3, <1>4, Joined
  <1>6. 1..said + 1 \subseteq 1..said + 1 + 1
    BY <1>1
  <1> QED
    BY <1>1, <1>2, <1>4, <1>5, <1>6 DEF TypeInv, Say

LEMMA TypeTrouble ==
  ASSUME TypeInv, Trouble
  PROVE  /\ troubles' \in 0..MaxTrouble
         /\ \A i \in DOMAIN pipe : /\ pipe[i] \in Tagged(said)
                                   /\ Touched(pipe[i]) \subseteq 1..said + 1
  <1>1. troubles' \in 0..MaxTrouble
    BY Assumed DEF TypeInv, Trouble
  <1>2. ASSUME NEW i \in DOMAIN pipe
        PROVE  pipe[i] \in Tagged(said) /\ Touched(pipe[i]) \subseteq 1..said + 1
    <2>1. pipe[i] \in Tagged(said)
      BY DEF TypeInv
    <2>2. pipe[i].of \in 1..said /\ said \in Nat
      BY <2>1 DEF TypeInv, Tagged
    <2> QED
      BY <2>1, <2>2 DEF Touched
  <1> QED
    BY <1>1, <1>2

LEMMA Replaced ==
  ASSUME NEW i \in DOMAIN pipe, NEW c, Replace(i, c)
  PROVE  pipe' = [pipe EXCEPT ![i] = [pipe[i] EXCEPT !.code = c]]
  BY SMT DEF Replace

LEMMA TypeReplace ==
  ASSUME TypeInv, NEW i \in DOMAIN pipe, NEW c \in Noise, Replace(i, c)
  PROVE  TypeInv'
  <1> DEFINE x == [pipe[i] EXCEPT !.code = c]
  <1>0. Trouble /\ UNCHANGED read_buffer /\ unsound' = unsound \cup Touched(pipe[i])
    BY SMT DEF Replace
  <1>1. troubles' \in 0..MaxTrouble /\ unsound' \subseteq 1..said + 1 /\ pipe[i] \in Tagged(said)
    BY <1>0, TypeTrouble DEF TypeInv
  <1>2. c \in Printed
    BY Assumed DEF Printed
  <1>3. x \in Tagged(said)
    BY <1>1, <1>2 DEF Tagged
  <1>4. pipe' = [pipe EXCEPT ![i] = x]
    BY Replaced
  <1> HIDE DEF x
  <1>5. pipe \in Seq(Tagged(said))
    BY DEF TypeInv
  <1>6. pipe' \in Seq(Tagged(said))
    BY <1>3, <1>4, <1>5
  <1> QED
    BY <1>0, <1>1, <1>6 DEF TypeInv, Trouble

LEMMA WithoutOne ==
  ASSUME NEW S, NEW s \in Seq(S), NEW i \in 1..Len(s)
  PROVE  /\ RemoveAt(s, i) \in Seq(S) /\ Len(RemoveAt(s, i)) = Len(s) - 1
         /\ \A j \in 1..i - 1 : RemoveAt(s, i)[j] = s[j]
         /\ \A j \in i..Len(s) - 1 : RemoveAt(s, i)[j] = s[j + 1]
  <1> DEFINE a == SubSeq(s, 1, i - 1)
             b == SubSeq(s, i + 1, Len(s))
  <1>0. PICK n \in Nat : Len(s) = n
    OBVIOUS
  <1>1. i - 1 \in 0..Len(s) /\ i \in 0..Len(s)
    OBVIOUS
  <1>2. a \in Seq(S) /\ Len(a) = i - 1 /\ \A j \in 1..i - 1 : a[j] = s[j]
    BY <1>1, UpTo
  <1>3. b \in Seq(S) /\ Len(b) = Len(s) - i /\ \A j \in 1..Len(s) - i : b[j] = s[i + j]
    BY <1>1, After
  <1>4. RemoveAt(s, i) = a \o b
    BY DEF RemoveAt
  <1> HIDE DEF a, b
  <1>5. /\ a \o b \in Seq(S) /\ Len(a \o b) = Len(a) + Len(b)
        /\ \A j \in 1..Len(a) : (a \o b)[j] = a[j]
        /\ \A j \in Len(a) + 1..Len(a) + Len(b) : (a \o b)[j] = b[j - Len(a)]
    <2>1. a \in Seq(S) /\ b \in Seq(S)
      BY <1>2, <1>3
    <2> QED
      BY <2>1, Joined
  <1>6. i - 1 + (n - i) = n - 1 /\ i - 1 + 1 = i
    OBVIOUS
  <1>7. ASSUME NEW j \in i..n - 1 PROVE (a \o b)[j] = s[j + 1]
    <2>1. (a \o b)[j] = b[j - (i - 1)]
      BY <1>0, <1>2, <1>3, <1>5, <1>6
    <2>2. j - (i - 1) \in 1..n - i /\ i + (j - (i - 1)) = j + 1
      OBVIOUS
    <2> QED
      BY <1>0, <1>3, <2>1, <2>2
  <1> QED
    BY <1>0, <1>2, <1>3, <1>4, <1>5, <1>6, <1>7

LEMMA TypeLose ==
  ASSUME TypeInv, NEW i \in DOMAIN pipe, Lose(i)
  PROVE  TypeInv'
  <1>0. /\ Trouble /\ pipe' = RemoveAt(pipe, i) /\ UNCHANGED read_buffer
        /\ unsound' = unsound \cup Touched(pipe[i])
    BY DEF Lose
  <1>1. troubles' \in 0..MaxTrouble /\ unsound' \subseteq 1..said + 1
    BY <1>0, TypeTrouble DEF TypeInv
  <1>2. pipe \in Seq(Tagged(said)) /\ i \in 1..Len(pipe)
    BY DEF TypeInv
  <1>3. pipe' \in Seq(Tagged(said))
    BY <1>0, <1>2, WithoutOne
  <1> QED
    BY <1>0, <1>1, <1>3 DEF TypeInv, Trouble

LEMMA TypeNewSession ==
  ASSUME TypeInv, NEW n \in 0..Len(pipe), NewSession(n)
  PROVE  TypeInv'
  <1> DEFINE gone == read_buffer \o SubSeq(pipe, 1, n)
             between == gone # <<>> /\ Last(gone).code = CR
             next == IF between THEN {Last(gone).of + 1} ELSE {}
  <1>0. /\ Trouble /\ pipe' = SubSeq(pipe, n + 1, Len(pipe)) /\ read_buffer' = <<>>
        /\ unsound' = unsound \cup {x.of : x \in ToSet(gone)} \cup next
    BY DEF NewSession, Fresh
  <1>1. troubles' \in 0..MaxTrouble
    BY <1>0, TypeTrouble
  <1>2. pipe' \in Seq(Tagged(said)) /\ gone \in Seq(Tagged(said))
    BY <1>0, BufferType DEF TypeInv
  <1> HIDE DEF gone
  <1>3. \A x \in ToSet(gone) : x.of \in 1..said
    <2>1. \A x \in ToSet(gone) : x \in Tagged(said)
      BY <1>2 DEF ToSet
    <2> QED
      BY <2>1 DEF Tagged
  <1>4. gone # <<>> => Last(gone) \in Tagged(said)
    BY <1>2 DEF Last
  <1>5. said \in Nat /\ unsound \subseteq 1..said + 1
    BY DEF TypeInv
  <1>6. 1..said \subseteq 1..said + 1 /\ \A k \in 1..said : k + 1 \in 1..said + 1
    BY <1>5
  <1>7. next \subseteq 1..said + 1
    BY <1>4, <1>6 DEF Tagged
  <1>8. unsound' \subseteq 1..said + 1
    <2>1. {x.of : x \in ToSet(gone)} \subseteq 1..said + 1
      BY <1>3, <1>6
    <2> HIDE DEF next
    <2> QED
      BY <1>0, <1>5, <1>7, <2>1
  <1>9. LineEnds(<<>>) = {} /\ <<>> \in Seq(Tagged(said))
    BY DEF LineEnds
  <1> QED
    BY <1>0, <1>1, <1>2, <1>8, <1>9 DEF TypeInv, Trouble

LEMMA LinesDomain ==
  ASSUME NEW s \in Seq(Element)
  PROVE  \E c \in Nat : DOMAIN Lines(s) = 1..c
  BY LinesAreBetween, EndsAreInside

LEMMA TypeRead ==
  ASSUME TypeInv, NEW n \in 1..Len(pipe), Read(n)
  PROVE  TypeInv'
  <1> DEFINE b == read_buffer \o SubSeq(pipe, 1, n)
             ev == Events(Lines(b))
             S == EventSet(Lines(b))
  <1>0. /\ pipe' = SubSeq(pipe, n + 1, Len(pipe)) /\ handled' = handled \o ev
        /\ read_buffer' = IF LineEnds(b) = {} THEN b ELSE Rest(b)
        /\ UNCHANGED <<script, said, unsound, asked, obeyed, troubles>>
    BY DEF Read
  <1>1. n \in 0..Len(pipe) /\ said \in Nat
    BY DEF TypeInv
  <1>2. pipe' \in Seq(Tagged(said)) /\ b \in Seq(Tagged(said))
    BY <1>0, <1>1, BufferType DEF TypeInv
  <1>3. b \in Seq(Element)
    BY <1>1, <1>2, TaggedIsElement
  <1>4. ev \in Seq(S) /\ \A x \in S : x.event \in Known3
    <2>1. PICK c \in Nat : DOMAIN Lines(b) = 1..c
      BY <1>3, LinesDomain
    <2> QED
      BY <2>1, EventsOfLines
  <1> HIDE DEF b, ev, S
  <1>5. read_buffer' \in Seq(Tagged(said)) /\ LineEnds(read_buffer') = {}
    <2>1. CASE LineEnds(b) = {}
      BY <1>0, <1>2, <2>1
    <2>2. CASE LineEnds(b) # {}
      <3>1. LineEnds(Rest(b)) = {} /\ LastEnd(b) \in 1..Len(b) - 1
        BY <1>3, <2>2, RestIsAfter
      <3>2. LastEnd(b) + 1 \in 0..Len(b) /\ LastEnd(b) + 2 = LastEnd(b) + 1 + 1
        BY <1>2, <3>1
      <3>3. Rest(b) \in Seq(Tagged(said))
        BY <1>2, <3>2, After DEF Rest
      <3> QED
        BY <1>0, <2>2, <3>1, <3>3
    <2> QED
      BY <2>1, <2>2
  <1>6. handled' \in Seq(ToSet(handled')) /\ \A i \in DOMAIN handled' : handled'[i].event \in Known3
    <2> DEFINE H == ToSet(handled) \cup S
               h == handled'
    <2>1. handled \in Seq(H) /\ ev \in Seq(H)
      BY <1>4, WiderType DEF TypeInv
    <2>2. \A x \in H : x.event \in Known3
      BY <1>4 DEF TypeInv, ToSet
    <2>3. h \in Seq(H)
      BY <1>0, <2>1, Joined
    <2> HIDE DEF H, h
    <2>4. h \in Seq(ToSet(h)) /\ \A i \in DOMAIN h : h[i] \in H
      BY <2>3 DEF ToSet
    <2> QED
      BY <2>2, <2>4 DEF h
  <1> QED
    BY <1>0, <1>2, <1>5, <1>6 DEF TypeInv

LEMMA TypeStep ==
  ASSUME TypeInv, [Next]_vars PROVE TypeInv'
  <1>1. CASE Say
    BY <1>1, TypeSay
  <1>2. CASE \E n \in 1..Len(pipe) : Read(n)
    BY <1>2, TypeRead
  <1>3. CASE \E i \in DOMAIN pipe : Lose(i)
    BY <1>3, TypeLose
  <1>4. CASE \E i \in DOMAIN pipe : \E c \in Noise : Replace(i, c)
    BY <1>4, TypeReplace
  <1>5. CASE \E n \in 0..Len(pipe) : NewSession(n)
    BY <1>5, TypeNewSession
  <1>6. CASE CallAny
    <2>1. UNCHANGED <<script, said, pipe, read_buffer, handled, unsound, troubles>>
      BY <1>6 DEF CallAny, Call
    <2> QED
      BY <2>1 DEF TypeInv
  <1>7. CASE UNCHANGED vars
    BY <1>7 DEF vars, TypeInv
  <1> QED
    BY <1>1, <1>2, <1>3, <1>4, <1>5, <1>6, <1>7 DEF Next

LEMMA TypeAlways == Spec => []TypeInv
  BY TypeStart, TypeStep, PTL DEF Spec

(* No complete line stays in the buffer, every event is of a known kind,    *)
(* and only a line that was said, or is next, is unsound, whatever was said *)
(* and whatever happened to it (connection.py:83-101).                      *)
THEOREM TypeCorrect == Spec => []TypeOK
  <1>1. TypeInv => TypeOK
    <2> SUFFICES ASSUME TypeInv PROVE TypeOK
      OBVIOUS
    <2>1. said \in Nat /\ Len(script) \in Nat /\ said <= Len(script) /\ unsound \subseteq 1..said + 1
      BY DEF TypeInv
    <2>2. 1..said + 1 \subseteq 1..Len(script) + 1
      BY <2>1
    <2>3. pipe \in Seq(Element) /\ read_buffer \in Seq(Element)
      BY <2>1, TaggedIsElement DEF TypeInv
    <2> QED
      BY <2>1, <2>2, <2>3 DEF TypeInv, TypeOK, Known3
  <1> QED
    BY <1>1, TypeAlways, PTL

-----------------------------------------------------------------------------
(* A line that nobody touched is whole in the stream, what was read and not *)
(* handled and what is on its way: after the end of the line before it, or  *)
(* first.                                                                  *)
Stream == read_buffer \o pipe

Whole(s, b, i, p) ==
    /\ p \in 0..Len(s) /\ p + Len(b) <= Len(s)
    /\ p # 0 => /\ p >= 2 /\ s[p - 1] = [code |-> CR, of |-> i - 1]
                /\ s[p] = [code |-> LF, of |-> i - 1]
    /\ \A j \in 1..Len(b) : s[p + j] = [code |-> b[j], of |-> i]

SoundInv ==
    /\ \A i \in (1..said) \ unsound :
          \/ Meaning(script[i]) \subseteq ToSet(handled)
          \/ \E p \in 0..Len(Stream) : Whole(Stream, Bytes(script[i]), i, p)
    /\ said + 1 \notin unsound => Whole(Stream, <<>>, said + 1, Len(Stream))

LEMMA StreamIs ==
  ASSUME NEW S, NEW a \in Seq(S), NEW b \in Seq(S)
  PROVE  /\ a \o b \in Seq(S) /\ Len(a \o b) = Len(a) + Len(b)
         /\ \A i \in 1..Len(a) + Len(b) :
               (a \o b)[i] = IF i <= Len(a) THEN a[i] ELSE b[i - Len(a)]
  <1>1. /\ a \o b \in Seq(S) /\ Len(a) \in Nat /\ Len(b) \in Nat /\ Len(a \o b) = Len(a) + Len(b)
        /\ \A i \in 1..Len(a) : (a \o b)[i] = a[i]
        /\ \A i \in Len(a) + 1..Len(a) + Len(b) : (a \o b)[i] = b[i - Len(a)]
    BY Joined
  <1>2. ASSUME NEW i \in 1..Len(a) + Len(b)
        PROVE  (a \o b)[i] = IF i <= Len(a) THEN a[i] ELSE b[i - Len(a)]
    <2>1. i \in 1..Len(a) \/ (i \in Len(a) + 1..Len(a) + Len(b) /\ ~(i <= Len(a)))
      BY <1>1
    <2> QED
      BY <1>1, <2>1
  <1> QED
    BY <1>1, <1>2

(* A line stays whole where nothing of it and of the end before it moves    *)
(* against the rest.                                                       *)
LEMMA Moved ==
  ASSUME NEW s, NEW t, NEW b, NEW i, NEW p, NEW d \in Int, Whole(s, b, i, p),
         p - d \in 0..Len(t), p - d + Len(b) <= Len(t),
         p - d # 0 => /\ p # 0 /\ p - d >= 2
                      /\ t[p - d - 1] = s[p - 1] /\ t[p - d] = s[p],
         \A j \in 1..Len(b) : t[p - d + j] = s[p + j]
  PROVE  Whole(t, b, i, p - d)
  BY DEF Whole

LEMMA Cut ==
  ASSUME NEW s, NEW t, NEW b, NEW i, NEW p, NEW a \in Nat, Len(s) \in Nat, Len(b) \in Nat,
         Len(t) = Len(s) - a, \A j \in 1..Len(s) - a : t[j] = s[a + j],
         Whole(s, b, i, p), a <= p, a # p - 1
  PROVE  Whole(t, b, i, p - a)
  <1>1. p \in 0..Len(s) /\ p + Len(b) <= Len(s) /\ (p # 0 => p >= 2)
    BY DEF Whole
  <1>2. /\ p - a \in 0..Len(t) /\ p - a + Len(b) <= Len(t)
        /\ p - a # 0 => p # 0 /\ p - a >= 2
    BY <1>1
  <1>3. ASSUME p - a # 0 PROVE t[p - a - 1] = s[p - 1] /\ t[p - a] = s[p]
    <2>1. /\ p - a - 1 \in 1..Len(s) - a /\ p - a \in 1..Len(s) - a
          /\ a + (p - a - 1) = p - 1 /\ a + (p - a) = p
      BY <1>1, <1>2, <1>3
    <2> QED
      BY <2>1
  <1>4. ASSUME NEW j \in 1..Len(b) PROVE t[p - a + j] = s[p + j]
    <2>1. p - a + j \in 1..Len(s) - a /\ a + (p - a + j) = p + j
      BY <1>1
    <2> QED
      BY <2>1
  <1>5. /\ a \in Int /\ p - a \in 0..Len(t) /\ p - a + Len(b) <= Len(t)
        /\ p - a # 0 => /\ p # 0 /\ p - a >= 2
                        /\ t[p - a - 1] = s[p - 1] /\ t[p - a] = s[p]
        /\ \A j \in 1..Len(b) : t[p - a + j] = s[p + j]
    BY <1>2, <1>3, <1>4
  <1> QED
    BY <1>5, Moved, Zenon

(* The place of a code that is not of the line or of the end before it.     *)
LEMMA Elsewhere ==
  ASSUME NEW s, NEW b, NEW i \in Int, NEW p, Len(s) \in Nat, Len(b) \in Nat, Whole(s, b, i, p),
         NEW k \in 1..Len(s), s[k].of \in Int, i \notin Touched(s[k])
  PROVE  \/ k > p + Len(b)
         \/ p # 0 /\ k < p - 1
  <1>1. /\ p \in 0..Len(s) /\ p + Len(b) <= Len(s)
        /\ p # 0 => /\ p >= 2 /\ s[p - 1] = [code |-> CR, of |-> i - 1]
                    /\ s[p] = [code |-> LF, of |-> i - 1]
        /\ \A j \in 1..Len(b) : s[p + j] = [code |-> b[j], of |-> i]
    BY DEF Whole
  <1>2. ASSUME NEW c PROVE i \in Touched([code |-> c, of |-> i])
    BY DEF Touched
  <1>3. \A c \in {CR, LF} : i \in Touched([code |-> c, of |-> i - 1])
    BY DEF Touched
  <1>4. ~(k \in p + 1..p + Len(b))
    <2> SUFFICES ASSUME k \in p + 1..p + Len(b) PROVE FALSE
      OBVIOUS
    <2>1. k - p \in 1..Len(b) /\ p + (k - p) = k
      BY <1>1
    <2>2. s[k] = [code |-> b[k - p], of |-> i]
      BY <1>1, <2>1
    <2> QED
      BY <1>2, <2>2
  <1>5. p # 0 => k # p - 1 /\ k # p
    BY <1>1, <1>3
  <1> QED
    BY <1>1, <1>4, <1>5

LEMMA OtherReplaced ==
  ASSUME NEW s, NEW t, NEW b, NEW i, NEW p, Len(s) \in Nat, Len(b) \in Nat, Len(t) = Len(s),
         NEW k \in 1..Len(s), \A q \in 1..Len(s) : q # k => t[q] = s[q],
         Whole(s, b, i, p), k > p + Len(b) \/ (p # 0 /\ k < p - 1)
  PROVE  Whole(t, b, i, p)
  <1>1. p \in 0..Len(s) /\ p + Len(b) <= Len(s) /\ (p # 0 => p >= 2)
    BY DEF Whole
  <1>2. ASSUME p # 0 PROVE t[p - 1] = s[p - 1] /\ t[p] = s[p]
    <2>1. p - 1 \in 1..Len(s) /\ p \in 1..Len(s) /\ p - 1 # k /\ p # k
      BY <1>1, <1>2
    <2> QED
      BY <2>1
  <1>3. ASSUME NEW j \in 1..Len(b) PROVE t[p + j] = s[p + j]
    <2>1. p + j \in 1..Len(s) /\ p + j # k
      BY <1>1
    <2> QED
      BY <2>1
  <1> QED
    BY <1>2, <1>3 DEF Whole

LEMMA OtherLost ==
  ASSUME NEW s, NEW t, NEW b, NEW i, NEW p, Len(s) \in Nat, Len(b) \in Nat, Len(t) = Len(s) - 1,
         NEW k \in 1..Len(s), \A q \in 1..k - 1 : t[q] = s[q],
         \A q \in k..Len(s) - 1 : t[q] = s[q + 1],
         Whole(s, b, i, p), k > p + Len(b) \/ (p # 0 /\ k < p - 1)
  PROVE  \E q \in 0..Len(t) : Whole(t, b, i, q) /\ (p = Len(s) => q = Len(t))
  <1>1. p \in 0..Len(s) /\ p + Len(b) <= Len(s) /\ (p # 0 => p >= 2)
    BY DEF Whole
  <1>2. CASE k > p + Len(b)
    <2>1. ASSUME p # 0 PROVE t[p - 1] = s[p - 1] /\ t[p] = s[p]
      <3>1. p - 1 \in 1..k - 1 /\ p \in 1..k - 1
        BY <1>1, <1>2, <2>1
      <3> QED
        BY <3>1
    <2>2. ASSUME NEW j \in 1..Len(b) PROVE t[p + j] = s[p + j]
      <3>1. p + j \in 1..k - 1
        BY <1>1, <1>2
      <3> QED
        BY <3>1
    <2>3. p \in 0..Len(t) /\ p + Len(b) <= Len(t) /\ p # Len(s)
      BY <1>1, <1>2
    <2>4. Whole(t, b, i, p)
      BY <2>1, <2>2, <2>3 DEF Whole
    <2> QED
      BY <2>3, <2>4
  <1>3. CASE p # 0 /\ k < p - 1
    <2>1. p - 1 \in 0..Len(t) /\ p - 1 + Len(b) <= Len(t) /\ p - 1 >= 2
      BY <1>1, <1>3
    <2>2. t[p - 1 - 1] = s[p - 1] /\ t[p - 1] = s[p]
      <3>1. /\ p - 1 - 1 \in k..Len(s) - 1 /\ p - 1 \in k..Len(s) - 1
            /\ p - 1 - 1 + 1 = p - 1 /\ p - 1 + 1 = p
        BY <1>1, <1>3
      <3> QED
        BY <3>1
    <2>3. ASSUME NEW j \in 1..Len(b) PROVE t[p - 1 + j] = s[p + j]
      <3>1. p - 1 + j \in k..Len(s) - 1 /\ p - 1 + j + 1 = p + j
        BY <1>1, <1>3
      <3> QED
        BY <3>1
    <2>4. /\ 1 \in Int
          /\ p - 1 # 0 => p # 0 /\ p - 1 >= 2 /\ t[p - 1 - 1] = s[p - 1] /\ t[p - 1] = s[p]
          /\ \A j \in 1..Len(b) : t[p - 1 + j] = s[p + j]
      BY <1>3, <2>1, <2>2, <2>3
    <2>5. Whole(t, b, i, p - 1)
      BY <2>1, <2>4, Moved, Zenon
    <2>6. p = Len(s) => p - 1 = Len(t)
      OBVIOUS
    <2> QED
      BY <2>1, <2>5, <2>6
  <1> QED
    BY <1>2, <1>3

LEMMA OfWhole ==
  ASSUME TypeInv, NEW i \in 1..said
  PROVE  /\ Sayable(script[i]) /\ Bytes(script[i]) \in Seq(Printed) /\ Len(Bytes(script[i])) \in Nat
         /\ i \in Int
  <1>1. i \in 1..Len(script) /\ i \in Int
    BY DEF TypeInv
  <1>2. Sayable(script[i])
    BY <1>1 DEF TypeInv
  <1>3. Bytes(script[i]) \in Seq(Printed)
    BY <1>2, LineType
  <1> QED
    BY <1>1, <1>2, <1>3

LEMMA StreamType ==
  ASSUME TypeInv
  PROVE  /\ said \in Nat /\ Stream \in Seq(Tagged(said)) /\ Len(Stream) = Len(read_buffer) + Len(pipe)
         /\ Len(Stream) \in Nat /\ Len(read_buffer) \in Nat /\ Len(pipe) \in Nat
         /\ \A k \in 1..Len(Stream) :
               /\ Stream[k] = IF k <= Len(read_buffer) THEN read_buffer[k]
                              ELSE pipe[k - Len(read_buffer)]
               /\ Stream[k] \in Tagged(said) /\ Stream[k].of \in Int /\ Stream[k].of \in 1..said
  <1>1. said \in Nat /\ pipe \in Seq(Tagged(said)) /\ read_buffer \in Seq(Tagged(said))
    BY DEF TypeInv
  <1>2. /\ Stream \in Seq(Tagged(said)) /\ Len(Stream) = Len(read_buffer) + Len(pipe)
        /\ \A k \in 1..Len(read_buffer) + Len(pipe) :
              Stream[k] = IF k <= Len(read_buffer) THEN read_buffer[k] ELSE pipe[k - Len(read_buffer)]
    BY <1>1, StreamIs DEF Stream
  <1>3. Len(read_buffer) \in Nat /\ Len(pipe) \in Nat
    BY <1>1
  <1>4. \A k \in 1..Len(Stream) : Stream[k] \in Tagged(said)
    BY <1>2
  <1>5. \A x \in Tagged(said) : x.of \in Int /\ x.of \in 1..said
    BY <1>1 DEF Tagged
  <1> QED
    BY <1>1, <1>2, <1>3, <1>4, <1>5

LEMMA StreamTypeNext ==
  ASSUME TypeInv'
  PROVE  /\ Stream' \in Seq(Tagged(said')) /\ Len(Stream') = Len(read_buffer') + Len(pipe')
         /\ Len(Stream') \in Nat /\ Len(read_buffer') \in Nat /\ Len(pipe') \in Nat
         /\ \A k \in 1..Len(Stream') :
               Stream'[k] = IF k <= Len(read_buffer') THEN read_buffer'[k]
                            ELSE pipe'[k - Len(read_buffer')]
  <1>1. pipe' \in Seq(Tagged(said')) /\ read_buffer' \in Seq(Tagged(said'))
    BY DEF TypeInv
  <1>2. /\ Stream' \in Seq(Tagged(said')) /\ Len(Stream') = Len(read_buffer') + Len(pipe')
        /\ \A k \in 1..Len(read_buffer') + Len(pipe') :
              Stream'[k] = IF k <= Len(read_buffer') THEN read_buffer'[k]
                           ELSE pipe'[k - Len(read_buffer')]
    BY <1>1, StreamIs DEF Stream
  <1>3. Len(read_buffer') \in Nat /\ Len(pipe') \in Nat
    BY <1>1
  <1> QED
    BY <1>2, <1>3

(* What is left to show of a step that says nothing.                        *)
LEMMA SoundKept ==
  ASSUME TypeInv, SoundInv, said' = said, script' = script, unsound \subseteq unsound',
         ToSet(handled) \subseteq ToSet(handled'),
         \A n \in (1..said) \ unsound' : \A p \in 0..Len(Stream) :
            Whole(Stream, Bytes(script[n]), n, p) =>
               \/ Meaning(script[n]) \subseteq ToSet(handled')
               \/ \E q \in 0..Len(Stream') : Whole(Stream', Bytes(script[n]), n, q),
         /\ said + 1 \notin unsound' /\ Whole(Stream, <<>>, said + 1, Len(Stream))
            => Whole(Stream', <<>>, said + 1, Len(Stream'))
  PROVE  SoundInv'
  <1>1. ASSUME NEW n \in (1..said) \ unsound'
        PROVE  \/ Meaning(script[n]) \subseteq ToSet(handled')
               \/ \E q \in 0..Len(Stream') : Whole(Stream', Bytes(script[n]), n, q)
    <2>1. \/ Meaning(script[n]) \subseteq ToSet(handled)
          \/ \E p \in 0..Len(Stream) : Whole(Stream, Bytes(script[n]), n, p)
      BY DEF SoundInv
    <2>2. CASE Meaning(script[n]) \subseteq ToSet(handled)
      BY <2>2
    <2>3. CASE \E p \in 0..Len(Stream) : Whole(Stream, Bytes(script[n]), n, p)
      BY <2>3
    <2> QED
      BY <2>1, <2>2, <2>3
  <1>2. said + 1 \notin unsound' => Whole(Stream', <<>>, said + 1, Len(Stream'))
    BY DEF SoundInv
  <1> QED
    BY <1>1, <1>2 DEF SoundInv

LEMMA SoundReplace ==
  ASSUME TypeInv, SoundInv, TypeInv', NEW i \in DOMAIN pipe, NEW c \in Noise, Replace(i, c)
  PROVE  SoundInv'
  <1> DEFINE k == Len(read_buffer) + i
  <1>0. /\ Trouble /\ UNCHANGED read_buffer /\ unsound' = unsound \cup Touched(pipe[i])
        /\ pipe' = [pipe EXCEPT ![i] = [pipe[i] EXCEPT !.code = c]]
    <2>1. Trouble /\ UNCHANGED read_buffer /\ unsound' = unsound \cup Touched(pipe[i])
      BY SMT DEF Replace
    <2> QED
      BY <2>1, Replaced
  <1>1. /\ i \in 1..Len(pipe) /\ Len(pipe) \in Nat /\ Len(pipe') = Len(pipe)
        /\ \A q \in 1..Len(pipe) : q # i => pipe'[q] = pipe[q]
    <2>1. pipe \in Seq(Tagged(said))
      BY DEF TypeInv
    <2> QED
      BY <1>0, <2>1
  <1>2. k \in 1..Len(Stream) /\ Stream[k] = pipe[i]
    <2>1. k \in 1..Len(Stream) /\ ~(k <= Len(read_buffer)) /\ k - Len(read_buffer) = i
      BY <1>1, StreamType
    <2> QED
      BY <2>1, StreamType
  <1>3. Len(Stream') = Len(Stream)
    BY <1>0, <1>1, StreamType, StreamTypeNext
  <1>4. ASSUME NEW q \in 1..Len(Stream), q # k PROVE Stream'[q] = Stream[q]
    <2>1. Stream'[q] = IF q <= Len(read_buffer) THEN read_buffer[q] ELSE pipe'[q - Len(read_buffer)]
      BY <1>0, <1>3, StreamTypeNext
    <2>2. ~(q <= Len(read_buffer)) => q - Len(read_buffer) \in 1..Len(pipe) /\ q - Len(read_buffer) # i
      BY <1>1, <1>4, StreamType
    <2> QED
      BY <1>1, <2>1, <2>2, StreamType
  <1>5. /\ said' = said /\ script' = script /\ handled' = handled
        /\ \A n \in Int : n \notin unsound' => n \notin unsound /\ n \notin Touched(Stream[k])
    BY <1>0, <1>2 DEF Trouble
  <1> HIDE DEF k
  <1>6. ASSUME NEW n \in Int, n \notin unsound', NEW b, Len(b) \in Nat, NEW p, Whole(Stream, b, n, p)
        PROVE  Whole(Stream', b, n, p)
    <2>1. k > p + Len(b) \/ (p # 0 /\ k < p - 1)
      BY <1>2, <1>5, <1>6, StreamType, Elsewhere
    <2> QED
      BY <1>2, <1>3, <1>4, <1>6, <2>1, StreamType, OtherReplaced
  <1>7. ASSUME NEW n \in (1..said) \ unsound', NEW p \in 0..Len(Stream),
               Whole(Stream, Bytes(script[n]), n, p)
        PROVE  \E q \in 0..Len(Stream') : Whole(Stream', Bytes(script[n]), n, q)
    <2>1. n \in Int /\ Len(Bytes(script[n])) \in Nat /\ n \notin unsound'
      BY <1>5, OfWhole
    <2> QED
      BY <1>3, <1>6, <1>7, <2>1
  <1>8. ASSUME said + 1 \notin unsound', Whole(Stream, <<>>, said + 1, Len(Stream))
        PROVE  Whole(Stream', <<>>, said + 1, Len(Stream'))
    <2>1. said + 1 \in Int /\ Len(<<>>) \in Nat
      BY StreamType
    <2> QED
      BY <1>3, <1>6, <1>8, <2>1
  <1>9. unsound \subseteq unsound' /\ ToSet(handled) \subseteq ToSet(handled')
    BY <1>0, <1>5
  <1> QED
    BY <1>5, <1>7, <1>8, <1>9, SoundKept

LEMMA SoundLose ==
  ASSUME TypeInv, SoundInv, TypeInv', NEW i \in DOMAIN pipe, Lose(i)
  PROVE  SoundInv'
  <1> DEFINE k == Len(read_buffer) + i
  <1>0. /\ Trouble /\ UNCHANGED read_buffer /\ unsound' = unsound \cup Touched(pipe[i])
        /\ pipe' = RemoveAt(pipe, i)
    BY DEF Lose
  <1>1. /\ i \in 1..Len(pipe) /\ Len(pipe) \in Nat /\ Len(pipe') = Len(pipe) - 1
        /\ \A q \in 1..i - 1 : pipe'[q] = pipe[q]
        /\ \A q \in i..Len(pipe) - 1 : pipe'[q] = pipe[q + 1]
    <2>1. pipe \in Seq(Tagged(said)) /\ i \in 1..Len(pipe) /\ Len(pipe) \in Nat
      BY DEF TypeInv
    <2> QED
      BY <1>0, <2>1, WithoutOne
  <1>2. k \in 1..Len(Stream) /\ Stream[k] = pipe[i]
    <2>1. k \in 1..Len(Stream) /\ ~(k <= Len(read_buffer)) /\ k - Len(read_buffer) = i
      BY <1>1, StreamType
    <2> QED
      BY <2>1, StreamType
  <1>3. Len(Stream') = Len(Stream) - 1 /\ Len(Stream') \in Nat
    BY <1>0, <1>1, StreamType, StreamTypeNext
  <1>4. ASSUME NEW q \in 1..k - 1 PROVE Stream'[q] = Stream[q]
    <2>1. q \in 1..Len(Stream) /\ q \in 1..Len(Stream')
      BY <1>2, <1>3
    <2>2. /\ Stream'[q] = IF q <= Len(read_buffer) THEN read_buffer[q] ELSE pipe'[q - Len(read_buffer)]
          /\ Stream[q] = IF q <= Len(read_buffer) THEN read_buffer[q] ELSE pipe[q - Len(read_buffer)]
      BY <1>0, <2>1, StreamType, StreamTypeNext
    <2>3. ~(q <= Len(read_buffer)) => q - Len(read_buffer) \in 1..i - 1
      BY <1>1, StreamType
    <2> QED
      BY <1>1, <2>2, <2>3
  <1>5. ASSUME NEW q \in k..Len(Stream) - 1 PROVE Stream'[q] = Stream[q + 1]
    <2>1. q + 1 \in 1..Len(Stream) /\ q \in 1..Len(Stream') /\ q \in Int
      BY <1>2, <1>3
    <2>2. /\ ~(q <= Len(read_buffer)) /\ ~(q + 1 <= Len(read_buffer))
          /\ q - Len(read_buffer) \in i..Len(pipe) - 1
          /\ q + 1 - Len(read_buffer) = q - Len(read_buffer) + 1
      BY <1>1, <1>2, StreamType
    <2>3. Stream'[q] = pipe'[q - Len(read_buffer)] /\ Stream[q + 1] = pipe[q + 1 - Len(read_buffer)]
      BY <1>0, <2>1, <2>2, StreamType, StreamTypeNext
    <2> QED
      BY <1>1, <2>2, <2>3
  <1>6. /\ said' = said /\ script' = script /\ handled' = handled
        /\ \A n \in Int : n \notin unsound' => n \notin unsound /\ n \notin Touched(Stream[k])
    BY <1>0, <1>2 DEF Trouble
  <1> HIDE DEF k
  <1>7. ASSUME NEW n \in Int, n \notin unsound', NEW b, Len(b) \in Nat, NEW p, Whole(Stream, b, n, p)
        PROVE  \E q \in 0..Len(Stream') :
                  Whole(Stream', b, n, q) /\ (p = Len(Stream) => q = Len(Stream'))
    <2>1. k > p + Len(b) \/ (p # 0 /\ k < p - 1)
      BY <1>2, <1>6, <1>7, StreamType, Elsewhere
    <2>2. /\ Len(Stream) \in Nat /\ Len(Stream') = Len(Stream) - 1
          /\ \A q \in 1..k - 1 : Stream'[q] = Stream[q]
          /\ \A q \in k..Len(Stream) - 1 : Stream'[q] = Stream[q + 1]
      BY <1>3, <1>4, <1>5, StreamType
    <2> QED
      BY <1>2, <1>7, <2>1, <2>2, OtherLost
  <1>8. ASSUME NEW n \in (1..said) \ unsound', NEW p \in 0..Len(Stream),
               Whole(Stream, Bytes(script[n]), n, p)
        PROVE  \E q \in 0..Len(Stream') : Whole(Stream', Bytes(script[n]), n, q)
    <2>1. n \in Int /\ Len(Bytes(script[n])) \in Nat /\ n \notin unsound'
      BY <1>6, OfWhole
    <2> QED
      BY <1>7, <1>8, <2>1
  <1>9. ASSUME said + 1 \notin unsound', Whole(Stream, <<>>, said + 1, Len(Stream))
        PROVE  Whole(Stream', <<>>, said + 1, Len(Stream'))
    <2>1. said + 1 \in Int /\ Len(<<>>) \in Nat
      BY StreamType
    <2> QED
      BY <1>7, <1>9, <2>1
  <1>10. unsound \subseteq unsound' /\ ToSet(handled) \subseteq ToSet(handled')
    BY <1>0, <1>6
  <1> QED
    BY <1>6, <1>8, <1>9, <1>10, SoundKept

(* What was read of the stream, and what is left of it.                     *)
LEMMA StreamIsCut ==
  ASSUME TypeInv, NEW n \in 0..Len(pipe)
  PROVE  /\ read_buffer \o SubSeq(pipe, 1, n) \in Seq(Tagged(said))
         /\ Len(read_buffer \o SubSeq(pipe, 1, n)) = Len(read_buffer) + n
         /\ Len(read_buffer) + n \in 0..Len(Stream)
         /\ \A j \in 1..Len(read_buffer) + n :
               (read_buffer \o SubSeq(pipe, 1, n))[j] = Stream[j]
         /\ Len(SubSeq(pipe, n + 1, Len(pipe))) = Len(pipe) - n
         /\ \A j \in 1..Len(pipe) - n :
               SubSeq(pipe, n + 1, Len(pipe))[j] = Stream[Len(read_buffer) + n + j]
  <1> DEFINE u == SubSeq(pipe, 1, n)
             v == SubSeq(pipe, n + 1, Len(pipe))
             g == Len(read_buffer)
  <1>1. pipe \in Seq(Tagged(said)) /\ read_buffer \in Seq(Tagged(said))
    BY DEF TypeInv
  <1>2. u \in Seq(Tagged(said)) /\ Len(u) = n /\ \A j \in 1..n : u[j] = pipe[j]
    BY <1>1, UpTo
  <1>3. Len(v) = Len(pipe) - n /\ \A j \in 1..Len(pipe) - n : v[j] = pipe[n + j]
    BY <1>1, After
  <1> HIDE DEF u, v
  <1>4. /\ read_buffer \o u \in Seq(Tagged(said)) /\ Len(read_buffer \o u) = g + n
        /\ \A j \in 1..g + n : (read_buffer \o u)[j] = IF j <= g THEN read_buffer[j] ELSE u[j - g]
    BY <1>1, <1>2, StreamIs
  <1>5. g \in Nat /\ Len(pipe) \in Nat /\ Len(Stream) = g + Len(pipe) /\ n \in Int
    BY StreamType
  <1>6. ASSUME NEW j \in 1..g + n PROVE (read_buffer \o u)[j] = Stream[j]
    <2>1. j \in 1..Len(Stream) /\ (~(j <= g) => j - g \in 1..n)
      BY <1>5
    <2>2. Stream[j] = IF j <= g THEN read_buffer[j] ELSE pipe[j - g]
      BY <2>1, StreamType
    <2> QED
      BY <1>2, <1>4, <2>1, <2>2
  <1>7. ASSUME NEW j \in 1..Len(pipe) - n PROVE v[j] = Stream[g + n + j]
    <2>1. g + n + j \in 1..Len(Stream) /\ ~(g + n + j <= g) /\ g + n + j - g = n + j
      BY <1>5
    <2>2. Stream[g + n + j] = pipe[n + j]
      BY <2>1, StreamType
    <2> QED
      BY <1>3, <2>2
  <1>8. g + n \in 0..Len(Stream)
    BY <1>5
  <1> QED
    BY <1>3, <1>4, <1>6, <1>7, <1>8 DEF u, v

LEMMA SoundNewSession ==
  ASSUME TypeInv, SoundInv, TypeInv', NEW n \in 0..Len(pipe), NewSession(n)
  PROVE  SoundInv'
  <1> DEFINE gone == read_buffer \o SubSeq(pipe, 1, n)
             g == Len(read_buffer) + n
             between == gone # <<>> /\ Last(gone).code = CR
             next == IF between THEN {Last(gone).of + 1} ELSE {}
  <1>0. /\ Trouble /\ pipe' = SubSeq(pipe, n + 1, Len(pipe)) /\ read_buffer' = <<>>
        /\ unsound' = unsound \cup {x.of : x \in ToSet(gone)} \cup next
    BY DEF NewSession, Fresh
  <1>1. /\ gone \in Seq(Tagged(said)) /\ Len(gone) = g /\ g \in 0..Len(Stream)
        /\ \A j \in 1..g : gone[j] = Stream[j]
    BY StreamIsCut
  <1>2. Len(Stream') = Len(Stream) - g /\ \A j \in 1..Len(Stream) - g : Stream'[j] = Stream[g + j]
    <2>1. /\ Len(pipe') = Len(pipe) - n /\ Len(Stream) = Len(read_buffer) + Len(pipe)
          /\ \A j \in 1..Len(pipe) - n : pipe'[j] = Stream[g + j]
      BY <1>0, StreamIsCut, StreamType
    <2>2. Len(read_buffer') = 0
      BY <1>0
    <2>3. Len(pipe) - n = Len(Stream) - g /\ Len(pipe') \in Nat /\ Len(Stream') = Len(pipe')
      <3>1. Len(pipe) \in Nat /\ Len(read_buffer) \in Nat /\ Len(pipe') \in Nat
        BY StreamType, StreamTypeNext
      <3>2. Len(Stream') = 0 + Len(pipe')
        BY <2>2, StreamTypeNext
      <3> QED
        BY <2>1, <3>1, <3>2
    <2>4. ASSUME NEW j \in 1..Len(pipe') PROVE Stream'[j] = pipe'[j]
      <3>1. j \in 1..Len(Stream') /\ ~(j <= 0) /\ j - 0 = j
        BY <2>3
      <3> QED
        BY <2>2, <3>1, StreamTypeNext
    <2> QED
      BY <2>1, <2>3, <2>4
  <1> HIDE DEF gone, g
  <1>3. \A j \in 1..g : Stream[j].of \in unsound'
    <2>1. \A j \in 1..g : Stream[j] \in ToSet(gone)
      BY <1>1 DEF ToSet
    <2> QED
      BY <1>0, <2>1
  <1>4. ASSUME g # 0, Stream[g].code = CR PROVE Stream[g].of + 1 \in unsound'
    <2>1. gone # <<>> /\ Last(gone) = Stream[g]
      BY <1>1, <1>4 DEF Last
    <2> QED
      BY <1>0, <1>4, <2>1
  <1>5. /\ said' = said /\ script' = script /\ handled' = handled /\ unsound \subseteq unsound'
        /\ said \in Nat /\ g \in Nat /\ Len(Stream) \in Nat /\ ToSet(handled) \subseteq ToSet(handled')
    BY <1>0, <1>1, StreamType DEF Trouble
  <1>6. ASSUME NEW i \in Int, i \notin unsound', NEW b, Len(b) \in Nat, NEW p, Whole(Stream, b, i, p),
               g <= p
        PROVE  Whole(Stream', b, i, p - g) /\ p - g \in 0..Len(Stream')
    <2>1. p \in 0..Len(Stream) /\ (p # 0 => p >= 2 /\ Stream[p - 1] = [code |-> CR, of |-> i - 1])
      BY <1>6 DEF Whole
    <2>2. g # p - 1
      <3> SUFFICES ASSUME g = p - 1 PROVE FALSE
        OBVIOUS
      <3>1. g # 0 /\ Stream[g] = [code |-> CR, of |-> i - 1]
        BY <1>5, <2>1
      <3>2. Stream[g].code = CR /\ Stream[g].of + 1 = i
        BY <3>1
      <3> QED
        BY <1>4, <1>6, <3>1, <3>2
    <2>3. Whole(Stream', b, i, p - g)
      BY <1>2, <1>5, <1>6, <2>2, Cut
    <2> QED
      BY <2>3 DEF Whole
  <1>7. ASSUME NEW i \in (1..said) \ unsound', NEW p \in 0..Len(Stream),
               Whole(Stream, Bytes(script[i]), i, p)
        PROVE  \E q \in 0..Len(Stream') : Whole(Stream', Bytes(script[i]), i, q)
    <2>1. i \in Int /\ Sayable(script[i])
      BY OfWhole
    <2>2. Len(Bytes(script[i])) \in Nat /\ 1 \in 1..Len(Bytes(script[i]))
      BY <2>1, LineType
    <2>3. Stream[p + 1].of = i
      <3>1. Stream[p + 1] = [code |-> Bytes(script[i])[1], of |-> i]
        BY <1>7, <2>2 DEF Whole
      <3> QED
        BY <3>1
    <2>4. g <= p
      <3> SUFFICES ASSUME p + 1 \in 1..g PROVE FALSE
        BY <1>5
      <3> QED
        BY <1>3, <2>3
    <2> QED
      BY <1>6, <1>7, <2>1, <2>2, <2>4
  <1>8. ASSUME said + 1 \notin unsound', Whole(Stream, <<>>, said + 1, Len(Stream))
        PROVE  Whole(Stream', <<>>, said + 1, Len(Stream'))
    <2>1. said + 1 \in Int /\ Len(<<>>) \in Nat /\ g <= Len(Stream)
      BY <1>1, <1>5
    <2> QED
      BY <1>2, <1>6, <1>8, <2>1
  <1> QED
    BY <1>5, <1>7, <1>8, SoundKept

LEMMA StreamIsSaid ==
  ASSUME TypeInv, TypeInv', Say
  PROVE  LET t == Sent(script[said + 1], said + 1)
         IN  /\ Sayable(script[said + 1]) /\ Len(t) = Len(Bytes(script[said + 1])) /\ Len(t) \in Nat
             /\ \A j \in 1..Len(t) :
                   t[j] = [code |-> Bytes(script[said + 1])[j], of |-> said + 1]
             /\ Len(Stream') = Len(Stream) + Len(t)
             /\ \A j \in 1..Len(Stream) : Stream'[j] = Stream[j]
             /\ \A j \in 1..Len(t) : Stream'[Len(Stream) + j] = t[j]
  <1> DEFINE l == script[said + 1]
             t == Sent(l, said + 1)
  <1>0. said + 1 \in Nat \ {0} /\ said + 1 \in 1..Len(script)
    BY DEF TypeInv, Say
  <1>1. Sayable(l) /\ read_buffer' = read_buffer /\ pipe' = pipe \o t
    BY <1>0 DEF TypeInv, Say, Sent
  <1>2. /\ t \in Seq(Tagged(said + 1)) /\ Len(t) = Len(Bytes(l)) /\ Len(t) \in Nat
        /\ \A j \in 1..Len(t) : t[j] = [code |-> Bytes(l)[j], of |-> said + 1]
    BY <1>0, <1>1, SentType, LineType
  <1> HIDE DEF t
  <1>3. pipe \in Seq(Tagged(said + 1))
    <2>1. said \in Nat /\ said + 1 \in said..said + 1 /\ pipe \in Seq(Tagged(said))
      BY DEF TypeInv
    <2> QED
      BY <2>1, TaggedIsElement
  <1>4. /\ Len(pipe') = Len(pipe) + Len(t)
        /\ \A j \in 1..Len(pipe) : pipe'[j] = pipe[j]
        /\ \A j \in 1..Len(t) : pipe'[Len(pipe) + j] = t[j]
    <2>1. /\ Len(pipe \o t) = Len(pipe) + Len(t)
          /\ \A j \in 1..Len(pipe) : (pipe \o t)[j] = pipe[j]
          /\ \A j \in 1..Len(t) : (pipe \o t)[Len(pipe) + j] = t[j]
      <3> DEFINE S == Tagged(said + 1)
      <3>1. t \in Seq(S) /\ pipe \in Seq(S)
        BY <1>2, <1>3
      <3> HIDE DEF S
      <3> QED
        BY <3>1, Joined
    <2> QED
      BY <1>1, <2>1
  <1> DEFINE g == Len(read_buffer)
  <1>5. g \in Nat /\ Len(pipe) \in Nat /\ Len(Stream) = g + Len(pipe)
    BY StreamType
  <1>6. Len(Stream') = Len(Stream) + Len(t)
    <2>1. Len(Stream') = g + Len(pipe')
      BY <1>1, StreamTypeNext
    <2> QED
      BY <1>2, <1>4, <1>5, <2>1
  <1>7. ASSUME NEW j \in 1..Len(Stream) PROVE Stream'[j] = Stream[j]
    <2>1. j \in 1..Len(Stream') /\ (~(j <= g) => j - g \in 1..Len(pipe))
      BY <1>2, <1>5, <1>6
    <2>2. /\ Stream[j] = IF j <= g THEN read_buffer[j] ELSE pipe[j - g]
          /\ Stream'[j] = IF j <= g THEN read_buffer[j] ELSE pipe'[j - g]
      BY <1>1, <2>1, StreamType, StreamTypeNext
    <2> QED
      BY <1>4, <2>1, <2>2
  <1>8. ASSUME NEW j \in 1..Len(t) PROVE Stream'[Len(Stream) + j] = t[j]
    <2>1. PICK m \in 1..Len(Stream') : m = Len(Stream) + j
      BY <1>2, <1>5, <1>6
    <2>2. ~(m <= g) /\ m - g = Len(pipe) + j
      BY <1>2, <1>5, <2>1
    <2>3. Stream'[m] = IF m <= g THEN read_buffer[m] ELSE pipe'[m - g]
      BY <1>1, StreamTypeNext
    <2> QED
      BY <1>4, <2>1, <2>2, <2>3
  <1> QED
    BY <1>1, <1>2, <1>6, <1>7, <1>8 DEF t

LEMMA WholeEnd ==
  ASSUME NEW s, NEW n \in Nat, NEW i, n >= 2, n = Len(s),
         s[n - 1] = [code |-> CR, of |-> i - 1], s[n] = [code |-> LF, of |-> i - 1]
  PROVE  Whole(s, <<>>, i, n)
  BY DEF Whole

LEMMA WholeAfterSay ==
  ASSUME TypeInv, SoundInv, TypeInv', Say
  PROVE  /\ \A i, p, c : Len(c) \in Nat /\ Whole(Stream, c, i, p)
               => Whole(Stream', c, i, p) /\ p \in 0..Len(Stream')
         /\ said + 1 \notin unsound => /\ Whole(Stream', Bytes(script[said + 1]), said + 1, Len(Stream))
                                       /\ Len(Stream) \in 0..Len(Stream')
  <1> DEFINE l == script[said + 1]
             b == Bytes(l)
             t == Sent(l, said + 1)
  <1>0. /\ said' = said + 1 /\ said \in Nat /\ Len(Stream) \in Nat
        /\ UNCHANGED <<script, unsound, handled>> /\ unsound \subseteq 1..said + 1
    BY StreamType DEF Say, TypeInv
  <1>1. /\ Sayable(l) /\ Len(t) = Len(b) /\ Len(t) \in Nat
        /\ \A j \in 1..Len(t) : t[j] = [code |-> b[j], of |-> said + 1]
        /\ Len(Stream') = Len(Stream) + Len(t)
        /\ \A j \in 1..Len(Stream) : Stream'[j] = Stream[j]
        /\ \A j \in 1..Len(t) : Stream'[Len(Stream) + j] = t[j]
    BY StreamIsSaid
  <1> HIDE DEF t
  <1>2. ASSUME NEW i, NEW p, NEW c, Len(c) \in Nat, Whole(Stream, c, i, p)
        PROVE  Whole(Stream', c, i, p) /\ p \in 0..Len(Stream')
    <2>1. p \in 0..Len(Stream) /\ p + Len(c) <= Len(Stream) /\ (p # 0 => p >= 2)
      BY <1>2 DEF Whole
    <2>2. p \in 0..Len(Stream') /\ p + Len(c) <= Len(Stream')
      BY <1>0, <1>1, <1>2, <2>1
    <2>3. p # 0 => Stream'[p - 1] = Stream[p - 1] /\ Stream'[p] = Stream[p]
      <3>1. p # 0 => p - 1 \in 1..Len(Stream) /\ p \in 1..Len(Stream)
        BY <1>0, <2>1
      <3> QED
        BY <1>1, <3>1
    <2>4. \A j \in 1..Len(c) : Stream'[p + j] = Stream[p + j]
      <3>1. \A j \in 1..Len(c) : p + j \in 1..Len(Stream)
        BY <1>0, <1>2, <2>1
      <3> QED
        BY <1>1, <3>1
    <2> QED
      BY <1>2, <2>2, <2>3, <2>4 DEF Whole
  <1>3. ASSUME said + 1 \notin unsound
        PROVE  Whole(Stream', b, said + 1, Len(Stream)) /\ Len(Stream) \in 0..Len(Stream')
    <2>1. Whole(Stream, <<>>, said + 1, Len(Stream))
      BY <1>3 DEF SoundInv
    <2>2. Whole(Stream', <<>>, said + 1, Len(Stream)) /\ Len(<<>>) = 0
      BY <1>2, <2>1
    <2>3. \A j \in 1..Len(b) : Stream'[Len(Stream) + j] = [code |-> b[j], of |-> said + 1]
      BY <1>1
    <2>4. Len(Stream) + Len(b) <= Len(Stream')
      BY <1>0, <1>1
    <2> QED
      BY <2>2, <2>3, <2>4 DEF Whole
  <1> QED
    BY <1>2, <1>3

LEMMA SoundSay ==
  ASSUME TypeInv, SoundInv, TypeInv', Say
  PROVE  SoundInv'
  <1> DEFINE l == script[said + 1]
             b == Bytes(l)
             t == Sent(l, said + 1)
  <1>0. /\ said' = said + 1 /\ said \in Nat /\ Len(Stream) \in Nat
        /\ UNCHANGED <<script, unsound, handled>> /\ unsound \subseteq 1..said + 1
    BY StreamType DEF Say, TypeInv
  <1>1. /\ Sayable(l) /\ Len(t) = Len(b) /\ Len(t) \in Nat
        /\ \A j \in 1..Len(t) : t[j] = [code |-> b[j], of |-> said + 1]
        /\ Len(Stream') = Len(Stream) + Len(t)
        /\ \A j \in 1..Len(Stream) : Stream'[j] = Stream[j]
        /\ \A j \in 1..Len(t) : Stream'[Len(Stream) + j] = t[j]
    BY StreamIsSaid
  <1> HIDE DEF t
  <1>2. /\ \A i, p, c : Len(c) \in Nat /\ Whole(Stream, c, i, p)
              => Whole(Stream', c, i, p) /\ p \in 0..Len(Stream')
        /\ said + 1 \notin unsound => Whole(Stream', b, said + 1, Len(Stream)) /\ Len(Stream) \in 0..Len(Stream')
    BY WholeAfterSay
  <1>4. Whole(Stream', <<>>, said + 1 + 1, Len(Stream'))
    <2> DEFINE k == Len(LineOf(l))
    <2>1. k \in Nat /\ Len(b) = k + 2 /\ b[k + 1] = CR /\ b[k + 2] = LF
      BY <1>1, LineType
    <2> HIDE DEF k, b
    <2>2. PICK n \in Nat : n = Len(Stream')
      BY <1>0, <1>1
    <2>3. /\ n >= 2 /\ n - 1 = Len(Stream) + (k + 1) /\ n = Len(Stream) + (k + 2)
          /\ k + 1 \in 1..Len(t) /\ k + 2 \in 1..Len(t)
      <3>1. PICK m \in Nat : m = Len(t)
        BY <1>1
      <3>2. PICK g \in Nat : g = Len(Stream)
        BY <1>0
      <3>3. m = k + 2 /\ n = g + m
        BY <1>1, <2>1, <2>2, <3>1, <3>2
      <3>4. n >= 2 /\ n - 1 = g + (k + 1) /\ n = g + (k + 2) /\ k + 1 \in 1..m /\ k + 2 \in 1..m
        BY <2>1, <3>3
      <3> QED
        BY <3>1, <3>2, <3>4
    <2>4. Stream'[n - 1] = t[k + 1] /\ Stream'[n] = t[k + 2]
      BY <1>1, <2>3
    <2>5. /\ Stream'[n - 1] = [code |-> CR, of |-> said + 1]
          /\ Stream'[n] = [code |-> LF, of |-> said + 1]
      BY <1>1, <2>1, <2>3, <2>4
    <2>6. PICK i \in Nat : i = said + 1 + 1 /\ i - 1 = said + 1
      BY <1>0
    <2>7. Whole(Stream', <<>>, i, n)
      BY <2>2, <2>3, <2>5, <2>6, WholeEnd
    <2> QED
      BY <2>2, <2>6, <2>7
  <1>5. ASSUME NEW i \in (1..said + 1) \ unsound
        PROVE  \/ Meaning(script[i]) \subseteq ToSet(handled)
               \/ \E p \in 0..Len(Stream') : Whole(Stream', Bytes(script[i]), i, p)
    <2>1. CASE i = said + 1
      BY <1>2, <2>1
    <2>2. CASE i # said + 1
      <3>1. i \in (1..said) \ unsound
        BY <1>0, <2>2
      <3>2. Len(Bytes(script[i])) \in Nat
        BY <3>1, OfWhole
      <3>3. \/ Meaning(script[i]) \subseteq ToSet(handled)
            \/ \E p \in 0..Len(Stream) : Whole(Stream, Bytes(script[i]), i, p)
        BY <3>1 DEF SoundInv
      <3> QED
        BY <1>2, <3>2, <3>3
    <2> QED
      BY <2>1, <2>2
  <1> QED
    BY <1>0, <1>4, <1>5 DEF SoundInv

(* A whole line of which a line end was read is handled.                    *)
LEMMA WholeIsHandled ==
  ASSUME NEW s \in Seq(Element), NEW l, Sayable(l), NEW i, NEW p, NEW e \in LineEnds(s), e > p,
         \A j \in LineEnds(s) : j <= e, p \in 0..Len(s),
         p # 0 => p >= 2 /\ s[p - 1].code = CR /\ s[p].code = LF,
         \A j \in 1..Len(Bytes(l)) : p + j <= Len(s) => s[p + j] = [code |-> Bytes(l)[j], of |-> i]
  PROVE  Meaning(l) \subseteq ToSet(Events(Lines(s)))
  <1> DEFINE t == LineOf(l)
             b == Bytes(l)
             k == Len(t)
             q == p + k + 1
  <1>0. LineEnds(s) \subseteq 1..Len(s) - 1 /\ Len(s) \in Nat
    BY EndsAreInside
  <1>1. /\ t \in Seq(Printed \ {CR, LF}) /\ k \in Nat /\ Len(b) = k + 2
        /\ \A j \in 1..k : b[j] = t[j] /\ b[j] \notin {CR, LF}
        /\ b[k + 1] = CR /\ b[k + 2] = LF
    BY LineType
  <1> HIDE DEF t, b, k
  <1>2. PICK n \in Nat : n = Len(s)
    BY <1>0
  <1>3. e \in 1..n - 1 /\ p \in 0..n
    BY <1>0, <1>2
  <1>4. \A j \in 1..k + 2 : p + j <= n => s[p + j] = [code |-> b[j], of |-> i]
    BY <1>1, <1>2 DEF b
  <1>5. \A j \in LineEnds(s) : j \in 1..n - 1 /\ s[j].code = CR /\ s[j + 1].code = LF
    BY <1>0, <1>2 DEF LineEnds
  <1>6. ASSUME NEW j \in LineEnds(s) PROVE ~(p <= j /\ j < q)
    <2> SUFFICES ASSUME p <= j, j < q PROVE FALSE
      OBVIOUS
    <2>1. CR # LF
      BY DEF CR, LF
    <2>2. CASE j = p
      <3>1. p # 0
        BY <1>5, <2>2
      <3>2. s[p].code = LF
        BY <3>1
      <3> QED
        BY <1>5, <2>1, <2>2, <3>2
    <2>3. CASE j # p
      <3>1. j - p \in 1..k /\ j - p \in 1..k + 2 /\ p + (j - p) = j /\ j <= n
        BY <1>1, <1>3, <1>5, <2>3
      <3>2. s[j] = [code |-> b[j - p], of |-> i]
        BY <1>4, <3>1
      <3>3. s[j].code \notin {CR, LF}
        BY <1>1, <3>1, <3>2
      <3> QED
        BY <1>5, <3>3
    <2> QED
      BY <2>2, <2>3
  <1>7. q <= e
    BY <1>1, <1>3, <1>6
  <1>8. q \in LineEnds(s) /\ q > p
    <2>1. q \in 1..n - 1 /\ p + (k + 1) = q /\ p + (k + 2) = q + 1 /\ q + 1 <= n /\ q <= n
      BY <1>1, <1>3, <1>7
    <2>2. k + 1 \in 1..k + 2 /\ k + 2 \in 1..k + 2
      BY <1>1
    <2>3. s[q] = [code |-> CR, of |-> i] /\ s[q + 1] = [code |-> LF, of |-> i]
      BY <1>1, <1>4, <2>1, <2>2
    <2>4. q \in LineEnds(s)
      BY <1>2, <2>1, <2>3 DEF LineEnds
    <2>5. q > p
      BY <1>1, <1>3
    <2> QED
      BY <2>4, <2>5
  <1>9. p # 0 => p - 1 \in LineEnds(s)
    <2> SUFFICES ASSUME p # 0 PROVE p - 1 \in LineEnds(s)
      OBVIOUS
    <2>1. p - 1 \in 1..n - 1 /\ p - 1 + 1 = p
      BY <1>3, <1>7, <1>1
    <2> QED
      BY <1>2, <2>1 DEF LineEnds
  <1>10. PICK m \in DOMAIN Lines(s) : Lines(s)[m] = Codes(SubSeq(s, p + 1, q - 1))
    <2> HIDE DEF q
    <2> QED
      BY <1>6, <1>8, <1>9, LineIsFound
  <1>11. Codes(SubSeq(s, p + 1, q - 1)) = t
    <2>1. q - 1 = p + k /\ p + k <= n /\ p \in Nat
      BY <1>1, <1>3, <1>7
    <2>2. ASSUME NEW j \in 1..k PROVE s[p + j].code = t[j]
      <3>1. j \in 1..k + 2 /\ p + j <= n
        BY <1>1, <1>3, <2>1
      <3>2. s[p + j] = [code |-> b[j], of |-> i]
        BY <1>4, <3>1
      <3> QED
        BY <1>1, <3>2
    <2>3. t \in Seq(Printed \ {CR, LF}) /\ p + Len(t) <= Len(s) /\ Len(t) = k
      BY <1>1, <1>2, <2>1 DEF k
    <2>4. Codes(SubSeq(s, p + 1, p + Len(t))) = t
      BY <2>1, <2>2, <2>3, CodesOfPart
    <2> QED
      BY <2>1, <2>3, <2>4
  <1>12. Decode(Lines(s)[m]) = Meaning(l)
    BY <1>10, <1>11, LineIsDecoded DEF t
  <1>13. PICK c \in Nat : DOMAIN Lines(s) = 1..c
    BY LinesDomain
  <1>14. \A x \in 1..c : Decode(Lines(s)[x]) \subseteq ToSet(Events(Lines(s)))
    BY <1>13, EventsOfLines
  <1> QED
    BY <1>10, <1>12, <1>13, <1>14

(* What a read leaves of the stream: what follows the last line end, if one *)
(* was read.                                                               *)
IsRead(n, b, a) ==
    /\ handled' = handled \o Events(Lines(b)) /\ UNCHANGED <<script, said, unsound, troubles>>
    /\ b \in Seq(Element) /\ Len(b) <= Len(Stream) /\ a <= Len(b)
    /\ \A j \in 1..Len(b) : b[j] = Stream[j]
    /\ \A j \in LineEnds(b) : j <= a - 1
    /\ a # 0 => /\ a - 1 \in LineEnds(b) /\ a - 1 \in 1..Len(b) - 1
                /\ Stream[a - 1].code = CR /\ Stream[a].code = LF
    /\ Len(Stream') = Len(Stream) - a /\ \A j \in 1..Len(Stream) - a : Stream'[j] = Stream[a + j]

LEMMA StreamIsRead ==
  ASSUME TypeInv, TypeInv', NEW n \in 1..Len(pipe), Read(n)
  PROVE  \E b \in Seq(Element), a \in Nat : IsRead(n, b, a)
  <1> DEFINE b == read_buffer \o SubSeq(pipe, 1, n)
             g == Len(read_buffer) + n
             a == IF LineEnds(b) = {} THEN 0 ELSE LastEnd(b) + 1
  <1>0. /\ pipe' = SubSeq(pipe, n + 1, Len(pipe)) /\ handled' = handled \o Events(Lines(b))
        /\ read_buffer' = IF LineEnds(b) = {} THEN b ELSE Rest(b)
        /\ UNCHANGED <<script, said, unsound, troubles>>
    BY DEF Read
  <1>1. n \in 0..Len(pipe) /\ said \in Nat /\ Len(Stream) \in Nat /\ Len(pipe) \in Nat
        /\ Len(read_buffer) \in Nat /\ Len(Stream) = Len(read_buffer) + Len(pipe)
    <2>1. said \in Nat /\ Len(Stream) \in Nat /\ Len(pipe) \in Nat
        /\ Len(read_buffer) \in Nat /\ Len(Stream) = Len(read_buffer) + Len(pipe)
      BY StreamType
    <2> QED
      BY <2>1
  <1>2. /\ b \in Seq(Tagged(said)) /\ Len(b) = g /\ g \in 0..Len(Stream)
        /\ \A j \in 1..g : b[j] = Stream[j]
        /\ Len(pipe') = Len(pipe) - n /\ \A j \in 1..Len(pipe) - n : pipe'[j] = Stream[g + j]
    BY <1>0, <1>1, StreamIsCut
  <1>3. b \in Seq(Element)
    BY <1>1, <1>2, TaggedIsElement
  <1> HIDE DEF b, g
  <1>5. /\ a \in 0..g /\ Len(read_buffer') = g - a /\ \A j \in 1..g - a : read_buffer'[j] = b[a + j]
        /\ (a # 0 => a - 1 \in LineEnds(b)) /\ \A j \in LineEnds(b) : j <= a - 1
    <2>1. CASE LineEnds(b) = {}
      <3>1. g \in Nat /\ \A j \in 1..g : 0 + j = j
        BY <1>1, <1>2
      <3> QED
        BY <1>0, <1>2, <2>1, <3>1
    <2>2. CASE LineEnds(b) # {}
      <3>1. /\ LastEnd(b) \in 1..g - 1 /\ Len(Rest(b)) = g - (LastEnd(b) + 1)
            /\ \A i \in 1..Len(Rest(b)) : Rest(b)[i] = b[LastEnd(b) + 1 + i]
        BY <1>2, <1>3, <2>2, RestIsAfter
      <3>2. LastEnd(b) \in LineEnds(b) /\ \A j \in LineEnds(b) : j <= LastEnd(b)
        BY <1>3, <2>2, LastEndIsLast
      <3>3. g \in Nat
        BY <1>1, <1>2
      <3>4. a = LastEnd(b) + 1 /\ a - 1 = LastEnd(b) /\ a \in 0..g
        BY <2>2, <3>1, <3>3
      <3> QED
        BY <1>0, <2>2, <3>1, <3>2, <3>4
    <2> QED
      BY <2>1, <2>2
  <1>6. a # 0 => /\ a - 1 \in 1..g - 1 /\ a <= g
                 /\ Stream[a - 1].code = CR /\ Stream[a].code = LF
    <2> SUFFICES ASSUME a # 0
                 PROVE  /\ a - 1 \in 1..g - 1 /\ a <= g
                        /\ Stream[a - 1].code = CR /\ Stream[a].code = LF
      OBVIOUS
    <2>1. a - 1 \in 1..g - 1 /\ b[a - 1].code = CR /\ b[a - 1 + 1].code = LF
      BY <1>2, <1>5 DEF LineEnds
    <2>2. a - 1 + 1 = a /\ a \in 1..g /\ a - 1 \in 1..g /\ g \in Nat
      BY <1>1, <1>2, <1>5, <2>1
    <2> QED
      BY <1>2, <2>1, <2>2
  <1> HIDE DEF a
  <1>7. Len(Stream') = Len(Stream) - a /\ \A j \in 1..Len(Stream) - a : Stream'[j] = Stream[a + j]
    <2>1. /\ Len(Stream') = g - a + Len(pipe') /\ Len(pipe') = Len(Stream) - g
          /\ \A j \in 1..Len(Stream') :
                Stream'[j] = IF j <= g - a THEN read_buffer'[j] ELSE pipe'[j - (g - a)]
      <3>1. Len(pipe') = Len(Stream) - g
        BY <1>1, <1>2 DEF g
      <3> QED
        BY <1>5, <3>1, StreamTypeNext
    <2>2. Len(Stream') = Len(Stream) - a /\ g \in Int /\ a \in Int
      <3>1. g \in Int /\ a \in Int
        BY <1>1, <1>2, <1>5
      <3>2. Len(Stream') = g - a + (Len(Stream) - g)
        BY <2>1
      <3> QED
        BY <1>1, <3>1, <3>2
    <2>3. ASSUME NEW j \in 1..Len(Stream) - a PROVE Stream'[j] = Stream[a + j]
      <3>0. j \in 1..Len(Stream')
        BY <2>2
      <3>1. CASE j <= g - a
        <4>1. j \in 1..g - a /\ a + j \in 1..g
          BY <1>5, <2>2, <3>1
        <4> QED
          BY <1>2, <1>5, <2>1, <3>0, <3>1, <4>1
      <3>2. CASE ~(j <= g - a)
        <4>1. j - (g - a) \in 1..Len(Stream) - g /\ g + (j - (g - a)) = a + j
          BY <1>1, <2>2, <3>2
        <4>2. Len(Stream) - g = Len(pipe) - n
          BY <1>2, <2>1
        <4> QED
          BY <1>2, <2>1, <3>0, <3>2, <4>1, <4>2
      <3> QED
        BY <3>1, <3>2
    <2> QED
      BY <2>2, <2>3
  <1>8. a \in Nat /\ Len(b) <= Len(Stream) /\ a <= Len(b)
    BY <1>1, <1>2, <1>5
  <1>9. IsRead(n, b, a)
    BY <1>0, <1>2, <1>3, <1>5, <1>6, <1>7, <1>8 DEF IsRead
  <1> QED
    BY <1>3, <1>8, <1>9

LEMMA WholeIsLeft ==
  ASSUME NEW s, NEW t, NEW a \in Nat, Len(s) \in Nat, Len(t) = Len(s) - a,
         \A j \in 1..Len(s) - a : t[j] = s[a + j], a # 0 => s[a].code = LF,
         NEW c, Len(c) \in Nat, NEW i, NEW p, Whole(s, c, i, p), a <= p
  PROVE  Whole(t, c, i, p - a) /\ p - a \in 0..Len(t)
  <1>1. p \in 0..Len(s) /\ (p # 0 => p >= 2 /\ s[p - 1] = [code |-> CR, of |-> i - 1])
    BY DEF Whole
  <1>2. a # p - 1
    <2> SUFFICES ASSUME a = p - 1 PROVE FALSE
      OBVIOUS
    <2>1. a # 0 /\ s[a] = [code |-> CR, of |-> i - 1]
      BY <1>1
    <2>2. s[a].code = CR /\ CR # LF
      BY <2>1 DEF CR, LF
    <2> QED
      BY <2>1, <2>2
  <1>3. Whole(t, c, i, p - a)
    BY <1>2, Cut
  <1> QED
    BY <1>3 DEF Whole

(* A CR of a whole line is that of its end.                                 *)
LEMMA EndOfWhole ==
  ASSUME NEW s, Len(s) \in Nat, NEW l, Sayable(l), NEW i, NEW p, Whole(s, Bytes(l), i, p),
         NEW e \in 1..Len(s), s[e].code = CR, p <= e, e <= p + Len(Bytes(l))
  PROVE  e = p + Len(LineOf(l)) + 1
  <1>1. /\ Len(LineOf(l)) \in Nat /\ Len(Bytes(l)) = Len(LineOf(l)) + 2
        /\ \A j \in 1..Len(LineOf(l)) : Bytes(l)[j] \notin {CR, LF}
        /\ Bytes(l)[Len(LineOf(l)) + 2] = LF
    BY LineType
  <1>2. PICK k \in Nat : k = Len(LineOf(l))
    BY <1>1
  <1>3. /\ p \in 0..Len(s) /\ (p # 0 => s[p] = [code |-> LF, of |-> i - 1])
        /\ \A j \in 1..k + 2 : s[p + j] = [code |-> Bytes(l)[j], of |-> i]
    BY <1>1, <1>2 DEF Whole
  <1>4. CR # LF
    BY DEF CR, LF
  <1>5. e # p
    <2> SUFFICES ASSUME e = p PROVE FALSE
      OBVIOUS
    <2>1. p # 0 /\ s[p].code = LF
      BY <1>3
    <2> QED
      BY <1>4, <2>1
  <1>6. PICK j \in 1..k + 2 : e = p + j
    <2>1. e - p \in 1..k + 2 /\ e = p + (e - p)
      BY <1>1, <1>2, <1>3, <1>5
    <2> QED
      BY <2>1
  <1>7. Bytes(l)[j] = CR
    <2>1. s[e] = [code |-> Bytes(l)[j], of |-> i]
      BY <1>3, <1>6
    <2> QED
      BY <2>1
  <1>8. ~(j \in 1..k) /\ j # k + 2
    BY <1>1, <1>2, <1>4, <1>7
  <1> QED
    BY <1>2, <1>3, <1>6, <1>8

LEMMA MoreIsHandled ==
  ASSUME TypeInv, NEW b, b \in Seq(Element), handled' = handled \o Events(Lines(b))
  PROVE  LET ev == Events(Lines(b))
         IN  /\ Len(handled) \in Nat /\ Len(ev) \in Nat /\ Len(handled') = Len(handled) + Len(ev)
             /\ \A j \in 1..Len(handled) : handled'[j] = handled[j]
             /\ \A j \in 1..Len(ev) : handled'[Len(handled) + j] = ev[j]
             /\ ToSet(handled) \subseteq ToSet(handled') /\ ToSet(ev) \subseteq ToSet(handled')
  <1> DEFINE ev == Events(Lines(b))
             S == EventSet(Lines(b))
             H == ToSet(handled) \cup S
  <1>0. handled' = handled \o ev
    OBVIOUS
  <1>1. ev \in Seq(S)
    BY LinesDomain, EventsOfLines
  <1> HIDE DEF ev, S
  <1>2. handled \in Seq(H) /\ ev \in Seq(H)
    BY <1>1, WiderType DEF TypeInv
  <1> HIDE DEF H
  <1>3. /\ handled' \in Seq(H) /\ Len(handled) \in Nat /\ Len(ev) \in Nat
        /\ Len(handled') = Len(handled) + Len(ev)
        /\ \A j \in 1..Len(handled) : handled'[j] = handled[j]
        /\ \A j \in 1..Len(ev) : handled'[Len(handled) + j] = ev[j]
    BY <1>0, <1>2, Joined
  <1>4. /\ DOMAIN handled = 1..Len(handled) /\ DOMAIN ev = 1..Len(ev)
        /\ DOMAIN handled' = 1..Len(handled) + Len(ev)
    BY <1>2, <1>3
  <1>5. ASSUME NEW j \in DOMAIN handled PROVE handled[j] \in ToSet(handled')
    <2>1. j \in DOMAIN handled' /\ handled'[j] = handled[j]
      BY <1>3, <1>4
    <2> QED
      BY <2>1 DEF ToSet
  <1>6. ASSUME NEW j \in DOMAIN ev PROVE ev[j] \in ToSet(handled')
    <2>1. Len(handled) + j \in DOMAIN handled' /\ handled'[Len(handled) + j] = ev[j]
      BY <1>3, <1>4
    <2> QED
      BY <2>1 DEF ToSet
  <1>7. ToSet(handled) \subseteq ToSet(handled') /\ ToSet(ev) \subseteq ToSet(handled')
    BY <1>5, <1>6 DEF ToSet
  <1> QED
    BY <1>3, <1>7 DEF ev

LEMMA SoundRead ==
  ASSUME TypeInv, SoundInv, TypeInv', NEW n \in 1..Len(pipe), Read(n)
  PROVE  SoundInv'
  <1>1. PICK b \in Seq(Element), a \in Nat : IsRead(n, b, a)
    BY StreamIsRead
  <1>2. /\ handled' = handled \o Events(Lines(b)) /\ UNCHANGED <<script, said, unsound>>
        /\ b \in Seq(Element) /\ Len(b) <= Len(Stream) /\ a <= Len(b)
        /\ \A j \in 1..Len(b) : b[j] = Stream[j]
        /\ \A j \in LineEnds(b) : j <= a - 1
        /\ a # 0 => /\ a - 1 \in LineEnds(b) /\ a - 1 \in 1..Len(b) - 1
                    /\ Stream[a - 1].code = CR /\ Stream[a].code = LF
        /\ Len(Stream') = Len(Stream) - a /\ \A j \in 1..Len(Stream) - a : Stream'[j] = Stream[a + j]
    BY <1>1 DEF IsRead
  <1>3. PICK g \in Nat : g = Len(b) /\ Len(Stream) \in Nat
    BY <1>2, StreamType
  <1>4. ToSet(handled) \subseteq ToSet(handled') /\ ToSet(Events(Lines(b))) \subseteq ToSet(handled')
    BY <1>2, MoreIsHandled
  <1>5. ASSUME NEW i \in (1..said) \ unsound', NEW p \in 0..Len(Stream),
               Whole(Stream, Bytes(script[i]), i, p)
        PROVE  \/ Meaning(script[i]) \subseteq ToSet(handled')
               \/ \E q \in 0..Len(Stream') : Whole(Stream', Bytes(script[i]), i, q)
    <2>1. Sayable(script[i]) /\ Len(Bytes(script[i])) \in Nat
      BY OfWhole
    <2>2. CASE a <= p
      BY <1>2, <1>3, <1>5, <2>1, <2>2, WholeIsLeft
    <2>3. CASE ~(a <= p)
      <3>1. /\ p \in Int /\ a \in Int /\ a # 0 /\ a - 1 >= p /\ a - 1 \in LineEnds(b)
            /\ \A j \in LineEnds(b) : j <= a - 1
        BY <1>2, <1>3, <2>3
      <3>2. /\ p # 0 => /\ p >= 2 /\ Stream[p - 1] = [code |-> CR, of |-> i - 1]
                        /\ Stream[p] = [code |-> LF, of |-> i - 1]
            /\ \A j \in 1..Len(Bytes(script[i])) :
                  Stream[p + j] = [code |-> Bytes(script[i])[j], of |-> i]
        BY <1>5 DEF Whole
      <3>3. a - 1 # p
        <4> SUFFICES ASSUME a - 1 = p PROVE FALSE
          OBVIOUS
        <4>1. Stream[p].code = CR /\ p # 0
          BY <1>2, <3>1
        <4>2. Stream[p].code = LF
          BY <3>2, <4>1
        <4> QED
          BY <4>1, <4>2 DEF CR, LF
      <3>4. a - 1 > p /\ p \in 0..g /\ g \in Int
        <4>1. a <= g /\ g \in Int
          BY <1>2, <1>3
        <4> QED
          BY <3>1, <3>3, <4>1
      <3>5. ASSUME p # 0 PROVE p >= 2 /\ b[p - 1].code = CR /\ b[p].code = LF
        <4>1. p >= 2 /\ p \in 1..g /\ p - 1 \in 1..g
          <5>1. p >= 2
            BY <3>2, <3>5
          <5> QED
            BY <3>1, <3>4, <5>1
        <4>2. b[p - 1] = [code |-> CR, of |-> i - 1] /\ b[p] = [code |-> LF, of |-> i - 1]
          BY <1>2, <1>3, <3>2, <3>5, <4>1
        <4> QED
          BY <4>1, <4>2
      <3>6. ASSUME NEW j \in 1..Len(Bytes(script[i])), p + j <= g
            PROVE  b[p + j] = [code |-> Bytes(script[i])[j], of |-> i]
        <4>1. p + j \in 1..g
          BY <3>1, <3>4, <3>6
        <4> QED
          BY <1>2, <1>3, <3>2, <4>1
      <3>7. Meaning(script[i]) \subseteq ToSet(Events(Lines(b)))
        <4>1. PICK e \in LineEnds(b) : e = a - 1
          BY <3>1
        <4>2. /\ e > p /\ (\A j \in LineEnds(b) : j <= e) /\ p \in 0..Len(b)
              /\ p # 0 => p >= 2 /\ b[p - 1].code = CR /\ b[p].code = LF
              /\ \A j \in 1..Len(Bytes(script[i])) : p + j <= Len(b) =>
                    b[p + j] = [code |-> Bytes(script[i])[j], of |-> i]
          BY <1>3, <3>1, <3>4, <3>5, <3>6, <4>1
        <4> QED
          BY <1>2, <2>1, <4>2, WholeIsHandled
      <3> QED
        BY <1>4, <3>7
    <2> QED
      BY <2>2, <2>3
  <1>6. ASSUME said + 1 \notin unsound', Whole(Stream, <<>>, said + 1, Len(Stream))
         PROVE  Whole(Stream', <<>>, said + 1, Len(Stream'))
    <2>1. Len(<<>>) \in Nat /\ a <= Len(Stream)
      BY <1>2, <1>3
    <2> QED
      BY <1>2, <1>3, <1>6, <2>1, WholeIsLeft
  <1>7. said' = said /\ script' = script /\ unsound \subseteq unsound'
    BY <1>2
  <1> QED
    BY <1>4, <1>5, <1>6, <1>7, SoundKept

LEMMA SoundStart ==
  ASSUME Init, TypeInv PROVE SoundInv
  <1>1. said = 0 /\ Len(read_buffer) = 0 /\ Len(pipe) = 0
    BY DEF Init
  <1>2. Len(Stream) = 0
    BY <1>1, StreamType
  <1>3. Whole(Stream, <<>>, said + 1, 0)
    BY <1>2 DEF Whole
  <1>4. 1..said = {}
    BY <1>1
  <1> QED
    BY <1>2, <1>3, <1>4 DEF SoundInv

LEMMA SoundStep ==
  ASSUME TypeInv, SoundInv, TypeInv', [Next]_vars PROVE SoundInv'
  <1>1. CASE Say
    BY <1>1, SoundSay
  <1>2. CASE \E n \in 1..Len(pipe) : Read(n)
    BY <1>2, SoundRead
  <1>3. CASE \E i \in DOMAIN pipe : Lose(i)
    BY <1>3, SoundLose
  <1>4. CASE \E i \in DOMAIN pipe : \E c \in Noise : Replace(i, c)
    BY <1>4, SoundReplace
  <1>5. CASE \E n \in 0..Len(pipe) : NewSession(n)
    BY <1>5, SoundNewSession
  <1>6. CASE CallAny \/ UNCHANGED vars
    <2>1. UNCHANGED <<script, said, pipe, read_buffer, handled, unsound>>
      BY <1>6 DEF CallAny, Call, vars
    <2> QED
      BY <2>1 DEF SoundInv, Stream
  <1> QED
    BY <1>1, <1>2, <1>3, <1>4, <1>5, <1>6 DEF Next

LEMMA NothingIsLeft ==
  ASSUME TypeInv, pipe = <<>>, NEW i \in 1..said, NEW p, Whole(Stream, Bytes(script[i]), i, p)
  PROVE  FALSE
  <1> DEFINE l == script[i]
             k == Len(LineOf(l))
             r == read_buffer
  <1>1. /\ k \in Nat /\ Len(Bytes(l)) = k + 2
        /\ Bytes(l)[k + 1] = CR /\ Bytes(l)[k + 2] = LF
    BY OfWhole, LineType
  <1> HIDE DEF k
  <1>2. Len(Stream) = Len(r) /\ Len(r) \in Nat /\ \A j \in 1..Len(r) : Stream[j] = r[j]
    <2>1. Len(pipe) = 0
      OBVIOUS
    <2> QED
      BY <2>1, StreamType
  <1>3. PICK n \in Nat : n = Len(r)
    BY <1>2
  <1>4. /\ p \in 0..n /\ p + (k + 2) <= n
        /\ \A j \in 1..k + 2 : Stream[p + j] = [code |-> Bytes(l)[j], of |-> i]
    BY <1>1, <1>2, <1>3 DEF Whole
  <1>5. k + 1 \in 1..k + 2 /\ k + 2 \in 1..k + 2
    BY <1>1
  <1>6. p + (k + 1) \in 1..n - 1 /\ p + (k + 2) = p + (k + 1) + 1
    BY <1>1, <1>4
  <1>7. p + (k + 1) \in 1..n /\ p + (k + 2) \in 1..n
    BY <1>1, <1>4
  <1>8. r[p + (k + 1)].code = CR /\ r[p + (k + 2)].code = LF
    <2>1. r[p + (k + 1)] = [code |-> CR, of |-> i] /\ r[p + (k + 2)] = [code |-> LF, of |-> i]
      BY <1>1, <1>2, <1>3, <1>4, <1>5, <1>7
    <2> QED
      BY <2>1
  <1>9. p + (k + 1) \in LineEnds(r)
    BY <1>3, <1>6, <1>8 DEF LineEnds
  <1> QED
    BY <1>9 DEF TypeInv

(* Once everything was read, every line that nobody touched is handled,     *)
(* whatever read() cut, however many bytes of other lines were lost or      *)
(* replaced and however many sessions ended (connection.py:83-101).         *)
THEOREM SoundLinesAreHandled == Spec => []SoundIsHandled
  <1>1. TypeInv /\ SoundInv => SoundIsHandled
    <2> SUFFICES ASSUME TypeInv, SoundInv, pipe = <<>>, NEW i \in (1..said) \ unsound
                 PROVE  Meaning(script[i]) \subseteq ToSet(handled)
      BY DEF SoundIsHandled
    <2>1. ~ \E p \in 0..Len(Stream) : Whole(Stream, Bytes(script[i]), i, p)
      BY NothingIsLeft
    <2> QED
      BY <2>1 DEF SoundInv
  <1> QED
    BY <1>1, TypeAlways, SoundStart, SoundStep, PTL DEF Spec

-----------------------------------------------------------------------------
(* A stream that nothing happened to: every code of it is of a line that is *)
(* whole, the lines are in their order, and what was handled is of lines    *)
(* before them, each handled once.                                         *)
Covered(q, p) ==
    /\ p < q /\ q <= p + Len(Bytes(script[Stream[q].of]))
    /\ Whole(Stream, Bytes(script[Stream[q].of]), Stream[q].of, p)

HandledFrom(at) ==
    /\ at \in [1..Len(handled) -> 1..said]
    /\ \A k \in 1..Len(handled) : handled[k] \in Meaning(script[at[k]])
    /\ \A k, m \in 1..Len(handled) : k < m => at[k] < at[m]
    /\ \A k \in 1..Len(handled) : \A q \in 1..Len(Stream) : at[k] < Stream[q].of

QuietInv ==
    /\ unsound = {}
    /\ \A q \in 1..Len(Stream) : \E p \in 0..Len(Stream) : Covered(q, p)
    /\ \A q, r \in 1..Len(Stream) : q <= r => Stream[q].of <= Stream[r].of
    /\ \E at : HandledFrom(at)

LEMMA QuietStart ==
  ASSUME Init, TypeInv PROVE QuietInv
  <1>1. said = 0 /\ Len(read_buffer) = 0 /\ Len(pipe) = 0 /\ Len(handled) = 0 /\ unsound = {}
    BY DEF Init
  <1>2. Len(Stream) = 0
    BY <1>1, StreamType
  <1> DEFINE e == [k \in 1..0 |-> 0]
  <1>3. HandledFrom(e)
    BY <1>1 DEF HandledFrom
  <1> HIDE DEF e
  <1> QED
    BY <1>1, <1>2, <1>3 DEF QuietInv

LEMMA QuietSay ==
  ASSUME TypeInv, SoundInv, QuietInv, TypeInv', Say
  PROVE  QuietInv'
  <1> DEFINE t == Sent(script[said + 1], said + 1)
             n == Len(Stream)
  <1>0. /\ said' = said + 1 /\ said \in Nat /\ n \in Nat
        /\ UNCHANGED <<script, unsound, handled>> /\ unsound = {}
    BY StreamType DEF Say, QuietInv
  <1>1. /\ Sayable(script[said + 1]) /\ Len(t) = Len(Bytes(script[said + 1])) /\ Len(t) \in Nat
        /\ \A j \in 1..Len(t) : t[j] = [code |-> Bytes(script[said + 1])[j], of |-> said + 1]
        /\ Len(Stream') = n + Len(t)
        /\ \A j \in 1..n : Stream'[j] = Stream[j]
        /\ \A j \in 1..Len(t) : Stream'[n + j] = t[j]
    BY StreamIsSaid
  <1>2. /\ \A i, p, c : Len(c) \in Nat /\ Whole(Stream, c, i, p)
              => Whole(Stream', c, i, p) /\ p \in 0..Len(Stream')
        /\ Whole(Stream', Bytes(script[said + 1]), said + 1, n) /\ n \in 0..Len(Stream')
    BY <1>0, WholeAfterSay
  <1> HIDE DEF t, n
  <1>3. ASSUME NEW q \in 1..Len(Stream')
        PROVE  \/ q \in 1..n /\ Stream'[q] = Stream[q] /\ Stream[q].of \in 1..said
               \/ /\ q \in n + 1..n + Len(t) /\ Stream'[q].of = said + 1
    <2>1. CASE q \in 1..n
      <3>1. Stream[q].of \in 1..said
        BY <2>1, StreamType DEF n
      <3> QED
        BY <1>1, <2>1, <3>1
    <2>2. CASE q \notin 1..n
      <3>1. q - n \in 1..Len(t) /\ n + (q - n) = q /\ q \in n + 1..n + Len(t)
        BY <1>0, <1>1, <2>2
      <3>2. Stream'[q] = [code |-> Bytes(script[said + 1])[q - n], of |-> said + 1]
        BY <1>1, <3>1
      <3> QED
        BY <3>1, <3>2
    <2> QED
      BY <2>1, <2>2
  <1>4. ASSUME NEW q \in 1..Len(Stream')
        PROVE  \E p \in 0..Len(Stream') :
                  /\ p < q /\ q <= p + Len(Bytes(script[Stream'[q].of]))
                  /\ Whole(Stream', Bytes(script[Stream'[q].of]), Stream'[q].of, p)
    <2>1. CASE q \in 1..n /\ Stream'[q] = Stream[q] /\ Stream[q].of \in 1..said
      <3>1. PICK p \in 0..Len(Stream) : Covered(q, p)
        BY <2>1 DEF QuietInv, n
      <3>2. Len(Bytes(script[Stream[q].of])) \in Nat
        BY <2>1, OfWhole
      <3> QED
        BY <1>2, <2>1, <3>1, <3>2 DEF Covered
    <2>2. CASE q \in n + 1..n + Len(t) /\ Stream'[q].of = said + 1
      <3>1. n < q /\ q <= n + Len(Bytes(script[said + 1]))
        BY <1>0, <1>1, <2>2
      <3> QED
        BY <1>2, <2>2, <3>1
    <2> QED
      BY <1>3, <2>1, <2>2
  <1>5. ASSUME NEW q \in 1..Len(Stream'), NEW r \in 1..Len(Stream'), q <= r
        PROVE  Stream'[q].of <= Stream'[r].of
    <2>1. CASE r \in 1..n /\ Stream'[r] = Stream[r] /\ Stream[r].of \in 1..said
      <3>1. q \in 1..n
        BY <1>0, <1>5, <2>1
      <3>2. Stream'[q] = Stream[q]
        BY <1>1, <3>1
      <3> QED
        BY <1>5, <2>1, <3>1, <3>2 DEF QuietInv, n
    <2>2. CASE Stream'[r].of = said + 1
      BY <1>0, <1>3, <2>2
    <2> QED
      BY <1>3, <2>1, <2>2
  <1>6. PICK at : HandledFrom(at)
    BY DEF QuietInv
  <1>7. at \in [1..Len(handled) -> 1..said + 1]
    <2>1. at \in [1..Len(handled) -> 1..said] /\ 1..said \subseteq 1..said + 1
      BY <1>0, <1>6 DEF HandledFrom
    <2> QED
      BY <2>1
  <1>8. ASSUME NEW k \in 1..Len(handled), NEW q \in 1..Len(Stream') PROVE at[k] < Stream'[q].of
    <2>1. at[k] \in 1..said
      BY <1>6 DEF HandledFrom
    <2>2. CASE q \in 1..n /\ Stream'[q] = Stream[q]
      BY <1>6, <2>2 DEF HandledFrom, n
    <2>3. CASE Stream'[q].of = said + 1
      BY <1>0, <2>1, <2>3
    <2> QED
      BY <1>3, <2>2, <2>3
  <1>9. HandledFrom(at)'
    BY <1>0, <1>6, <1>7, <1>8 DEF HandledFrom
  <1> QED
    BY <1>0, <1>4, <1>5, <1>9 DEF QuietInv, Covered

LEMMA EndsIncrease ==
  ASSUME NEW s \in Seq(Element), NEW e, InOrder(e, s),
         NEW k \in 1..Cardinality(LineEnds(s)), NEW m \in 1..Cardinality(LineEnds(s)), k < m
  PROVE  e[k] < e[m]
  <1> DEFINE C == Cardinality(LineEnds(s))
             T == {d \in Nat : k + 1 + d <= C => e[k] < e[k + 1 + d]}
  <1>0. LineEnds(s) \subseteq Nat /\ C \in Nat
    BY EndsAreInside
  <1>1. \A j \in 1..C : e[j] \in Int /\ e[j] > e[j - 1]
    BY <1>0 DEF InOrder
  <1>2. 0 \in T
    <2>1. k + 1 \in 1..C /\ k + 1 - 1 = k /\ k + 1 + 0 = k + 1
      BY <1>0
    <2>2. e[k + 1] > e[k] /\ e[k + 1] \in Int /\ e[k] \in Int
      BY <1>1, <2>1
    <2> QED
      BY <2>1, <2>2
  <1>3. ASSUME NEW d \in T PROVE d + 1 \in T
    <2>1. d \in Nat /\ (k + 1 + d <= C => e[k] < e[k + 1 + d])
      OBVIOUS
    <2>2. ASSUME k + 1 + (d + 1) <= C PROVE e[k] < e[k + 1 + (d + 1)]
      <3>1. PICK x \in 1..C, y \in 1..C : x = k + 1 + d /\ y = k + 1 + (d + 1) /\ y - 1 = x
        BY <1>0, <2>1, <2>2
      <3>2. e[k] < e[x] /\ e[y] > e[x] /\ e[k] \in Int /\ e[x] \in Int /\ e[y] \in Int
        BY <1>1, <2>1, <3>1
      <3> QED
        BY <3>1, <3>2
    <2> QED
      BY <2>1, <2>2
  <1>4. m - (k + 1) \in T
    <2> HIDE DEF T
    <2>1. T \subseteq Nat
      BY DEF T
    <2>2. T = Nat
      BY <1>2, <1>3, <2>1, SetInduction
    <2> QED
      BY <1>0, <2>2
  <1>5. k + 1 + (m - (k + 1)) = m /\ m <= C
    BY <1>0
  <1>6. k + 1 + (m - (k + 1)) <= C => e[k] < e[k + 1 + (m - (k + 1))]
    BY <1>4
  <1> QED
    BY <1>5, <1>6

LEMMA EventsInOrder ==
  ASSUME NEW c \in Nat, NEW lines, DOMAIN lines = 1..c
  PROVE  \E f \in [1..Len(Events(lines)) -> 1..c] :
            /\ \A x \in 1..Len(Events(lines)) : Events(lines)[x] \in Decode(lines[f[x]])
            /\ \A x, y \in 1..Len(Events(lines)) : x < y => f[x] < f[y]
  <1> DEFINE S == EventSet(lines)
             seqs == [k \in DOMAIN lines |-> SetToSeq(Decode(lines[k]))]
  <1>1. \A k \in 1..c : seqs[k] = SetToSeq(Decode(lines[k])) /\ Decode(lines[k]) \subseteq S
    BY DEF EventSet
  <1>2. ASSUME NEW k \in 1..c
        PROVE  /\ seqs[k] \in Seq(S) /\ Len(seqs[k]) \in 0..1
               /\ Len(seqs[k]) = 1 => seqs[k][1] \in Decode(lines[k])
    <2> DEFINE d == Decode(lines[k])
               x == seqs[k]
    <2>1. x \in Seq(d) /\ d \subseteq S /\ Len(x) \in 0..1
      BY <1>1, DecodedSequence
    <2> HIDE DEF d, x, S
    <2>2. x \in Seq(S) /\ (Len(x) = 1 => x[1] \in d)
      BY <2>1, WiderType
    <2> QED
      BY <2>1, <2>2 DEF x, d
  <1>3. seqs = [k \in 1..c |-> seqs[k]]
    OBVIOUS
  <1>4. Events(lines) = FlattenSeq(seqs)
    BY DEF Events
  <1> HIDE DEF seqs, S
  <1>5. seqs \in Seq(Seq(S)) /\ Len(seqs) = c
    <2> DEFINE Q == Seq(S)
    <2>1. \A k \in 1..c : seqs[k] \in Q
      BY <1>2
    <2> HIDE DEF Q
    <2>2. seqs \in Seq(Q) /\ Len(seqs) = c
      BY <1>3, <2>1
    <2> QED
      BY <2>2 DEF Q
  <1>6. \A k \in 1..Len(seqs) : Len(seqs[k]) \in 0..1
    BY <1>2, <1>5
  <1>7. PICK f : InOrderFrom(f, FlattenSeq(seqs), seqs, c)
    BY <1>5, <1>6, FlattenSeqOrder
  <1> DEFINE v == Events(lines)
  <1>8. /\ f \in [1..Len(v) -> 1..c]
        /\ \A x \in 1..Len(v) : Len(seqs[f[x]]) = 1 /\ v[x] = seqs[f[x]][1]
        /\ \A x, y \in 1..Len(v) : x < y => f[x] < f[y]
    BY <1>4, <1>7 DEF InOrderFrom
  <1> HIDE DEF v
  <1>9. ASSUME NEW x \in 1..Len(v) PROVE v[x] \in Decode(lines[f[x]])
    <2>1. f[x] \in 1..c
      BY <1>8
    <2> QED
      BY <1>2, <1>8, <2>1
  <1> QED
    BY <1>8, <1>9 DEF v

(* The line of an end that was read.                                        *)
LEMMA EndIsOfLine ==
  ASSUME TypeInv, NEW b \in Seq(Element), Len(b) <= Len(Stream),
         \A j \in 1..Len(b) : b[j] = Stream[j],
         NEW j \in LineEnds(b), NEW p \in 0..Len(Stream), Covered(j, p)
  PROVE  LET l == script[Stream[j].of]
         IN  /\ Stream[j].of \in 1..said /\ Sayable(l)
             /\ j = p + Len(LineOf(l)) + 1 /\ (p # 0 => p - 1 \in LineEnds(b))
             /\ \A q \in LineEnds(b) : ~(p <= q /\ q < j)
             /\ Codes(SubSeq(b, p + 1, j - 1)) = LineOf(l)
  <1> DEFINE i == Stream[j].of
             l == script[i]
             t == LineOf(l)
  <1>0. PICK n \in Nat, g \in Nat : n = Len(Stream) /\ g = Len(b) /\ g <= n
    BY StreamType
  <1>1. \A q \in LineEnds(b) : q \in 1..g - 1 /\ q \in 1..n /\ Stream[q].code = CR /\ Stream[q + 1].code = LF
    <2>1. ASSUME NEW q \in LineEnds(b)
          PROVE  q \in 1..g - 1 /\ q \in 1..n /\ Stream[q].code = CR /\ Stream[q + 1].code = LF
      <3>1. q \in 1..g - 1 /\ b[q].code = CR /\ b[q + 1].code = LF
        BY <1>0 DEF LineEnds
      <3>2. q \in 1..g /\ q + 1 \in 1..g /\ q \in 1..n
        BY <1>0, <3>1
      <3> QED
        BY <1>0, <3>1, <3>2
    <2> QED
      BY <2>1
  <1>2. i \in 1..said /\ Sayable(l)
    <2>1. j \in 1..Len(Stream)
      BY <1>0, <1>1
    <2>2. i \in 1..said
      BY <2>1, StreamType
    <2> HIDE DEF i
    <2> QED
      BY <2>2, OfWhole
  <1>3. p < j /\ j <= p + Len(Bytes(l)) /\ Whole(Stream, Bytes(l), i, p)
    BY DEF Covered
  <1> HIDE DEF i, l
  <1>4. /\ t \in Seq(Printed \ {CR, LF}) /\ Len(t) \in Nat /\ Len(Bytes(l)) = Len(t) + 2
        /\ \A x \in 1..Len(t) : Bytes(l)[x] = t[x] /\ Bytes(l)[x] \notin {CR, LF}
    BY <1>2, LineType
  <1> HIDE DEF t
  <1>5. ASSUME NEW q \in LineEnds(b), p <= q, q <= p + Len(Bytes(l))
        PROVE  q = p + Len(t) + 1
    <2>1. q \in 1..Len(Stream) /\ Len(Stream) \in Nat /\ Stream[q].code = CR
      BY <1>0, <1>1
    <2> QED
      BY <1>2, <1>3, <1>5, <2>1, EndOfWhole DEF t
  <1>6. p <= j
    BY <1>0, <1>1, <1>3
  <1>7. j = p + Len(t) + 1
    BY <1>3, <1>5, <1>6
  <1>8. ASSUME NEW q \in LineEnds(b), p <= q, q < j PROVE FALSE
    <2>1. q <= p + Len(Bytes(l)) /\ q \in Int /\ j \in Int /\ p \in Int
      BY <1>0, <1>1, <1>4, <1>7, <1>8
    <2>2. q = p + Len(t) + 1
      BY <1>5, <1>8, <2>1
    <2> QED
      BY <1>7, <1>8, <2>1, <2>2
  <1>9. /\ p + Len(Bytes(l)) <= n
        /\ p # 0 => /\ p >= 2 /\ Stream[p - 1] = [code |-> CR, of |-> i - 1]
                    /\ Stream[p] = [code |-> LF, of |-> i - 1]
        /\ \A x \in 1..Len(Bytes(l)) : Stream[p + x] = [code |-> Bytes(l)[x], of |-> i]
    BY <1>0, <1>3 DEF Whole
  <1>10. j \in 1..g - 1 /\ p \in Nat
    BY <1>1
  <1>11. ASSUME p # 0 PROVE p - 1 \in LineEnds(b)
    <2>1. p - 1 \in 1..g - 1 /\ p - 1 + 1 = p /\ p - 1 \in 1..g /\ p \in 1..g
      BY <1>3, <1>9, <1>10, <1>11
    <2>2. b[p - 1] = [code |-> CR, of |-> i - 1] /\ b[p] = [code |-> LF, of |-> i - 1]
      BY <1>0, <1>9, <1>11, <2>1
    <2>3. b[p - 1].code = CR /\ b[p].code = LF
      BY <2>2
    <2> QED
      BY <1>0, <2>1, <2>3 DEF LineEnds
  <1>12. Codes(SubSeq(b, p + 1, p + Len(t))) = t
    <2>1. p + Len(t) <= g
      BY <1>4, <1>7, <1>10
    <2>2. ASSUME NEW x \in 1..Len(t) PROVE b[p + x].code = t[x]
      <3>1. p + x \in 1..g /\ x \in 1..Len(Bytes(l))
        BY <1>4, <1>10, <2>1
      <3>2. b[p + x] = [code |-> Bytes(l)[x], of |-> i]
        BY <1>0, <1>9, <3>1
      <3> QED
        BY <1>4, <3>2
    <2> QED
      BY <1>0, <1>4, <1>10, <2>1, <2>2, CodesOfPart
  <1>13. p + Len(t) = j - 1
    BY <1>4, <1>7, <1>10
  <1> QED
    BY <1>2, <1>7, <1>8, <1>11, <1>12, <1>13 DEF i, l, t

(* A line begins after the codes of the lines before it.                    *)
LEMMA TagsIncrease ==
  ASSUME TypeInv, QuietInv, NEW r \in 1..Len(Stream), NEW p \in 0..Len(Stream), Covered(r, p),
         NEW j \in 1..p
  PROVE  Stream[j].of < Stream[r].of
  <1>0. PICK n \in Nat : n = Len(Stream)
    BY StreamType
  <1>1. p \in 1..n /\ j \in 1..n /\ r \in 1..n /\ j <= p
    BY <1>0
  <1>2. Stream[p] = [code |-> LF, of |-> Stream[r].of - 1]
    BY <1>1 DEF Covered, Whole
  <1>3. Stream[j].of \in Int /\ Stream[r].of \in Int /\ Stream[p].of \in Int
    BY <1>0, <1>1, StreamType
  <1>4. Stream[p].of = Stream[r].of - 1
    BY <1>2
  <1>5. Stream[j].of <= Stream[p].of
    BY <1>0, <1>1 DEF QuietInv
  <1> QED
    BY <1>3, <1>4, <1>5

(* A read takes whole lines.                                               *)
LEMMA CoverIsLeft ==
  ASSUME TypeInv, QuietInv, NEW n, NEW b \in Seq(Element), NEW a \in Nat, IsRead(n, b, a),
         NEW q \in 1..Len(Stream')
  PROVE  /\ a + q \in 1..Len(Stream) /\ Stream'[q] = Stream[a + q]
         /\ \E p \in 0..Len(Stream) : Covered(a + q, p) /\ a <= p
         /\ \E p \in 0..Len(Stream') : Covered(q, p)'
  <1>1. /\ Len(b) <= Len(Stream) /\ a <= Len(b) /\ script' = script
        /\ a # 0 => a - 1 \in 1..Len(b) - 1 /\ Stream[a - 1].code = CR /\ Stream[a].code = LF
        /\ Len(Stream') = Len(Stream) - a /\ \A j \in 1..Len(Stream) - a : Stream'[j] = Stream[a + j]
    BY DEF IsRead
  <1>2. PICK g \in Nat, m \in Nat : g = Len(b) /\ m = Len(Stream)
    BY StreamType
  <1>3. PICK r \in 1..m : r = a + q
    BY <1>1, <1>2
  <1>4. q \in 1..m - a /\ Stream'[q] = Stream[r]
    BY <1>1, <1>2, <1>3
  <1>5. PICK p \in 0..Len(Stream) : Covered(r, p)
    BY <1>2, <1>3 DEF QuietInv
  <1> DEFINE i == Stream[r].of
             l == script[i]
  <1>6. i \in 1..said
    BY <1>2, <1>3, StreamType
  <1>7. p < r /\ r <= p + Len(Bytes(l)) /\ Whole(Stream, Bytes(l), i, p)
    BY <1>5 DEF Covered
  <1> HIDE DEF i
  <1>8. Sayable(l) /\ Len(Bytes(l)) \in Nat
    BY <1>6, OfWhole
  <1>9. Len(LineOf(l)) \in Nat /\ Len(Bytes(l)) = Len(LineOf(l)) + 2
    BY <1>8, LineType
  <1> HIDE DEF l
  <1>10. a <= p
    <2> SUFFICES ASSUME ~(a <= p) PROVE FALSE
      OBVIOUS
    <2>1. a # 0 /\ p \in Nat /\ a - 1 >= p
      BY <1>2
    <2>2. PICK e \in 1..m : e = a - 1 /\ Stream[e].code = CR
      BY <1>1, <1>2, <2>1
    <2>3. p <= e /\ e <= p + Len(Bytes(l))
      BY <1>3, <1>7, <1>8, <2>1, <2>2
    <2>4. e = p + Len(LineOf(l)) + 1
      BY <1>2, <1>7, <1>8, <2>2, <2>3, EndOfWhole DEF l
    <2> QED
      BY <1>3, <1>7, <1>9, <2>1, <2>2, <2>4
  <1>11. Whole(Stream', Bytes(l), i, p - a) /\ p - a \in 0..Len(Stream')
    BY <1>1, <1>2, <1>7, <1>8, <1>10, WholeIsLeft
  <1>12. p - a < q /\ q <= (p - a) + Len(Bytes(l))
    BY <1>3, <1>7, <1>8
  <1>13. Covered(q, p - a)'
    BY <1>1, <1>4, <1>11, <1>12 DEF Covered, i, l
  <1> QED
    BY <1>2, <1>3, <1>4, <1>5, <1>10, <1>11, <1>13

(* The lines of what was read are lines that were said, in their order.     *)
LEMMA LinesAreSaid ==
  ASSUME TypeInv, QuietInv, NEW b \in Seq(Element), Len(b) <= Len(Stream),
         \A j \in 1..Len(b) : b[j] = Stream[j]
  PROVE  \E of \in [1..Cardinality(LineEnds(b)) -> 1..said] :
            /\ \A k \in 1..Cardinality(LineEnds(b)) :
                  /\ Decode(Lines(b)[k]) = Meaning(script[of[k]])
                  /\ \E j \in LineEnds(b) : of[k] = Stream[j].of
            /\ \A k, m \in 1..Cardinality(LineEnds(b)) : k < m => of[k] < of[m]
  <1> DEFINE C == Cardinality(LineEnds(b))
  <1>1. PICK e : /\ InOrder(e, b)
                 /\ Lines(b) = [k \in 1..C |-> Codes(SubSeq(b, e[k - 1] + 2, e[k] - 1))]
    BY LinesAreBetween
  <1>2. PICK n \in Nat, g \in Nat : n = Len(Stream) /\ g = Len(b) /\ g <= n
    BY StreamType
  <1>3. ASSUME NEW k \in 1..C
        PROVE  e[k] \in LineEnds(b) /\ e[k] \in 1..Len(Stream)
               /\ \E p \in 0..Len(Stream) : Covered(e[k], p)
    <2>1. e[k] \in LineEnds(b)
      BY <1>1 DEF InOrder
    <2>2. e[k] \in 1..g - 1
      BY <1>2, <2>1 DEF LineEnds
    <2>3. e[k] \in 1..Len(Stream)
      BY <1>2, <2>2
    <2> QED
      BY <2>1, <2>3 DEF QuietInv
  <1>4. ASSUME NEW k \in 1..C, NEW p \in 0..Len(Stream), Covered(e[k], p)
        PROVE  /\ Stream[e[k]].of \in 1..said
               /\ Decode(Lines(b)[k]) = Meaning(script[Stream[e[k]].of])
               /\ \A q \in LineEnds(b) : ~(p <= q /\ q < e[k])
    <2> DEFINE l == script[Stream[e[k]].of]
    <2>1. /\ Stream[e[k]].of \in 1..said /\ Sayable(l)
          /\ (p # 0 => p - 1 \in LineEnds(b))
          /\ \A q \in LineEnds(b) : ~(p <= q /\ q < e[k])
          /\ Codes(SubSeq(b, p + 1, e[k] - 1)) = LineOf(l)
      BY <1>3, <1>4, EndIsOfLine
    <2>2. e[k] > p /\ p \in Nat
      BY <1>2, <1>4 DEF Covered
    <2>3. e[k - 1] = p - 1
      BY <1>1, <2>1, <2>2, EndBefore
    <2>4. e[k - 1] + 2 = p + 1
      BY <2>2, <2>3
    <2>5. Lines(b)[k] = LineOf(l)
      BY <1>1, <2>1, <2>4
    <2> QED
      BY <2>1, <2>5, LineIsDecoded
  <1> DEFINE of == [k \in 1..C |-> Stream[e[k]].of]
  <1>5. of \in [1..C -> 1..said]
    BY <1>3, <1>4
  <1>6. \A k \in 1..C : /\ of[k] = Stream[e[k]].of
                        /\ Decode(Lines(b)[k]) = Meaning(script[of[k]])
                        /\ \E j \in LineEnds(b) : of[k] = Stream[j].of
    BY <1>3, <1>4
  <1>7. ASSUME NEW k \in 1..C, NEW m \in 1..C, k < m PROVE Stream[e[k]].of < Stream[e[m]].of
    <2>1. PICK p \in 0..Len(Stream) : Covered(e[m], p)
      BY <1>3
    <2>2. e[k] \in LineEnds(b) /\ ~(p <= e[k] /\ e[k] < e[m]) /\ e[k] < e[m]
      BY <1>1, <1>3, <1>4, <1>7, <2>1, EndsIncrease
    <2>3. e[k] \in 1..p
      <3>1. e[k] \in 1..Len(Stream) /\ p \in 0..Len(Stream)
        BY <1>3
      <3> QED
        BY <1>2, <2>2, <3>1
    <2> QED
      BY <1>3, <2>1, <2>3, TagsIncrease
  <1> HIDE DEF of
  <1> QED
    BY <1>5, <1>6, <1>7

LEMMA QuietRead ==
  ASSUME TypeInv, QuietInv, TypeInv', NEW n \in 1..Len(pipe), Read(n)
  PROVE  QuietInv'
  <1>1. PICK b \in Seq(Element), a \in Nat : IsRead(n, b, a)
    BY StreamIsRead
  <1>2. /\ handled' = handled \o Events(Lines(b)) /\ UNCHANGED <<script, said, unsound>>
        /\ Len(b) <= Len(Stream) /\ \A j \in 1..Len(b) : b[j] = Stream[j]
        /\ \A j \in LineEnds(b) : j <= a - 1
    BY <1>1 DEF IsRead
  <1> DEFINE C == Cardinality(LineEnds(b))
             ev == Events(Lines(b))
             h == Len(handled)
  <1>3. PICK of \in [1..C -> 1..said] :
            /\ \A k \in 1..C : /\ Decode(Lines(b)[k]) = Meaning(script[of[k]])
                               /\ \E j \in LineEnds(b) : of[k] = Stream[j].of
            /\ \A k, m \in 1..C : k < m => of[k] < of[m]
    BY <1>2, LinesAreSaid
  <1>4. C \in Nat /\ DOMAIN Lines(b) = 1..C /\ LineEnds(b) \subseteq 1..Len(b) - 1
        /\ said \in Nat /\ Len(b) \in Nat /\ Len(Stream) \in Nat
    <2>1. C \in Nat /\ DOMAIN Lines(b) = 1..C
      BY LinesAreBetween, EndsAreInside
    <2>2. LineEnds(b) \subseteq 1..Len(b) - 1 /\ Len(b) \in Nat
      BY EndsAreInside
    <2> QED
      BY <2>1, <2>2, StreamType
  <1>5. PICK f \in [1..Len(ev) -> 1..C] :
            /\ \A x \in 1..Len(ev) : ev[x] \in Decode(Lines(b)[f[x]])
            /\ \A x, y \in 1..Len(ev) : x < y => f[x] < f[y]
    BY <1>4, EventsInOrder
  <1>6. /\ h \in Nat /\ Len(ev) \in Nat /\ Len(handled') = h + Len(ev)
        /\ \A j \in 1..h : handled'[j] = handled[j]
        /\ \A j \in 1..Len(ev) : handled'[h + j] = ev[j]
    BY <1>2, MoreIsHandled
  <1>7. PICK at : HandledFrom(at)
    BY DEF QuietInv
  <1> HIDE DEF C, ev, h
  <1>8. ASSUME NEW k \in 1..C
        PROVE  /\ of[k] \in 1..said
               /\ \A x \in 1..h : at[x] < of[k]
               /\ \A q \in 1..Len(Stream') : of[k] < Stream'[q].of
    <2>1. PICK j \in LineEnds(b) : of[k] = Stream[j].of
      BY <1>3
    <2>2. j \in 1..Len(Stream) /\ j <= a - 1
      BY <1>2, <1>4, <2>1
    <2>3. ASSUME NEW q \in 1..Len(Stream') PROVE of[k] < Stream'[q].of
      <3>1. /\ a + q \in 1..Len(Stream) /\ Stream'[q] = Stream[a + q]
            /\ \E p \in 0..Len(Stream) : Covered(a + q, p) /\ a <= p
        BY <1>1, CoverIsLeft
      <3>2. PICK p \in 0..Len(Stream) : Covered(a + q, p) /\ a <= p
        BY <3>1
      <3>3. j \in 1..p
        BY <1>4, <2>2, <3>2
      <3> QED
        BY <2>1, <3>1, <3>2, <3>3, TagsIncrease
    <2> QED
      BY <1>3, <1>7, <2>1, <2>2, <2>3 DEF HandledFrom, h
  <1>9. PICK to : to = [x \in 1..h + Len(ev) |-> IF x <= h THEN at[x] ELSE of[f[x - h]]]
    OBVIOUS
  <1>10. ASSUME NEW x \in 1..h + Len(ev)
        PROVE  \/ x \in 1..h /\ to[x] = at[x] /\ handled'[x] = handled[x]
               \/ /\ x - h \in 1..Len(ev) /\ f[x - h] \in 1..C
                  /\ to[x] = of[f[x - h]] /\ handled'[x] = ev[x - h]
    <2>1. CASE x <= h
      BY <1>6, <1>9, <2>1
    <2>2. CASE ~(x <= h)
      <3>1. PICK y \in 1..Len(ev) : y = x - h /\ x = h + y
        BY <1>6, <2>2
      <3>2. to[x] = of[f[y]] /\ handled'[x] = ev[y] /\ f[y] \in 1..C
        BY <1>5, <1>6, <1>9, <2>2, <3>1
      <3> QED
        BY <3>1, <3>2
    <2> QED
      BY <2>1, <2>2
  <1>11. to = [x \in 1..h + Len(ev) |-> to[x]]
    BY <1>9
  <1>12. /\ at \in [1..h -> 1..said]
         /\ \A k \in 1..h : handled[k] \in Meaning(script[at[k]])
         /\ \A k, m \in 1..h : k < m => at[k] < at[m]
         /\ \A k \in 1..h : \A q \in 1..Len(Stream) : at[k] < Stream[q].of
    BY <1>7 DEF HandledFrom, h
  <1>13. ASSUME NEW x \in 1..h + Len(ev)
         PROVE  /\ to[x] \in 1..said /\ handled'[x] \in Meaning(script[to[x]])
                /\ \A q \in 1..Len(Stream') : to[x] < Stream'[q].of
    <2>1. CASE x \in 1..h /\ to[x] = at[x] /\ handled'[x] = handled[x]
      <3>1. ASSUME NEW q \in 1..Len(Stream') PROVE at[x] < Stream'[q].of
        <4>1. a + q \in 1..Len(Stream) /\ Stream'[q] = Stream[a + q]
          BY <1>1, CoverIsLeft
        <4> QED
          BY <1>12, <2>1, <4>1
      <3> QED
        BY <1>12, <2>1, <3>1
    <2>2. CASE /\ x - h \in 1..Len(ev) /\ f[x - h] \in 1..C
               /\ to[x] = of[f[x - h]] /\ handled'[x] = ev[x - h]
      BY <1>3, <1>5, <1>8, <2>2
    <2> QED
      BY <1>10, <2>1, <2>2
  <1>14. ASSUME NEW x \in 1..h + Len(ev), NEW y \in 1..h + Len(ev), x < y PROVE to[x] < to[y]
    <2>1. CASE y \in 1..h /\ to[y] = at[y]
      <3>1. x \in 1..h /\ ~(x - h \in 1..Len(ev))
        BY <1>6, <1>14, <2>1
      <3> QED
        BY <1>10, <1>12, <1>14, <2>1, <3>1
    <2>2. CASE y - h \in 1..Len(ev) /\ f[y - h] \in 1..C /\ to[y] = of[f[y - h]]
      <3>1. CASE x \in 1..h /\ to[x] = at[x]
        BY <1>8, <2>2, <3>1
      <3>2. CASE x - h \in 1..Len(ev) /\ f[x - h] \in 1..C /\ to[x] = of[f[x - h]]
        <4>1. x - h < y - h
          BY <1>6, <1>14
        <4>2. f[x - h] < f[y - h]
          BY <1>5, <2>2, <3>2, <4>1
        <4> QED
          BY <1>3, <2>2, <3>2, <4>2
      <3> QED
        BY <1>10, <3>1, <3>2
    <2> QED
      BY <1>10, <2>1, <2>2
  <1>15. HandledFrom(to)'
    BY <1>2, <1>6, <1>11, <1>13, <1>14 DEF HandledFrom
  <1>16. ASSUME NEW q \in 1..Len(Stream'), NEW r \in 1..Len(Stream'), q <= r
         PROVE  Stream'[q].of <= Stream'[r].of
    <2>1. /\ a + q \in 1..Len(Stream) /\ Stream'[q] = Stream[a + q]
          /\ a + r \in 1..Len(Stream) /\ Stream'[r] = Stream[a + r]
      BY <1>1, CoverIsLeft
    <2>2. Len(Stream') \in Nat
      BY <1>1, <1>4 DEF IsRead
    <2>3. a + q <= a + r
      BY <1>16, <2>2
    <2> QED
      BY <2>1, <2>3 DEF QuietInv
  <1>17. \A q \in 1..Len(Stream') : \E p \in 0..Len(Stream') : Covered(q, p)'
    BY <1>1, CoverIsLeft
  <1> QED
    BY <1>2, <1>15, <1>16, <1>17 DEF QuietInv

LEMMA QuietStep ==
  ASSUME TypeInv, SoundInv, troubles = 0 => QuietInv, TypeInv', [Next]_vars
  PROVE  troubles' = 0 => QuietInv'
  <1>1. CASE Say
    BY <1>1, QuietSay DEF Say
  <1>2. CASE \E n \in 1..Len(pipe) : Read(n)
    <2>1. PICK n \in 1..Len(pipe) : Read(n)
      BY <1>2
    <2>2. troubles' = troubles
      BY <2>1 DEF Read
    <2> QED
      BY <2>1, <2>2, QuietRead
  <1>3. CASE Trouble
    <2>1. troubles' = troubles + 1 /\ troubles \in Nat
      BY <1>3, Assumed DEF Trouble, TypeInv
    <2>2. troubles' # 0
      BY <2>1
    <2> QED
      BY <2>2
  <1>4. CASE CallAny \/ UNCHANGED vars
    <2>1. UNCHANGED <<script, said, pipe, read_buffer, handled, unsound, troubles>>
      BY <1>4 DEF CallAny, Call, vars
    <2> QED
      BY <2>1 DEF QuietInv, Covered, HandledFrom, Stream
  <1> QED
    BY <1>1, <1>2, <1>3, <1>4 DEF Next, Lose, Replace, NewSession

(* As long as nothing happens to the stream, every event is what a line of  *)
(* the panel means, no line is handled twice and none before an earlier     *)
(* one, whatever read() cuts (connection.py:83-101).                        *)
THEOREM QuietLinesAreHandledOnce == Spec => [](troubles = 0 => HandledWasSaid)
  <1>1. TypeInv /\ QuietInv => HandledWasSaid
    <2> SUFFICES ASSUME TypeInv, QuietInv PROVE HandledWasSaid
      OBVIOUS
    <2>1. PICK at : HandledFrom(at)
      BY DEF QuietInv
    <2>2. Known \subseteq 1..Len(handled)
      BY DEF Known, TypeInv
    <2> DEFINE to == [k \in Known |-> at[k]]
    <2>3. to \in [Known -> 1..said] /\ \A k \in Known : to[k] = at[k]
      BY <2>1, <2>2 DEF HandledFrom
    <2> HIDE DEF to
    <2>4. /\ \A k \in Known : handled[k] \in Meaning(script[to[k]])
          /\ \A k, m \in Known : k < m => to[k] < to[m]
      BY <2>1, <2>2, <2>3 DEF HandledFrom
    <2> QED
      BY <2>3, <2>4 DEF HandledWasSaid
  <1> DEFINE Q == troubles = 0 => QuietInv
  <1>2. Init /\ TypeInv => Q
    BY QuietStart
  <1>3. TypeInv /\ SoundInv /\ Q /\ TypeInv' /\ [Next]_vars => Q'
    BY QuietStep
  <1>4. TypeInv /\ Q => (troubles = 0 => HandledWasSaid)
    BY <1>1
  <1> QED
    BY <1>2, <1>3, <1>4, TypeAlways, SoundStart, SoundStep, PTL DEF Spec

-----------------------------------------------------------------------------
(* The calls. First the layouts: a message is as long as its length says    *)
(* when every field has its width.                                         *)
FieldKinds == {Number(1), Number(2), Number(3), Number(4), Number(5), Number(6), NumberOf(1), NumberOf(2),
              NumberOf(3), House, Fixed(1), Fixed(13), Text(16)}

Width(f, i) == IF i <= Len(f) THEN f[i].width ELSE 0
Widths(f) == Width(f, 1) + Width(f, 2) + Width(f, 3) + Width(f, 4) + Width(f, 5) + Width(f, 6)

LEMMA FieldWidth ==
  /\ House.width = 3
  /\ \A w : Number(w).width = w /\ NumberOf(w).width = w /\ Fixed(w).width = w /\ Text(w).width = w
  BY DEF Number, NumberOf, House, Fixed, Text

LEMMA FieldsAreKnown ==
  ASSUME NEW e \in Encoders
  PROVE  \A i \in DOMAIN e.fields : e.fields[i] \in FieldKinds
  BY SMTT(60) DEF Encoders, EncodersToKf, DisplayFields, EncodersFromLw, Layout, FieldKinds

LEMMA WidthsOf ==
  /\ Widths(<<>>) = 0
  /\ \A a : a.width \in Nat => Widths(<<a>>) = a.width
  /\ \A a, b : a.width \in Nat /\ b.width \in Nat => Widths(<<a, b>>) = a.width + b.width
  /\ \A a, b, c : a.width \in Nat /\ b.width \in Nat /\ c.width \in Nat
        => Widths(<<a, b, c>>) = a.width + b.width + c.width
  /\ \A a, b, c, d : a.width \in Nat /\ b.width \in Nat /\ c.width \in Nat /\ d.width \in Nat
        => Widths(<<a, b, c, d>>) = a.width + b.width + c.width + d.width
  /\ \A a, b, c, d, e : a.width \in Nat /\ b.width \in Nat /\ c.width \in Nat /\ d.width \in Nat /\ e.width \in Nat
        => Widths(<<a, b, c, d, e>>) = a.width + b.width + c.width + d.width + e.width
  /\ \A a, b, c, d, e, f : a.width \in Nat /\ b.width \in Nat /\ c.width \in Nat /\ d.width \in Nat
                            /\ e.width \in Nat /\ f.width \in Nat
        => Widths(<<a, b, c, d, e, f>>) = a.width + b.width + c.width + d.width + e.width + f.width
  BY DEF Widths, Width

LEMMA LayoutWidths ==
  /\ Widths(<<>>) = 0
  /\ Widths(<<Number(1), NumberOf(1), Number(6)>>) = 8
  /\ Widths(<<NumberOf(3)>>) = 3
  /\ Widths(<<NumberOf(3), Number(5)>>) = 8
  /\ Widths(<<NumberOf(2)>>) = 2
  /\ Widths(<<NumberOf(2), Number(5)>>) = 7
  /\ Widths(<<NumberOf(1), Number(1), Number(1), Number(5), Text(16), Text(16)>>) = 40
  /\ Widths(<<NumberOf(2), Fixed(1)>>) = 3
  /\ Widths(<<House, Number(2), Number(2), Number(4)>>) = 11
  /\ Widths(<<House>>) = 3
  /\ Widths(<<Number(1)>>) = 1
  /\ Widths(<<Number(2), NumberOf(3)>>) = 5
  /\ Widths(<<Number(3)>>) = 3
  /\ Widths(<<Fixed(13)>>) = 13
  /\ Widths(<<NumberOf(2), Number(2), Number(1)>>) = 5
  /\ Widths(<<Number(6)>>) = 6
  /\ Widths(<<Number(3), NumberOf(1), Number(6)>>) = 10
  <1>1. Widths(<<>>) = 0
    BY FieldWidth, WidthsOf
  <1>2. /\ Widths(<<NumberOf(3)>>) = 3
        /\ Widths(<<NumberOf(2)>>) = 2
        /\ Widths(<<House>>) = 3
        /\ Widths(<<Number(1)>>) = 1
        /\ Widths(<<Number(3)>>) = 3
        /\ Widths(<<Fixed(13)>>) = 13
        /\ Widths(<<Number(6)>>) = 6
    BY FieldWidth, WidthsOf
  <1>3. /\ Widths(<<NumberOf(3), Number(5)>>) = 8
        /\ Widths(<<NumberOf(2), Number(5)>>) = 7
        /\ Widths(<<NumberOf(2), Fixed(1)>>) = 3
        /\ Widths(<<Number(2), NumberOf(3)>>) = 5
    BY FieldWidth, WidthsOf
  <1>4. /\ Widths(<<Number(1), NumberOf(1), Number(6)>>) = 8
        /\ Widths(<<NumberOf(2), Number(2), Number(1)>>) = 5
        /\ Widths(<<Number(3), NumberOf(1), Number(6)>>) = 10
    BY FieldWidth, WidthsOf
  <1>5. Widths(<<House, Number(2), Number(2), Number(4)>>) = 11
    BY FieldWidth, WidthsOf
  <1>6. Widths(<<NumberOf(1), Number(1), Number(1), Number(5), Text(16), Text(16)>>) = 40
    BY FieldWidth, WidthsOf
  <1> QED
    BY <1>1, <1>2, <1>3, <1>4, <1>5, <1>6, Zenon

(* The length that a layout states counts its two digits, the command, the  *)
(* fields and 00.                                                          *)
Balanced(e) == e.length = 4 + Len(e.cmd) + Widths(e.fields)

LEMMA LayoutsAreBalanced ==
  ASSUME NEW e \in Encoders
  PROVE  Balanced(e)
  <1>1. ASSUME NEW f, NEW w \in Nat, Widths(f) = w
        PROVE  /\ \A a : Balanced(Layout(5 + w, <<a>>, f))
               /\ \A a, b : Balanced(Layout(6 + w, <<a, b>>, f))
    <2>1. \A a, b : Len(<<a>>) = 1 /\ Len(<<a, b>>) = 2
      OBVIOUS
    <2> QED
      BY <1>1, <2>1 DEF Balanced, Layout
  <1>2. /\ \A a : Balanced(Layout(13, <<a>>, <<Number(1), NumberOf(1), Number(6)>>))
        /\ \A a, b : Balanced(Layout(6, <<a, b>>, <<>>))
        /\ \A a, b : Balanced(Layout(9, <<a, b>>, <<NumberOf(3)>>))
        /\ \A a, b : Balanced(Layout(14, <<a, b>>, <<NumberOf(3), Number(5)>>))
        /\ \A a, b : Balanced(Layout(8, <<a, b>>, <<NumberOf(2)>>))
        /\ \A a, b : Balanced(Layout(13, <<a, b>>, <<NumberOf(2), Number(5)>>))
        /\ \A a, b : Balanced(Layout(46, <<a, b>>, <<NumberOf(1), Number(1), Number(1), Number(5), Text(16), Text(16)>>))
        /\ \A a, b : Balanced(Layout(9, <<a, b>>, <<NumberOf(2), Fixed(1)>>))
        /\ \A a, b : Balanced(Layout(17, <<a, b>>, <<House, Number(2), Number(2), Number(4)>>))
        /\ \A a, b : Balanced(Layout(9, <<a, b>>, <<House>>))
        /\ \A a, b : Balanced(Layout(7, <<a, b>>, <<Number(1)>>))
        /\ \A a, b : Balanced(Layout(11, <<a, b>>, <<Number(2), NumberOf(3)>>))
        /\ \A a, b : Balanced(Layout(9, <<a, b>>, <<Number(3)>>))
        /\ \A a, b : Balanced(Layout(19, <<a, b>>, <<Fixed(13)>>))
        /\ \A a, b : Balanced(Layout(11, <<a, b>>, <<NumberOf(2), Number(2), Number(1)>>))
        /\ \A a, b : Balanced(Layout(12, <<a, b>>, <<Number(6)>>))
        /\ \A a, b : Balanced(Layout(16, <<a, b>>, <<Number(3), NumberOf(1), Number(6)>>))
    BY <1>1, LayoutWidths
  <1> QED
    BY <1>2, ZenonT(60) DEF Encoders, EncodersToKf, DisplayFields, EncodersFromLw

LEMMA ShortLayouts ==
  ASSUME NEW e \in Encoders
  PROVE  e.length \in 0..255
  <1>1. e.length \in {6, 7, 8, 9, 11, 12, 13, 14, 16, 17, 19, 46}
    BY SMTT(60) DEF Encoders, EncodersToKf, DisplayFields, EncodersFromLw, Layout
  <1> QED
    BY <1>1

-----------------------------------------------------------------------------
(* Letters and digits.                                                     *)
LEMMA Letters ==
  \A i \in 1..26 : Ord(Alphabet[i]) = 96 + i
  <1>1. \A i, j \in 1..26 : Alphabet[i] = Alphabet[j] => i = j
    BY DEF Alphabet
  <1>2. DOMAIN Alphabet = 1..26
    BY DEF Alphabet
  <1> QED
    BY <1>1, <1>2 DEF Ord

LEMMA CommandLetters ==
  ASSUME NEW e \in Encoders, NEW i \in DOMAIN e.cmd
  PROVE  \E j \in 1..26 : e.cmd[i] = Alphabet[j]
  <1>1. e.cmd[i] \in {"a", "c", "d", "f", "k", "l", "m", "n", "p", "r", "s", "t", "u", "v", "w", "x", "z", "b"}
    BY SMTT(60) DEF Encoders, EncodersToKf, DisplayFields, EncodersFromLw, Layout
  <1> QED
    BY <1>1 DEF Alphabet

(* A number below 10 ^ 9 has from one to nine digits, and the value of the  *)
(* first of them is what is left when the others are divided away.          *)
LEMMA Powers ==
  /\ 10 ^ 0 = 1
  /\ \A d \in 0..9 : 10 ^ d \in Nat
  /\ \A d \in 0..8 : 10 ^ (d + 1) = 10 * 10 ^ d
  /\ \A c, d \in 0..9 : c <= d => 10 ^ c <= 10 ^ d
  OBVIOUS

LEMMA TensOf ==
  ASSUME NEW n \in Nat, NEW d \in 0..9
  PROVE  /\ n < 10 ^ d => n \div 10 ^ d = 0
         /\ n \div 10 ^ d \in Nat /\ (n \div 10 ^ d) % 10 \in 0..9
         /\ d < 9 => (n \div 10 ^ (d + 1)) * 10 ^ (d + 1) + ((n \div 10 ^ d) % 10) * 10 ^ d
                       = (n \div 10 ^ d) * 10 ^ d
  <1>1. ASSUME NEW m \in Nat PROVE m % 10 \in 0..9 /\ m \div 10 \in Nat /\ m = 10 * (m \div 10) + (m % 10)
    OBVIOUS
  <1>2. CASE d = 0
    <2>1. n < 10 ^ 0 => n \div 10 ^ 0 = 0
      OBVIOUS
    <2>2. n \div 10 ^ 0 \in Nat /\ n \div 10 ^ 1 = (n \div 10 ^ 0) \div 10
      OBVIOUS
    <2> QED
      BY <1>1, <1>2, <2>1, <2>2
  <1>3. CASE d = 1
    <2>1. n < 10 ^ 1 => n \div 10 ^ 1 = 0
      OBVIOUS
    <2>2. n \div 10 ^ 1 \in Nat /\ n \div 10 ^ 2 = (n \div 10 ^ 1) \div 10
      OBVIOUS
    <2> QED
      BY <1>1, <1>3, <2>1, <2>2
  <1>4. CASE d = 2
    <2>1. n < 10 ^ 2 => n \div 10 ^ 2 = 0
      OBVIOUS
    <2>2. n \div 10 ^ 2 \in Nat /\ n \div 10 ^ 3 = (n \div 10 ^ 2) \div 10
      OBVIOUS
    <2> QED
      BY <1>1, <1>4, <2>1, <2>2
  <1>5. CASE d = 3
    <2>1. n < 10 ^ 3 => n \div 10 ^ 3 = 0
      OBVIOUS
    <2>2. n \div 10 ^ 3 \in Nat /\ n \div 10 ^ 4 = (n \div 10 ^ 3) \div 10
      OBVIOUS
    <2> QED
      BY <1>1, <1>5, <2>1, <2>2
  <1>6. CASE d = 4
    <2>1. n < 10 ^ 4 => n \div 10 ^ 4 = 0
      OBVIOUS
    <2>2. n \div 10 ^ 4 \in Nat /\ n \div 10 ^ 5 = (n \div 10 ^ 4) \div 10
      OBVIOUS
    <2> QED
      BY <1>1, <1>6, <2>1, <2>2
  <1>7. CASE d = 5
    <2>1. n < 10 ^ 5 => n \div 10 ^ 5 = 0
      OBVIOUS
    <2>2. n \div 10 ^ 5 \in Nat /\ n \div 10 ^ 6 = (n \div 10 ^ 5) \div 10
      OBVIOUS
    <2> QED
      BY <1>1, <1>7, <2>1, <2>2
  <1>8. CASE d = 6
    <2>1. n < 10 ^ 6 => n \div 10 ^ 6 = 0
      OBVIOUS
    <2>2. n \div 10 ^ 6 \in Nat /\ n \div 10 ^ 7 = (n \div 10 ^ 6) \div 10
      OBVIOUS
    <2> QED
      BY <1>1, <1>8, <2>1, <2>2
  <1>9. CASE d = 7
    <2>1. n < 10 ^ 7 => n \div 10 ^ 7 = 0
      OBVIOUS
    <2>2. n \div 10 ^ 7 \in Nat /\ n \div 10 ^ 8 = (n \div 10 ^ 7) \div 10
      OBVIOUS
    <2> QED
      BY <1>1, <1>9, <2>1, <2>2
  <1>10. CASE d = 8
    <2>1. n < 10 ^ 8 => n \div 10 ^ 8 = 0
      OBVIOUS
    <2>2. n \div 10 ^ 8 \in Nat /\ n \div 10 ^ 9 = (n \div 10 ^ 8) \div 10
      OBVIOUS
    <2> QED
      BY <1>1, <1>10, <2>1, <2>2
  <1>11. CASE d = 9
    <2>1. n < 10 ^ 9 => n \div 10 ^ 9 = 0
      OBVIOUS
    <2>2. n \div 10 ^ 9 \in Nat
      OBVIOUS
    <2> QED
      BY <1>1, <1>11, <2>1, <2>2
  <1> QED
    BY <1>2, <1>3, <1>4, <1>5, <1>6, <1>7, <1>8, <1>9, <1>10, <1>11

(* Sum is what any function that adds up the sequence comes to.             *)
LEMMA SumBy ==
  ASSUME NEW s, NEW k \in Nat, Len(s) = k, NEW g, g[0] = 0, \A i \in 1..k : g[i] = g[i - 1] + s[i]
  PROVE  Sum(s) = g[k]
  <1> DEFINE f == CHOOSE x : Totals(x, s, Len(s))
             T == {n \in Nat : n <= k => f[n] = g[n]}
  <1>1. Sum(s) = f[k]
    BY DEF Sum, Totals
  <1>2. Totals(f, s, k)
    BY TotalsExist
  <1> HIDE DEF f
  <1>3. \A i \in 0..k : f[i] = IF i = 0 THEN 0 ELSE f[i - 1] + s[i]
    BY <1>2 DEF Totals
  <1>4. 0 \in T
    BY <1>3
  <1>5. ASSUME NEW n \in T PROVE n + 1 \in T
    <2>1. CASE n + 1 <= k
      <3>1. n \in Nat /\ n + 1 \in 0..k /\ n + 1 \in 1..k /\ n + 1 # 0 /\ n + 1 - 1 = n
        BY <2>1
      <3>2. f[n + 1] = f[n] + s[n + 1] /\ f[n] = g[n] /\ g[n + 1] = g[n] + s[n + 1]
        BY <1>3, <2>1, <3>1
      <3> QED
        BY <3>1, <3>2
    <2> QED
      BY <2>1
  <1>6. T = Nat
    <2> HIDE DEF T
    <2>1. T \subseteq Nat
      BY DEF T
    <2> QED
      BY <1>4, <1>5, <2>1, SetInduction
  <1> QED
    BY <1>1, <1>6

Digit(n, d) == 48 + ((n \div 10 ^ d) % 10)

LEMMA DigitsOf ==
  ASSUME NEW n \in Nat, n < 10 ^ 9
  PROVE  \E w \in 1..9 : /\ Digits(n) = [i \in 1..w |-> Digit(n, w - i)]
                         /\ n < 10 ^ w /\ (w = 1 \/ n >= 10 ^ (w - 1))
  <1> DEFINE OK(w) == n < 10 ^ w /\ (w = 1 \/ n >= 10 ^ (w - 1))
             width == CHOOSE w \in 1..9 : OK(w)
  <1>1. \E w \in 1..9 : OK(w)
    <2>1. CASE n < 10 ^ 1
      BY <2>1
    <2>2. CASE 10 ^ 1 <= n /\ n < 10 ^ 2
      BY <2>2
    <2>3. CASE 10 ^ 2 <= n /\ n < 10 ^ 3
      BY <2>3
    <2>4. CASE 10 ^ 3 <= n /\ n < 10 ^ 4
      BY <2>4
    <2>5. CASE 10 ^ 4 <= n /\ n < 10 ^ 5
      BY <2>5
    <2>6. CASE 10 ^ 5 <= n /\ n < 10 ^ 6
      BY <2>6
    <2>7. CASE 10 ^ 6 <= n /\ n < 10 ^ 7
      BY <2>7
    <2>8. CASE 10 ^ 7 <= n /\ n < 10 ^ 8
      BY <2>8
    <2>9. CASE 10 ^ 8 <= n /\ n < 10 ^ 9
      BY <2>9
    <2> QED
      BY <2>1, <2>2, <2>3, <2>4, <2>5, <2>6, <2>7, <2>8, <2>9
  <1>2. Digits(n) = [i \in 1..width |-> Digit(n, width - i)]
    BY DEF Digits, Digit
  <1>3. width \in 1..9 /\ OK(width)
    <2> HIDE DEF OK
    <2> QED
      BY <1>1
  <1> QED
    BY <1>2, <1>3

LEMMA ZeroPaddedType ==
  ASSUME NEW S, 48 \in S, NEW s \in Seq(S), NEW w \in Int
  PROVE  /\ ZeroPadded(s, w) \in Seq(S) /\ Len(ZeroPadded(s, w)) \in Nat
         /\ Len(ZeroPadded(s, w)) = IF Len(s) <= w THEN w ELSE Len(s)
         /\ Len(s) <= w => \A i \in 1..w : ZeroPadded(s, w)[i] = IF i <= w - Len(s) THEN 48 ELSE s[i - (w - Len(s))]
  <1>0. PICK k \in Nat : k = Len(s)
    OBVIOUS
  <1> DEFINE z == [i \in 1..w - k |-> 48]
  <1>1. z \in Seq(S) /\ Len(z) = IF k <= w THEN w - k ELSE 0
    <2>1. CASE k <= w
      <3>1. PICK d \in Nat : d = w - k
        BY <2>1
      <3>2. [i \in 1..d |-> 48] \in Seq(S) /\ Len([i \in 1..d |-> 48]) = d
        OBVIOUS
      <3> QED
        BY <2>1, <3>1, <3>2
    <2>2. CASE ~(k <= w)
      <3>1. 1..w - k = 1..0
        BY <2>2
      <3>2. [i \in 1..0 |-> 48] \in Seq(S) /\ Len([i \in 1..0 |-> 48]) = 0
        OBVIOUS
      <3> QED
        BY <2>2, <3>1, <3>2
    <2> QED
      BY <2>1, <2>2
  <1>2. ZeroPadded(s, w) = z \o s
    BY <1>0 DEF ZeroPadded
  <1>3. \A i \in 1..w - k : z[i] = 48
    OBVIOUS
  <1> HIDE DEF z
  <1>4. /\ z \o s \in Seq(S) /\ Len(z \o s) = Len(z) + k
        /\ \A i \in 1..Len(z) + k : (z \o s)[i] = IF i <= Len(z) THEN z[i] ELSE s[i - Len(z)]
    BY <1>0, <1>1, StreamIs
  <1>5. ASSUME k <= w, NEW i \in 1..w
        PROVE  (z \o s)[i] = IF i <= w - k THEN 48 ELSE s[i - (w - k)]
    <2>1. Len(z) = w - k /\ i \in 1..Len(z) + k
      BY <1>1, <1>5
    <2>2. CASE i <= w - k
      BY <1>3, <1>4, <2>1, <2>2
    <2>3. CASE ~(i <= w - k)
      BY <1>4, <2>1, <2>3
    <2> QED
      BY <2>2, <2>3
  <1> QED
    BY <1>0, <1>1, <1>2, <1>4, <1>5

Numeral == 48..57

LEMMA DigitType ==
  ASSUME NEW n \in Nat, NEW d \in 0..9
  PROVE  /\ Digit(n, d) \in Numeral /\ Digit(n, d) - 48 = (n \div 10 ^ d) % 10
         /\ n < 10 ^ d => Digit(n, d) = 48
  <1> DEFINE x == (n \div 10 ^ d) % 10
  <1>1. x \in 0..9 /\ (n < 10 ^ d => n \div 10 ^ d = 0)
    BY TensOf
  <1>2. 0 % 10 = 0
    OBVIOUS
  <1>3. n < 10 ^ d => x = 0
    BY <1>1, <1>2
  <1>4. Digit(n, d) = 48 + x
    BY DEF Digit
  <1> HIDE DEF x
  <1>5. 48 + x \in Numeral /\ 48 + x - 48 = x /\ (n < 10 ^ d => 48 + x = 48)
    BY <1>1, <1>3 DEF Numeral
  <1> QED
    BY <1>4, <1>5 DEF x

LEMMA DigitsType ==
  ASSUME NEW n \in Nat, n < 10 ^ 9
  PROVE  \E w \in 1..9 : /\ Digits(n) \in Seq(Numeral) /\ Len(Digits(n)) = w
                         /\ \A i \in 1..w : Digits(n)[i] = Digit(n, w - i)
                         /\ n < 10 ^ w /\ (w = 1 \/ n >= 10 ^ (w - 1))
  <1>1. PICK w \in 1..9 : /\ Digits(n) = [i \in 1..w |-> Digit(n, w - i)]
                          /\ n < 10 ^ w /\ (w = 1 \/ n >= 10 ^ (w - 1))
    BY DigitsOf
  <1>2. \A i \in 1..w : Digit(n, w - i) \in Numeral
    <2>1. \A i \in 1..w : w - i \in 0..9
      OBVIOUS
    <2> QED
      BY <2>1, DigitType
  <1>3. Digits(n) \in Seq(Numeral) /\ Len(Digits(n)) = w
    BY <1>1, <1>2
  <1>4. \A i \in 1..w : Digits(n)[i] = Digit(n, w - i)
    BY <1>1
  <1> QED
    BY <1>1, <1>3, <1>4

(* A number of at most k digits fills a field of k, and is read as it was   *)
(* written.                                                                *)
LEMMA DecimalOfDigits ==
  ASSUME NEW n \in Nat, NEW k \in 1..9, n < 10 ^ k,
         NEW s \in Seq(Numeral), Len(s) = k, \A i \in 1..k : s[i] = Digit(n, k - i)
  PROVE  IsNumber(s) /\ Decimal(s) = n
  <1> DEFINE g == [i \in 0..k |-> (n \div 10 ^ (k - i)) * 10 ^ (k - i)]
             v == [i \in 1..k |-> (s[i] - 48) * 10 ^ (k - i)]
  <1>1. DOMAIN s = 1..k /\ IsNumber(s)
    BY DEF IsNumber, Numeral
  <1>2. Decimal(s) = Sum(v)
    BY <1>1 DEF Decimal
  <1>3. k - 0 = k /\ k - k = 0 /\ 10 ^ 0 = 1
    BY Powers
  <1>4. g[0] = 0
    <2>1. 10 ^ k \in Int
      BY Powers
    <2>2. n \div 10 ^ k = 0
      BY TensOf
    <2>3. g[0] = (n \div 10 ^ (k - 0)) * 10 ^ (k - 0)
      OBVIOUS
    <2>4. \A x \in Int : 0 * x = 0
      OBVIOUS
    <2> QED
      BY <1>3, <2>1, <2>2, <2>3, <2>4
  <1>5. g[k] = n
    <2>1. g[k] = (n \div 10 ^ (k - k)) * 10 ^ (k - k)
      OBVIOUS
    <2>2. (n \div 1) * 1 = n
      OBVIOUS
    <2> QED
      BY <1>3, <2>1, <2>2
  <1>6. ASSUME NEW i \in 1..k PROVE g[i] = g[i - 1] + v[i]
    <2>1. PICK d \in 0..8 : d = k - i /\ d + 1 = k - (i - 1) /\ i - 1 \in 0..k /\ i \in 0..k
      OBVIOUS
    <2>2. g[i - 1] = (n \div 10 ^ (d + 1)) * 10 ^ (d + 1) /\ g[i] = (n \div 10 ^ d) * 10 ^ d
      BY <2>1
    <2>3. v[i] = ((n \div 10 ^ d) % 10) * 10 ^ d
      <3>1. s[i] = Digit(n, d) /\ d \in 0..9
        BY <2>1
      <3> QED
        BY <2>1, <3>1, DigitType
    <2>4. (n \div 10 ^ (d + 1)) * 10 ^ (d + 1) + ((n \div 10 ^ d) % 10) * 10 ^ d = (n \div 10 ^ d) * 10 ^ d
      <3>1. d \in 0..9 /\ d < 9
        OBVIOUS
      <3> QED
        BY <3>1, TensOf
    <2> QED
      BY <2>2, <2>3, <2>4
  <1>7. Len(v) = k
    OBVIOUS
  <1> HIDE DEF g, v
  <1>8. Sum(v) = g[k]
    BY <1>4, <1>6, <1>7, SumBy
  <1> QED
    BY <1>1, <1>2, <1>5, <1>8

LEMMA DigitsAreRead ==
  ASSUME NEW n \in Nat, n < 10 ^ 9
  PROVE  Decimal(Digits(n)) = n
  <1>1. PICK w \in 1..9 : /\ Digits(n) \in Seq(Numeral) /\ Len(Digits(n)) = w
                          /\ \A i \in 1..w : Digits(n)[i] = Digit(n, w - i)
                          /\ n < 10 ^ w /\ (w = 1 \/ n >= 10 ^ (w - 1))
    BY DigitsType
  <1> QED
    BY <1>1, DecimalOfDigits

(* A format with a width cuts nothing: a longer number makes a longer field, *)
(* and a minus sign is not read as a digit.                                *)
LEMMA PaddedNumber ==
  ASSUME NEW n \in Nat, n < 10 ^ 9, NEW k \in 1..9
  PROVE  /\ Padded(n, k) \in Seq(Numeral) /\ Len(Padded(n, k)) \in Nat /\ Len(Padded(n, k)) >= k
         /\ n < 10 ^ k => Len(Padded(n, k)) = k
         /\ Len(Padded(n, k)) = k => IsNumber(Padded(n, k)) /\ Decimal(Padded(n, k)) = n
  <1> DEFINE s == Digits(n)
             z == ZeroPadded(s, k)
  <1>1. PICK w \in 1..9 : /\ s \in Seq(Numeral) /\ Len(s) = w
                          /\ \A i \in 1..w : s[i] = Digit(n, w - i)
                          /\ n < 10 ^ w /\ (w = 1 \/ n >= 10 ^ (w - 1))
    BY DigitsType
  <1>2. Padded(n, k) = z
    BY DEF Padded
  <1> HIDE DEF s
  <1>3. /\ z \in Seq(Numeral) /\ Len(z) \in Nat /\ Len(z) = IF w <= k THEN k ELSE w
        /\ w <= k => \A i \in 1..k : z[i] = IF i <= k - w THEN 48 ELSE s[i - (k - w)]
    <2>1. 48 \in Numeral /\ k \in Int
      BY DEF Numeral
    <2> QED
      BY <1>1, <2>1, ZeroPaddedType
  <1> HIDE DEF z
  <1>4. ASSUME n < 10 ^ k PROVE w <= k
    <2> SUFFICES ASSUME ~(w <= k) PROVE FALSE
      OBVIOUS
    <2>1. w # 1 /\ k <= w - 1 /\ w - 1 \in 0..9 /\ k \in 0..9
      OBVIOUS
    <2>2. 10 ^ k <= 10 ^ (w - 1) /\ 10 ^ k \in Nat /\ 10 ^ (w - 1) \in Nat
      BY <2>1, Powers
    <2> QED
      BY <1>1, <1>4, <2>1, <2>2
  <1>5. ASSUME w <= k PROVE IsNumber(z) /\ Decimal(z) = n
    <2>1. w \in 0..9 /\ k \in 0..9
      OBVIOUS
    <2>2. 10 ^ w <= 10 ^ k /\ 10 ^ w \in Nat /\ 10 ^ k \in Nat
      BY <1>5, <2>1, Powers
    <2>3. n < 10 ^ k
      BY <1>1, <2>2
    <2>4. ASSUME NEW i \in 1..k PROVE z[i] = Digit(n, k - i)
      <3>1. CASE i <= k - w
        <4>1. PICK d \in 0..9 : d = k - i /\ w <= d
          BY <3>1
        <4>2. 10 ^ w <= 10 ^ d /\ 10 ^ d \in Nat
          BY <2>1, <4>1, Powers
        <4>3. n < 10 ^ d
          BY <1>1, <2>2, <4>2
        <4>4. Digit(n, d) = 48
          BY <4>3, DigitType
        <4> QED
          BY <1>3, <1>5, <3>1, <4>1, <4>4
      <3>2. CASE ~(i <= k - w)
        <4>1. PICK j \in 1..w : j = i - (k - w) /\ w - j = k - i
          BY <1>5, <3>2
        <4>2. s[j] = Digit(n, k - i)
          BY <1>1, <4>1
        <4> QED
          BY <1>3, <1>5, <3>2, <4>1, <4>2
      <3> QED
        BY <3>1, <3>2
    <2> QED
      BY <1>3, <1>5, <2>3, <2>4, DecimalOfDigits
  <1> QED
    BY <1>2, <1>3, <1>4, <1>5

LEMMA PaddedNegative ==
  ASSUME NEW n \in Int, n < 0, -n < 10 ^ 9, NEW k \in 1..9
  PROVE  /\ Padded(n, k) \in Seq(Numeral \cup {45}) /\ Len(Padded(n, k)) \in Nat
         /\ Len(Padded(n, k)) >= k /\ ~IsNumber(Padded(n, k))
         /\ Padded(n, k)[1] = 45
  <1> DEFINE s == Digits(-n)
             z == ZeroPadded(s, k - 1)
             m == <<45>>
             S == Numeral \cup {45}
  <1>1. -n \in Nat /\ k - 1 \in Int
    OBVIOUS
  <1>2. s \in Seq(Numeral) /\ Len(s) \in 1..9
    BY <1>1, DigitsType
  <1>3. s \in Seq(S)
    BY <1>2, WiderType
  <1>4. Padded(n, k) = m \o z
    BY DEF Padded
  <1> HIDE DEF s
  <1>5. z \in Seq(S) /\ Len(z) \in Nat /\ Len(z) >= k - 1
    <2> HIDE DEF S
    <2>1. 48 \in S
      BY DEF S, Numeral
    <2> QED
      BY <1>1, <1>2, <1>3, <2>1, ZeroPaddedType
  <1>6. m \in Seq(S) /\ Len(m) = 1 /\ m[1] = 45
    OBVIOUS
  <1> HIDE DEF z, m, S
  <1>7. /\ m \o z \in Seq(S) /\ Len(m \o z) = Len(m) + Len(z)
        /\ \A i \in 1..Len(m) : (m \o z)[i] = m[i]
    <2>1. m \in Seq(S)
      BY <1>6
    <2>2. z \in Seq(S)
      BY <1>5
    <2> QED
      BY <2>1, <2>2, Joined
  <1>8. (m \o z)[1] = 45 /\ 1 \in DOMAIN (m \o z)
    BY <1>5, <1>6, <1>7
  <1>9. ~IsNumber(m \o z)
    BY <1>8 DEF IsNumber
  <1>10. Len(m \o z) \in Nat /\ Len(m \o z) >= k
    BY <1>5, <1>6, <1>7
  <1> QED
    BY <1>4, <1>7, <1>8, <1>9, <1>10 DEF S

(* What may be asked for in a field; a text has its width.                  *)
Codepoint == {c \in Nat : c <= 1114111}

Askable(f, arg) ==
    /\ f.as = "text" => arg \in Seq(Codepoint) /\ arg = Shown(arg, f.width)
    /\ f.as # "text" => arg \in Int /\ -(10 ^ 8) <= arg /\ arg <= 10 ^ 8
    /\ f.as = "fixed" => arg = 0
    /\ f.as = "house" => arg \in 0..255

(* A field that has its width is read as its argument, if it is read.       *)
IsWritten(f, arg, s) ==
    /\ s \in Seq(Codepoint) /\ Len(s) \in Nat /\ Len(s) >= f.width
    /\ Fits(f, arg) => Len(s) = f.width /\ s \in Seq(Ascii)
    /\ Len(s) = f.width => ReadField(f, s) \subseteq {arg}
    /\ Len(s) = f.width /\ Fits(f, arg) => ReadField(f, s) = {arg}

LEMMA Codepoints ==
  /\ Codepoint \subseteq Int /\ 48..57 \cup 65..70 \subseteq Codepoint
  /\ Ascii \subseteq Int /\ 48..57 \cup 65..70 \subseteq Ascii /\ Ascii \subseteq Codepoint
  BY DEF Codepoint, Ascii

LEMMA NumeralsAreCodes ==
  /\ Numeral \subseteq Ascii /\ Numeral \cup {45} \subseteq Ascii
  /\ Numeral \subseteq Codepoint /\ Numeral \cup {45} \subseteq Codepoint
  BY DEF Numeral, Codepoint, Ascii

LEMMA NumberIsWritten ==
  ASSUME NEW w \in 1..9, NEW arg, Askable(Number(w), arg)
  PROVE  IsWritten(Number(w), arg, Encoded(Number(w), arg))
  <1> DEFINE f == Number(w)
             s == Padded(arg, w)
  <1>1. f.as = "number" /\ f.width = w
    BY DEF Number
  <1> HIDE DEF f
  <1>2. Encoded(f, arg) = s
    BY <1>1 DEF Encoded
  <1>3. ReadField(f, s) = IF IsNumber(s) THEN {Decimal(s) - 0} ELSE {}
    BY <1>1 DEF ReadField
  <1>4. Fits(f, arg) <=> arg \in 0..10 ^ w - 1
    BY <1>1 DEF Fits
  <1>5. arg \in Int /\ arg < 10 ^ 9 /\ -arg < 10 ^ 9 /\ 10 ^ w \in Nat
    <2>1. 10 ^ w \in Nat
      <3>1. w \in 0..9
        OBVIOUS
      <3> QED
        BY <3>1, Powers
    <2> QED
      BY <1>1, <2>1 DEF Askable, f
  <1> HIDE DEF s
  <1>6. CASE arg \in Nat
    <2>1. /\ s \in Seq(Numeral) /\ Len(s) \in Nat /\ Len(s) >= w
          /\ arg < 10 ^ w => Len(s) = w
          /\ Len(s) = w => IsNumber(s) /\ Decimal(s) = arg
      BY <1>5, <1>6, PaddedNumber DEF s
    <2>2. s \in Seq(Codepoint) /\ s \in Seq(Ascii)
      BY <2>1, NumeralsAreCodes, WiderType
    <2>3. Fits(f, arg) => arg < 10 ^ w
      BY <1>4, <1>5
    <2>4. Len(s) = w => ReadField(f, s) = {arg}
      BY <1>3, <1>6, <2>1
    <2> QED
      BY <1>1, <1>2, <2>1, <2>2, <2>3, <2>4 DEF IsWritten, f
  <1>7. CASE arg \notin Nat
    <2>1. s \in Seq(Numeral \cup {45}) /\ Len(s) \in Nat /\ Len(s) >= w /\ ~IsNumber(s)
      <3>1. arg < 0
        BY <1>5, <1>7
      <3> QED
        BY <1>5, <3>1, PaddedNegative DEF s
    <2>2. s \in Seq(Codepoint) /\ s \in Seq(Ascii)
      BY <2>1, NumeralsAreCodes, WiderType
    <2>3. ~Fits(f, arg)
      BY <1>4, <1>5, <1>7
    <2> QED
      BY <1>1, <1>2, <1>3, <2>1, <2>2, <2>3 DEF IsWritten, f
  <1> QED
    BY <1>6, <1>7

LEMMA IndexIsWritten ==
  ASSUME NEW w \in 1..9, NEW arg, Askable(NumberOf(w), arg)
  PROVE  IsWritten(NumberOf(w), arg, Encoded(NumberOf(w), arg))
  <1> DEFINE f == NumberOf(w)
             n == arg + 1
             s == Padded(n, w)
  <1>1. f.as = "index" /\ f.width = w
    BY DEF NumberOf
  <1> HIDE DEF f
  <1>2. Encoded(f, arg) = s
    BY <1>1 DEF Encoded
  <1>3. ReadField(f, s) = IF IsNumber(s) THEN {Decimal(s) - 1} ELSE {}
    BY <1>1 DEF ReadField
  <1>4. Fits(f, arg) <=> n \in 0..10 ^ w - 1
    BY <1>1 DEF Fits
  <1>5. n \in Int /\ n < 10 ^ 9 /\ -n < 10 ^ 9 /\ 10 ^ w \in Nat /\ n - 1 = arg
    <2>1. 10 ^ w \in Nat
      <3>1. w \in 0..9
        OBVIOUS
      <3> QED
        BY <3>1, Powers
    <2> QED
      BY <1>1, <2>1 DEF Askable, f
  <1> HIDE DEF s, n
  <1>6. CASE n \in Nat
    <2>1. /\ s \in Seq(Numeral) /\ Len(s) \in Nat /\ Len(s) >= w
          /\ n < 10 ^ w => Len(s) = w
          /\ Len(s) = w => IsNumber(s) /\ Decimal(s) = n
      BY <1>5, <1>6, PaddedNumber DEF s
    <2>2. s \in Seq(Codepoint) /\ s \in Seq(Ascii)
      BY <2>1, NumeralsAreCodes, WiderType
    <2>3. Fits(f, arg) => n < 10 ^ w
      BY <1>4, <1>5
    <2>4. Len(s) = w => ReadField(f, s) = {arg}
      BY <1>3, <1>5, <2>1
    <2> QED
      BY <1>1, <1>2, <2>1, <2>2, <2>3, <2>4 DEF IsWritten, f
  <1>7. CASE n \notin Nat
    <2>1. s \in Seq(Numeral \cup {45}) /\ Len(s) \in Nat /\ Len(s) >= w /\ ~IsNumber(s)
      <3>1. n < 0
        BY <1>5, <1>7
      <3> QED
        BY <1>5, <3>1, PaddedNegative DEF s
    <2>2. s \in Seq(Codepoint) /\ s \in Seq(Ascii)
      BY <2>1, NumeralsAreCodes, WiderType
    <2>3. ~Fits(f, arg)
      BY <1>4, <1>5, <1>7
    <2> QED
      BY <1>1, <1>2, <1>3, <2>1, <2>2, <2>3 DEF IsWritten, f
  <1> QED
    BY <1>6, <1>7

LEMMA FixedIsWritten ==
  ASSUME NEW w \in Nat, NEW arg, Askable(Fixed(w), arg)
  PROVE  IsWritten(Fixed(w), arg, Encoded(Fixed(w), arg))
  <1>1. Fixed(w).as = "fixed" /\ Fixed(w).width = w
    BY DEF Fixed
  <1>2. Encoded(Fixed(w), arg) = Zeros(w) /\ arg = 0 /\ \A s : ReadField(Fixed(w), s) = {0}
    BY <1>1 DEF Encoded, ReadField, Askable
  <1>3. Zeros(w) \in Seq(Codepoint) /\ Zeros(w) \in Seq(Ascii) /\ Len(Zeros(w)) = w
    <2>1. 48 \in Codepoint /\ 48 \in Ascii
      BY DEF Codepoint, Ascii
    <2> HIDE DEF Codepoint, Ascii
    <2> QED
      BY <2>1 DEF Zeros
  <1> QED
    BY <1>1, <1>2, <1>3 DEF IsWritten

LEMMA TextIsWritten ==
  ASSUME NEW w \in Nat, NEW arg, Askable(Text(w), arg)
  PROVE  IsWritten(Text(w), arg, Encoded(Text(w), arg))
  <1>1. Text(w).as = "text" /\ Text(w).width = w
    BY DEF Text
  <1>2. arg \in Seq(Codepoint) /\ arg = Shown(arg, w)
    BY <1>1 DEF Askable
  <1>3. Encoded(Text(w), arg) = arg /\ ReadField(Text(w), arg) = {arg}
    BY <1>1, <1>2 DEF Encoded, ReadField
  <1>4. DOMAIN arg = 1..w
    BY <1>2 DEF Shown
  <1>5. Len(arg) = w /\ arg = [i \in 1..w |-> arg[i]]
    BY <1>2, <1>4
  <1>6. ASSUME Fits(Text(w), arg) PROVE arg \in Seq(Ascii)
    <2>1. \A i \in 1..w : arg[i] \in Ascii
      BY <1>1, <1>4, <1>6 DEF Fits
    <2> QED
      BY <1>5, <2>1
  <1> QED
    BY <1>1, <1>2, <1>3, <1>5, <1>6 DEF IsWritten

LEMMA TailOfThree ==
  ASSUME NEW S, NEW s \in Seq(S), Len(s) = 3
  PROVE  Tail(s) \in Seq(S) /\ Len(Tail(s)) = 2 /\ \A i \in 1..2 : Tail(s)[i] = s[i + 1]
  BY HeadTailProperties

LEMMA HouseIsWritten ==
  ASSUME NEW arg, Askable(House, arg)
  PROVE  IsWritten(House, arg, Encoded(House, arg))
  <1> DEFINE q == arg \div 16
             m == (arg % 16) + 1
             n == Padded(m, 2)
             h == <<65 + q>>
             s == h \o n
  <1>1. House.as = "house" /\ House.width = 3
    BY DEF House
  <1>2. Encoded(House, arg) = s /\ ReadField(House, s) = HousecodeToIndex(s)
    BY <1>1 DEF Encoded, ReadField, IndexToHousecode
  <1>3. arg \in 0..255 /\ q \in 0..15 /\ m \in 1..16 /\ q * 16 + m - 1 = arg
    BY <1>1 DEF Askable
  <1> HIDE DEF q, m
  <1>4. 10 ^ 2 = 100 /\ 100 < 10 ^ 9
    OBVIOUS
  <1>5. ASSUME NEW x \in 1..16
        PROVE  /\ x \in Nat /\ x < 10 ^ 9 /\ Padded(x, 2) \in Seq(Numeral) /\ Len(Padded(x, 2)) = 2
               /\ Decimal(Padded(x, 2)) = x /\ Decimal(Digits(x)) = x
    <2>1. x \in Nat /\ x < 10 ^ 9 /\ x < 10 ^ 2 /\ 2 \in 1..9
      BY <1>4
    <2> QED
      BY <2>1, PaddedNumber, DigitsAreRead
  <1> HIDE DEF n
  <1>6. n \in Seq(Numeral) /\ Len(n) = 2 /\ Decimal(n) = m
    BY <1>3, <1>5 DEF n
  <1>7. n \in Seq(Ascii) /\ h \in Seq(Ascii) /\ Len(h) = 1 /\ h[1] = 65 + q
    <2>1. n \in Seq(Ascii)
      BY <1>6, NumeralsAreCodes, WiderType
    <2>2. 65 + q \in Ascii
      BY <1>3 DEF Ascii
    <2> QED
      BY <2>1, <2>2
  <1> HIDE DEF h, s
  <1>8. s \in Seq(Ascii) /\ Len(s) = 3 /\ s[1] = 65 + q /\ Tail(s) = n
    <2>1. h \in Seq(Ascii)
      BY <1>7
    <2>2. n \in Seq(Ascii)
      BY <1>7
    <2>3. /\ h \o n \in Seq(Ascii) /\ Len(h \o n) = Len(h) + Len(n)
          /\ \A i \in 1..Len(h) : (h \o n)[i] = h[i]
          /\ \A i \in 1..Len(n) : (h \o n)[Len(h) + i] = n[i]
      BY <2>1, <2>2, Joined
    <2>4. s \in Seq(Ascii) /\ Len(s) = 3 /\ s[1] = 65 + q /\ s[2] = n[1] /\ s[3] = n[2]
      BY <1>6, <1>7, <2>3 DEF s
    <2>5. Tail(s) \in Seq(Ascii) /\ Len(Tail(s)) = 2 /\ \A i \in 1..2 : Tail(s)[i] = s[i + 1]
      BY <2>4, TailOfThree
    <2>6. Tail(s) = n
      <3>1. \A i \in 1..2 : i = 1 \/ i = 2
        OBVIOUS
      <3>2. Len(Tail(s)) = Len(n) /\ \A i \in 1..Len(Tail(s)) : Tail(s)[i] = n[i]
        <4>1. 1 + 1 = 2 /\ 2 + 1 = 3 /\ 1 \in 1..2 /\ 2 \in 1..2
          OBVIOUS
        <4>2. Tail(s)[1] = n[1] /\ Tail(s)[2] = n[2]
          BY <2>4, <2>5, <4>1
        <4> QED
          BY <1>6, <2>5, <3>1, <4>2
      <3>3. Tail(s) \in Seq(Ascii)
        BY <2>5
      <3> QED
        BY <2>2, <3>2, <3>3, SameSequence
    <2> QED
      BY <2>4, <2>6
  <1>9. ASSUME NEW x \in 1..16 PROVE (s[1] \in 65..80 /\ Tail(s) \in {Digits(x), Padded(x, 2)}) <=> x = m
    <2>1. ASSUME Tail(s) \in {Digits(x), Padded(x, 2)} PROVE x = m
      BY <1>5, <1>6, <1>8, <2>1
    <2>2. ASSUME x = m PROVE Tail(s) \in {Digits(x), Padded(x, 2)}
      BY <1>8, <2>2 DEF n
    <2>3. s[1] \in 65..80
      BY <1>3, <1>8
    <2> QED
      BY <2>1, <2>2, <2>3
  <1>10. {x \in 1..16 : s[1] \in 65..80 /\ Tail(s) \in {Digits(x), Padded(x, 2)}} = {m}
    BY <1>3, <1>9
  <1>11. HousecodeToIndex(s) = {arg}
    <2>1. HousecodeToIndex(s) = {(s[1] - 65) * 16 + x - 1 : x \in {m}}
      BY <1>10 DEF HousecodeToIndex
    <2>2. (s[1] - 65) * 16 + m - 1 = arg
      BY <1>3, <1>8
    <2> QED
      BY <2>1, <2>2
  <1>12. s \in Seq(Codepoint)
    BY <1>8, Codepoints, WiderType
  <1> QED
    BY <1>1, <1>2, <1>8, <1>11, <1>12 DEF IsWritten

LEMMA FieldIsWritten ==
  ASSUME NEW f \in FieldKinds, NEW arg, Askable(f, arg)
  PROVE  IsWritten(f, arg, Encoded(f, arg)) /\ f.width \in Nat
  <1>1. CASE \E w \in 1..9 : f = Number(w)
    BY <1>1, NumberIsWritten DEF Number
  <1>2. CASE \E w \in 1..9 : f = NumberOf(w)
    BY <1>2, IndexIsWritten DEF NumberOf
  <1>3. CASE \E w \in Nat : f = Text(w)
    BY <1>3, TextIsWritten DEF Text
  <1>6. CASE \E w \in Nat : f = Fixed(w)
    BY <1>6, FixedIsWritten DEF Fixed
  <1>4. CASE f = House
    BY <1>4, HouseIsWritten DEF House
  <1>5. f = House \/ (\E w \in 1..9 : f = Number(w)) \/ (\E w \in 1..9 : f = NumberOf(w))
          \/ (\E w \in Nat : f = Text(w)) \/ \E w \in Nat : f = Fixed(w)
    <2>1. 1 \in 1..9 /\ 2 \in 1..9 /\ 3 \in 1..9 /\ 4 \in 1..9 /\ 5 \in 1..9 /\ 6 \in 1..9
          /\ 1 \in Nat /\ 13 \in Nat /\ 16 \in Nat
      OBVIOUS
    <2> QED
      BY <2>1, Zenon DEF FieldKinds
  <1> QED
    BY <1>1, <1>2, <1>3, <1>4, <1>5, <1>6

(* The letters of a command tell the message.                               *)
LEMMA CommandIs ==
  ASSUME NEW e \in Encoders
  PROVE  \E l, m : e.cmd = <<l>> \/ e.cmd = <<l, m>>
  BY SMTT(60) DEF Encoders, EncodersToKf, DisplayFields, EncodersFromLw, Layout

LEMMA CommandType ==
  ASSUME NEW e \in Encoders
  PROVE  /\ Len(e.cmd) \in 1..2 /\ DOMAIN e.cmd = 1..Len(e.cmd)
         /\ Lower(e.cmd) \in Seq(97..122) /\ Len(Lower(e.cmd)) = Len(e.cmd)
         /\ \A i \in 1..Len(e.cmd) : Lower(e.cmd)[i] = Ord(e.cmd[i]) /\ Lower(e.cmd)[i] \in 97..122
  <1>1. PICK n \in 1..2 : n = Len(e.cmd) /\ DOMAIN e.cmd = 1..n
    <2>1. \A l, m : Len(<<l>>) = 1 /\ DOMAIN <<l>> = 1..1 /\ Len(<<l, m>>) = 2 /\ DOMAIN <<l, m>> = 1..2
      OBVIOUS
    <2>2. 1 \in 1..2 /\ 2 \in 1..2
      OBVIOUS
    <2> QED
      BY <2>1, <2>2, CommandIs, Zenon
  <1>2. ASSUME NEW i \in 1..n PROVE Ord(e.cmd[i]) \in 97..122
    <2>1. PICK j \in 1..26 : e.cmd[i] = Alphabet[j]
      BY <1>1, CommandLetters
    <2> QED
      BY <2>1, Letters
  <1>3. Lower(e.cmd) = [i \in 1..n |-> Ord(e.cmd[i])]
    BY <1>1 DEF Lower
  <1>4. Lower(e.cmd) \in Seq(97..122) /\ Len(Lower(e.cmd)) = n
    BY <1>2, <1>3
  <1>5. \A i \in 1..n : Lower(e.cmd)[i] = Ord(e.cmd[i]) /\ Lower(e.cmd)[i] \in 97..122
    BY <1>2, <1>3
  <1> QED
    BY <1>1, <1>4, <1>5

LEMMA CommandsTell ==
  ASSUME NEW e \in Encoders, NEW x \in Encoders, e.cmd = x.cmd
  PROVE  e = x
  <1>1. CASE e \in EncodersToKf /\ x \in EncodersToKf
    BY <1>1, SMTT(60) DEF EncodersToKf, Layout
  <1>2. CASE e \in EncodersToKf /\ x \in EncodersFromLw
    BY <1>2, SMTT(60) DEF EncodersToKf, EncodersFromLw, Layout
  <1>3. CASE e \in EncodersFromLw /\ x \in EncodersToKf
    BY <1>3, SMTT(60) DEF EncodersToKf, EncodersFromLw, Layout
  <1>4. CASE e \in EncodersFromLw /\ x \in EncodersFromLw
    BY <1>4, SMTT(60) DEF EncodersFromLw, Layout
  <1> QED
    BY <1>1, <1>2, <1>3, <1>4 DEF Encoders

(* No two messages have the same command.                                   *)
LEMMA CommandsDiffer ==
  ASSUME NEW e \in Encoders, NEW x \in Encoders, Lower(e.cmd) = Lower(x.cmd)
  PROVE  e = x
  <1>1. PICK n \in 1..2 : n = Len(e.cmd) /\ n = Len(x.cmd)
    BY CommandType
  <1>2. ASSUME NEW i \in 1..n PROVE e.cmd[i] = x.cmd[i]
    <2>1. Ord(e.cmd[i]) = Ord(x.cmd[i])
      <3>1. Lower(e.cmd)[i] = Ord(e.cmd[i]) /\ Lower(x.cmd)[i] = Ord(x.cmd[i])
        BY <1>1, CommandType
      <3> QED
        BY <3>1
    <2>2. i \in DOMAIN e.cmd /\ i \in DOMAIN x.cmd
      BY <1>1, CommandType
    <2>3. PICK j \in 1..26 : e.cmd[i] = Alphabet[j]
      BY <2>2, CommandLetters
    <2>4. PICK k \in 1..26 : x.cmd[i] = Alphabet[k]
      BY <2>2, CommandLetters
    <2>5. 96 + j = 96 + k
      BY <2>1, <2>3, <2>4, Letters
    <2> QED
      BY <2>3, <2>4, <2>5
  <1>3. e.cmd = x.cmd
    <2>1. \A i \in 1..n : e.cmd[i] = x.cmd[i]
      BY <1>2
    <2>2. PICK l, m : e.cmd = <<l>> \/ e.cmd = <<l, m>>
      BY CommandIs
    <2>3. PICK q, r : x.cmd = <<q>> \/ x.cmd = <<q, r>>
      BY CommandIs
    <2>0. \A a, b : Len(<<a>>) = 1 /\ Len(<<a, b>>) = 2 /\ 1 # 2
      OBVIOUS
    <2>4. CASE n = 1
      <3>1. e.cmd = <<l>> /\ x.cmd = <<q>>
        BY <1>1, <2>0, <2>2, <2>3, <2>4, Zenon
      <3>2. 1 \in 1..n
        OBVIOUS
      <3> QED
        BY <2>1, <3>1, <3>2
    <2>5. CASE n = 2
      <3>1. e.cmd = <<l, m>> /\ x.cmd = <<q, r>>
        BY <1>1, <2>0, <2>2, <2>3, <2>5, Zenon
      <3>2. 1 \in 1..n /\ 2 \in 1..n
        BY <2>5
      <3> QED
        BY <2>1, <3>1, <3>2
    <2> QED
      BY <2>4, <2>5
  <1> QED
    BY <1>3, CommandsTell

LEMMA ShortCommand ==
  ASSUME NEW e \in Encoders, Len(e.cmd) = 1
  PROVE  Len(e.fields) = 3 /\ e.fields[1] = Number(1)
  BY SMTT(60) DEF Encoders, EncodersToKf, DisplayFields, EncodersFromLw, Layout

-----------------------------------------------------------------------------
(* Where the fields of a message are: t[i] codes before the end of part i.   *)
LEMMA PrefixSums ==
  ASSUME NEW w \in Seq(Nat), NEW n \in Nat, Len(w) = n, NEW t, Prefix(t, w, n)
  PROVE  \A i \in 0..n : Sum(SubSeq(w, 1, i)) = t[i]
  <1>1. ASSUME NEW i \in 0..n PROVE Sum(SubSeq(w, 1, i)) = t[i]
    <2> DEFINE u == SubSeq(w, 1, i)
    <2>1. Len(u) = i /\ \A j \in 1..i : u[j] = w[j]
      BY UpTo
    <2> HIDE DEF u
    <2>2. t[0] = 0 /\ \A j \in 1..i : t[j] = t[j - 1] + u[j]
      <3>1. \A j \in 1..i : j \in 1..n
        OBVIOUS
      <3> QED
        BY <2>1, <3>1 DEF Prefix
    <2>3. i \in Nat
      OBVIOUS
    <2>4. Sum(u) = t[i]
      BY <2>1, <2>2, <2>3, SumBy
    <2> QED
      BY <2>4 DEF u
  <1> QED
    BY <1>1

(* The widths of a layout are their own prefix.                             *)
LEMMA PrefixOfSix ==
  ASSUME NEW n \in 0..6, NEW f \in Seq(FieldKinds), Len(f) = n, NEW t, Prefix(t, [i \in 1..n |-> f[i].width], n)
  PROVE  t[n] = Widths(f)
  <1> DEFINE w == [i \in 1..n |-> f[i].width]
  <1>1. ASSUME NEW i \in 1..n PROVE w[i] = f[i].width /\ f[i].width \in Nat
    <2>1. f[i] \in FieldKinds
      OBVIOUS
    <2>2. \A k \in FieldKinds : k.width \in Nat
      BY FieldWidth DEF FieldKinds
    <2> QED
      BY <2>1, <2>2
  <1> HIDE DEF w
  <1>2. t[0] = 0 /\ \A i \in 1..n : t[i] = t[i - 1] + f[i].width
    BY <1>1 DEF Prefix, w
  <1>3. /\ 1 <= n => t[1] = t[0] + f[1].width
        /\ 2 <= n => t[2] = t[1] + f[2].width
        /\ 3 <= n => t[3] = t[2] + f[3].width
        /\ 4 <= n => t[4] = t[3] + f[4].width
        /\ 5 <= n => t[5] = t[4] + f[5].width
        /\ 6 <= n => t[6] = t[5] + f[6].width
    <2>1. ASSUME NEW i \in 1..6, i <= n PROVE t[i] = t[i - 1] + f[i].width
      BY <1>2, <2>1
    <2>2. 1 - 1 = 0 /\ 2 - 1 = 1 /\ 3 - 1 = 2 /\ 4 - 1 = 3 /\ 5 - 1 = 4 /\ 6 - 1 = 5
          /\ 1 \in 1..6 /\ 2 \in 1..6 /\ 3 \in 1..6 /\ 4 \in 1..6 /\ 5 \in 1..6 /\ 6 \in 1..6
      OBVIOUS
    <2> QED
      BY <2>1, <2>2
  <1>4. \A i \in 1..6 : Width(f, i) = IF i <= n THEN f[i].width ELSE 0
    BY DEF Width
  <1>5. \A i \in 1..6 : i <= n => f[i].width \in Nat
    BY <1>1
  <1>6. /\ f[1].width \in Nat \/ n < 1
        /\ f[2].width \in Nat \/ n < 2
        /\ f[3].width \in Nat \/ n < 3
        /\ f[4].width \in Nat \/ n < 4
        /\ f[5].width \in Nat \/ n < 5
        /\ f[6].width \in Nat \/ n < 6
    BY <1>5
  <1>7. Widths(f) = (IF 1 <= n THEN f[1].width ELSE 0) + (IF 2 <= n THEN f[2].width ELSE 0)
                  + (IF 3 <= n THEN f[3].width ELSE 0) + (IF 4 <= n THEN f[4].width ELSE 0)
                  + (IF 5 <= n THEN f[5].width ELSE 0) + (IF 6 <= n THEN f[6].width ELSE 0)
    BY <1>4 DEF Widths
  <1>8. CASE n = 0
    BY <1>2, <1>3, <1>6, <1>7, <1>8
  <1>9. CASE n = 1
    BY <1>2, <1>3, <1>6, <1>7, <1>9
  <1>10. CASE n = 2
    BY <1>2, <1>3, <1>6, <1>7, <1>10
  <1>11. CASE n = 3
    BY <1>2, <1>3, <1>6, <1>7, <1>11
  <1>12. CASE n = 4
    BY <1>2, <1>3, <1>6, <1>7, <1>12
  <1>13. CASE n = 5
    BY <1>2, <1>3, <1>6, <1>7, <1>13
  <1>14. CASE n = 6
    BY <1>2, <1>3, <1>6, <1>7, <1>14
  <1> QED
    BY <1>8, <1>9, <1>10, <1>11, <1>12, <1>13, <1>14

Lengths(seqs) == [i \in 1..Len(seqs) |-> Len(seqs[i])]

Located(s, seqs, t, n) ==
    /\ Len(s) = t[n]
    /\ \A i \in 1..n : \A j \in 1..Len(seqs[i]) : s[t[i - 1] + j] = seqs[i][j]
    /\ \A i \in 1..n : t[i] \in Nat /\ t[i - 1] \in Nat /\ t[i] = t[i - 1] + Len(seqs[i]) /\ t[i] <= t[n]

(* Each part of what is put together is where the lengths of the parts      *)
(* before it say.                                                          *)
LEMMA FlattenAt ==
  ASSUME NEW S, NEW seqs \in Seq(Seq(S)), NEW n \in Nat, Len(seqs) = n,
         NEW t, Prefix(t, Lengths(seqs), n)
  PROVE  FlattenSeq(seqs) \in Seq(S) /\ Located(FlattenSeq(seqs), seqs, t, n)
  <1>1. \A i \in 1..n : seqs[i] \in Seq(S) /\ Len(seqs[i]) \in Nat
    BY LenProperties
  <1>2. \A i \in 0..n : t[i] \in Nat
    <2> DEFINE l == [i \in 1..n |-> Len(seqs[i])]
    <2>1. \A i \in 1..n : l[i] \in Nat
      BY <1>1
    <2> HIDE DEF l
    <2>2. Prefix(t, l, n)
      BY DEF l, Lengths
    <2> QED
      BY <2>1, <2>2, PrefixType
  <1>3. t[0] = 0 /\ \A i \in 1..n : t[i] = t[i - 1] + Len(seqs[i])
    BY DEF Prefix, Lengths
  <1>4. FlattenSeq(seqs) \in Seq(S)
    BY FlattenSeqType
  <1>5. CASE n = 0
    <2>1. seqs = <<>>
      BY <1>5, EmptySeq
    <2>2. FlattenSeq(seqs) = <<>>
      BY <2>1 DEF FlattenSeq
    <2> QED
      BY <1>3, <1>4, <1>5, <2>2 DEF Located
  <1>6. \A a, b \in Seq(S) : /\ Len(a \o b) = Len(a) + Len(b)
                             /\ \A i \in 1..Len(a) : (a \o b)[i] = a[i]
                             /\ \A i \in 1..Len(b) : (a \o b)[Len(a) + i] = b[i]
    BY Joined
  <1>7. CASE n # 0
    <2>1. PICK f \in [1..n -> Seq(S)] :
            /\ FlattenSeq(seqs) = f[n]
            /\ f[1] = seqs[1]
            /\ \A i \in 2..n : f[i] = f[i - 1] \o seqs[i]
      BY <1>7, FlattenSeqPrefixes
    <2> DEFINE Placed(k) == /\ Len(f[k]) = t[k]
                            /\ \A i \in 1..k : t[i] <= t[k]
                            /\ \A i \in 1..k : \A j \in 1..Len(seqs[i]) : f[k][t[i - 1] + j] = seqs[i][j]
               T == {m \in Nat : m + 1 <= n => Placed(m + 1)}
    <2>2. 0 \in T
      <3>1. t[1] = Len(seqs[1]) /\ 1 \in 1..n /\ t[1] \in Nat
        <4>1. 1 \in 1..n /\ 1 - 1 = 0
          BY <1>7
        <4>2. t[1] = t[0] + Len(seqs[1]) /\ Len(seqs[1]) \in Nat
          BY <1>1, <1>3, <4>1
        <4> QED
          BY <1>3, <4>1, <4>2
      <3>2. \A i \in 1..1 : i = 1 /\ t[i - 1] = 0
        BY <1>3
      <3>3. \A j \in 1..Len(seqs[1]) : f[1][0 + j] = seqs[1][j]
        BY <2>1
      <3>4. Placed(1)
        BY <2>1, <3>1, <3>2, <3>3
      <3> HIDE DEF Placed
      <3>5. 0 + 1 = 1 /\ 0 \in Nat
        OBVIOUS
      <3> QED
        BY <3>4, <3>5
    <2>3. ASSUME NEW m \in T PROVE m + 1 \in T
      <3>1. CASE m + 1 + 1 <= n
        <4> DEFINE k == m + 1
                   q == k + 1
        <4>1. m \in Nat /\ k \in 1..n /\ q \in 1..n /\ q \in 2..n /\ q - 1 = k /\ k \in Nat
          BY <3>1
        <4>2. Placed(k)
          BY <3>1, <4>1
        <4> HIDE DEF k, q
        <4>3. f[q] = f[k] \o seqs[q] /\ f[k] \in Seq(S) /\ seqs[q] \in Seq(S)
          <5>1. f[q] = f[q - 1] \o seqs[q]
            BY <2>1, <4>1
          <5>2. f[k] \in Seq(S) /\ seqs[q] \in Seq(S)
            BY <1>1, <2>1, <4>1
          <5> QED
            BY <4>1, <5>1, <5>2
        <4>4. t[q] = t[k] + Len(seqs[q]) /\ t[k] \in Nat /\ t[q] \in Nat /\ Len(seqs[q]) \in Nat
          BY <1>1, <1>2, <1>3, <4>1
        <4>5. /\ Len(f[q]) = Len(f[k]) + Len(seqs[q])
              /\ \A i \in 1..Len(f[k]) : f[q][i] = f[k][i]
              /\ \A i \in 1..Len(seqs[q]) : f[q][Len(f[k]) + i] = seqs[q][i]
          <5>1. f[k] \in Seq(S)
            BY <4>3
          <5>2. seqs[q] \in Seq(S)
            BY <4>3
          <5>3. /\ Len(f[k] \o seqs[q]) = Len(f[k]) + Len(seqs[q])
                /\ \A i \in 1..Len(f[k]) : (f[k] \o seqs[q])[i] = f[k][i]
                /\ \A i \in 1..Len(seqs[q]) : (f[k] \o seqs[q])[Len(f[k]) + i] = seqs[q][i]
            BY <1>6, <5>1, <5>2
          <5> QED
            BY <4>3, <5>3
        <4>6. \A i \in 1..q : i = q \/ i \in 1..k
          BY <4>1 DEF q
        <4>7. ASSUME NEW i \in 1..q PROVE t[i] <= t[q]
          <5>1. CASE i = q
            BY <4>4, <5>1
          <5>2. CASE i \in 1..k
            <6>1. t[i] <= t[k] /\ t[i] \in Nat
              BY <1>2, <4>1, <4>2, <5>2
            <6> QED
              BY <4>4, <6>1
          <5> QED
            BY <4>6, <5>1, <5>2
        <4>8. ASSUME NEW i \in 1..q, NEW j \in 1..Len(seqs[i]) PROVE f[q][t[i - 1] + j] = seqs[i][j]
          <5>1. CASE i = q
            <6>1. t[i - 1] = Len(f[k])
              BY <4>1, <4>2, <5>1
            <6>2. j \in 1..Len(seqs[q])
              BY <5>1
            <6> QED
              BY <4>5, <5>1, <6>1, <6>2
          <5>2. CASE i \in 1..k
            <6>1. f[k][t[i - 1] + j] = seqs[i][j] /\ t[i] <= t[k]
              BY <4>2, <5>2
            <6>2. t[i] = t[i - 1] + Len(seqs[i]) /\ t[i] \in Nat /\ t[i - 1] \in Nat /\ Len(seqs[i]) \in Nat
              <7>1. i \in 1..n /\ i - 1 \in 0..n /\ i \in 0..n
                BY <4>1, <5>2
              <7> QED
                BY <1>1, <1>2, <1>3, <7>1
            <6>3. t[i - 1] + j \in 1..t[k]
              <7>1. \A a, b, c, d \in Nat : a = b + c /\ a <= d => \A x \in 1..c : b + x \in 1..d
                OBVIOUS
              <7> QED
                BY <4>4, <6>1, <6>2, <7>1
            <6> QED
              BY <4>2, <4>5, <6>1, <6>3
          <5> QED
            BY <4>6, <5>1, <5>2
        <4>9. Placed(q)
          BY <4>2, <4>4, <4>5, <4>7, <4>8
        <4> HIDE DEF Placed
        <4>10. m + 1 + 1 = q /\ m + 1 \in Nat
          BY <4>1 DEF k, q
        <4> QED
          BY <4>9, <4>10
      <3> QED
        BY <3>1
    <2>4. T = Nat
      <3> HIDE DEF T
      <3>1. T \subseteq Nat
        BY DEF T
      <3> QED
        BY <2>2, <2>3, <3>1, SetInduction
    <2>5. Placed(n)
      <3>1. n - 1 \in T /\ n - 1 + 1 = n
        <4> HIDE DEF T
        <4>1. n - 1 \in Nat /\ n - 1 + 1 = n
          BY <1>7
        <4> QED
          BY <2>4, <4>1
      <3> HIDE DEF Placed
      <3>2. n - 1 + 1 <= n => Placed(n - 1 + 1)
        BY <3>1
      <3> QED
        BY <3>1, <3>2
    <2>6. ASSUME NEW i \in 1..n PROVE t[i] \in Nat /\ t[i - 1] \in Nat
      <3>1. i \in 0..n /\ i - 1 \in 0..n
        OBVIOUS
      <3> QED
        BY <1>2, <3>1
    <2> QED
      BY <1>3, <1>4, <2>1, <2>5, <2>6 DEF Located
  <1> QED
    BY <1>5, <1>7

-----------------------------------------------------------------------------
(* The bytes of a message. ASCII is written as it is, and every other       *)
(* character makes the line longer than the characters that were counted.   *)
LEMMA BytesOfOne ==
  ASSUME NEW c \in Codepoint
  PROVE  /\ Utf8Char(c) \in Seq(Int) /\ Len(Utf8Char(c)) \in Nat /\ 1 <= Len(Utf8Char(c))
         /\ c \in Ascii => Len(Utf8Char(c)) = 1 /\ Utf8Char(c)[1] = c
         /\ c \notin Ascii => Len(Utf8Char(c)) # 1
  <1>1. ASSUME NEW a \in Int, NEW b \in Int, NEW d \in Int, NEW e \in Int
        PROVE  /\ <<a>> \in Seq(Int) /\ Len(<<a>>) = 1 /\ <<a>>[1] = a
               /\ <<a, b>> \in Seq(Int) /\ Len(<<a, b>>) = 2
               /\ <<a, b, d>> \in Seq(Int) /\ Len(<<a, b, d>>) = 3
               /\ <<a, b, d, e>> \in Seq(Int) /\ Len(<<a, b, d, e>>) = 4
    OBVIOUS
  <1>2. /\ c \in Int /\ 192 + c \div 64 \in Int /\ 224 + c \div 4096 \in Int /\ 240 + c \div 262144 \in Int
        /\ Six(c, 1) \in Int /\ Six(c, 64) \in Int /\ Six(c, 4096) \in Int
    BY DEF Six, Codepoint
  <1>3. CASE c < 128
    <2>1. Utf8Char(c) = <<c>> /\ c \in Ascii
      BY <1>2, <1>3 DEF Utf8Char, Codepoint, Ascii
    <2> QED
      BY <1>1, <1>2, <2>1
  <1>4. CASE 128 <= c /\ c < 2048
    <2>1. Utf8Char(c) = <<192 + c \div 64, Six(c, 1)>> /\ c \notin Ascii
      BY <1>2, <1>4 DEF Utf8Char, Ascii
    <2> QED
      BY <1>1, <1>2, <2>1
  <1>5. CASE 2048 <= c /\ c < 65536
    <2>1. Utf8Char(c) = <<224 + c \div 4096, Six(c, 64), Six(c, 1)>> /\ c \notin Ascii
      BY <1>2, <1>5 DEF Utf8Char, Ascii
    <2> QED
      BY <1>1, <1>2, <2>1
  <1>6. CASE 65536 <= c
    <2>1. Utf8Char(c) = <<240 + c \div 262144, Six(c, 4096), Six(c, 64), Six(c, 1)>> /\ c \notin Ascii
      BY <1>2, <1>6 DEF Utf8Char, Ascii
    <2> QED
      BY <1>1, <1>2, <2>1
  <1> QED
    BY <1>2, <1>3, <1>4, <1>5, <1>6

(* Where the bytes of each character are.                                  *)
Encodings(g) == [i \in 1..Len(g) |-> Utf8Char(g[i])]

(* The bytes of the characters, those of each from a place on.             *)
Coded(g, u, n) ==
    /\ Utf8(g) \in Seq(Int) /\ Len(Utf8(g)) = u[n] /\ u[0] = 0
    /\ \A i \in 1..n : /\ Lengths(Encodings(g))[i] = Len(Utf8Char(g[i]))
                       /\ u[i] = u[i - 1] + Len(Utf8Char(g[i])) /\ u[i] \in Nat
                       /\ Utf8(g)[u[i - 1] + 1] = Utf8Char(g[i])[1]

LEMMA BytesAt ==
  ASSUME NEW g \in Seq(Codepoint), NEW n \in Nat, n = Len(g),
         NEW u, Prefix(u, Lengths(Encodings(g)), n)
  PROVE  Coded(g, u, n)
  <1> DEFINE q == Encodings(g)
             b == FlattenSeq(q)
             S == Seq(Int)
  <1>1. DOMAIN g = 1..n /\ \A i \in 1..n : g[i] \in Codepoint
    OBVIOUS
  <1>2. Utf8(g) = b
    BY <1>1 DEF Utf8, Encodings
  <1>3. q = [i \in 1..n |-> Utf8Char(g[i])]
    BY DEF Encodings
  <1>4. \A i \in 1..n : Utf8Char(g[i]) \in S /\ Len(Utf8Char(g[i])) \in Nat /\ 1 <= Len(Utf8Char(g[i]))
    BY <1>1, BytesOfOne
  <1> HIDE DEF S
  <1>5. q \in Seq(S) /\ Len(q) = n /\ \A i \in 1..n : q[i] = Utf8Char(g[i])
    BY <1>3, <1>4
  <1> HIDE DEF q
  <1>6. Prefix(u, Lengths(q), n)
    BY DEF q
  <1>7. b \in Seq(Int) /\ Located(b, q, u, n)
    <2>1. q \in Seq(Seq(Int))
      BY <1>5 DEF S
    <2> HIDE DEF b
    <2> QED
      BY <1>5, <1>6, <2>1, FlattenAt DEF b
  <1> HIDE DEF b
  <1>8. u[0] = 0
    BY <1>6 DEF Prefix
  <1>9. \A i \in 1..n : Lengths(q)[i] = Len(q[i])
    BY <1>5 DEF Lengths
  <1>10. ASSUME NEW i \in 1..n PROVE b[u[i - 1] + 1] = q[i][1]
    <2>1. 1 \in 1..Len(q[i])
      BY <1>4, <1>5
    <2> QED
      BY <1>7, <2>1 DEF Located
  <1> QED
    BY <1>2, <1>5, <1>7, <1>8, <1>9, <1>10 DEF Located, Coded, q

LEMMA AsciiIsItself ==
  ASSUME NEW g \in Seq(Ascii)
  PROVE  Utf8(g) = g
  <1>1. PICK n \in Nat : n = Len(g)
    OBVIOUS
  <1>2. g \in Seq(Codepoint) /\ g \in Seq(Int)
    BY Codepoints, WiderType
  <1>3. PICK u : Prefix(u, Lengths(Encodings(g)), n)
    <2> DEFINE l == Lengths(Encodings(g))
    <2>1. Len(l) = n
      BY <1>1 DEF Lengths, Encodings
    <2> HIDE DEF l
    <2> QED
      BY <2>1, PrefixExists DEF l
  <1>4. /\ Utf8(g) \in Seq(Int) /\ Len(Utf8(g)) = u[n] /\ u[0] = 0
        /\ \A i \in 1..n : /\ u[i] = u[i - 1] + Len(Utf8Char(g[i]))
                           /\ Utf8(g)[u[i - 1] + 1] = Utf8Char(g[i])[1]
    <2>1. g \in Seq(Codepoint) /\ n \in Nat /\ n = Len(g) /\ Prefix(u, Lengths(Encodings(g)), n)
      BY <1>1, <1>2, <1>3
    <2>2. Coded(g, u, n)
      BY <2>1, BytesAt, Zenon
    <2> QED
      BY <2>2 DEF Coded
  <1>5. ASSUME NEW i \in 1..n PROVE Len(Utf8Char(g[i])) = 1 /\ Utf8Char(g[i])[1] = g[i]
    <2>1. g[i] \in Ascii
      BY <1>1
    <2>2. g[i] \in Codepoint
      BY <2>1, Codepoints
    <2> QED
      BY <2>1, <2>2, BytesOfOne
  <1> DEFINE T == {i \in Nat : i <= n => u[i] = i}
  <1>6. 0 \in T
    BY <1>4
  <1>7. ASSUME NEW i \in T PROVE i + 1 \in T
    <2>1. CASE i + 1 <= n
      <3>1. i \in Nat /\ i + 1 \in 1..n /\ i + 1 - 1 = i /\ u[i] = i
        BY <2>1
      <3>2. \A j \in 1..n : u[j] = u[j - 1] + 1
        BY <1>4, <1>5
      <3> QED
        BY <3>1, <3>2
    <2> QED
      BY <2>1
  <1>8. T = Nat
    <2> HIDE DEF T
    <2>1. T \subseteq Nat
      BY DEF T
    <2> QED
      BY <1>6, <1>7, <2>1, SetInduction
  <1>9. ASSUME NEW i \in 1..n PROVE Utf8(g)[i] = g[i]
    <2>1. i - 1 \in Nat /\ i - 1 <= n /\ i - 1 + 1 = i
      OBVIOUS
    <2>2. u[i - 1] = i - 1
      BY <1>8, <2>1
    <2>3. Utf8(g)[u[i - 1] + 1] = g[i]
      BY <1>4, <1>5
    <2> QED
      BY <2>1, <2>2, <2>3
  <1>10. Len(Utf8(g)) = n
    BY <1>4, <1>8
  <1> QED
    BY <1>1, <1>2, <1>4, <1>9, <1>10, SameSequence

LEMMA OthersAreLonger ==
  ASSUME NEW g \in Seq(Codepoint), g \notin Seq(Ascii), 2 <= Len(g), g[1] \in Ascii, g[2] \in Ascii
  PROVE  /\ Utf8(g) \in Seq(Int) /\ Len(Utf8(g)) \in Nat /\ Len(g) < Len(Utf8(g))
         /\ \A i \in 1..2 : Utf8(g)[i] = g[i]
  <1>1. PICK n \in Nat : n = Len(g) /\ DOMAIN g = 1..n /\ \A i \in 1..n : g[i] \in Codepoint
    OBVIOUS
  <1> DEFINE l == Lengths(Encodings(g))
             w == [i \in 1..n |-> 1]
             t == [i \in 0..n |-> i]
  <1>2. PICK u : Prefix(u, l, n)
    <2>1. Len(l) = n
      BY <1>1 DEF Lengths, Encodings
    <2> HIDE DEF l
    <2> QED
      BY <2>1, PrefixExists
  <1> HIDE DEF l
  <1>3. /\ Utf8(g) \in Seq(Int) /\ Len(Utf8(g)) = u[n] /\ u[0] = 0
        /\ \A i \in 1..n : /\ l[i] = Len(Utf8Char(g[i]))
                           /\ u[i] = u[i - 1] + Len(Utf8Char(g[i])) /\ u[i] \in Nat
                           /\ Utf8(g)[u[i - 1] + 1] = Utf8Char(g[i])[1]
    <2>1. Prefix(u, Lengths(Encodings(g)), n)
      BY <1>2 DEF l
    <2>2. Coded(g, u, n)
      BY <1>1, <2>1, BytesAt, Zenon
    <2> QED
      BY <2>2 DEF l, Coded
  <1>4. PICK k \in 1..n : g[k] \notin Ascii
    <2> SUFFICES ASSUME \A k \in 1..n : g[k] \in Ascii PROVE FALSE
      OBVIOUS
    <2>1. g = [i \in 1..n |-> g[i]]
      BY <1>1
    <2>2. [i \in 1..n |-> g[i]] \in Seq(Ascii)
      OBVIOUS
    <2> QED
      BY <2>1, <2>2
  <1>5. Prefix(t, w, n)
    BY DEF Prefix
  <1>6. \A i \in 1..n : w[i] \in Nat /\ l[i] \in Nat /\ w[i] <= l[i]
    <2>1. \A i \in 1..n : Len(Utf8Char(g[i])) \in Nat /\ 1 <= Len(Utf8Char(g[i]))
      BY <1>1, BytesOfOne
    <2> QED
      BY <1>3, <2>1
  <1>7. t[n] = n /\ \A i \in 1..n : w[i] = 1
    OBVIOUS
  <1> HIDE DEF t, w
  <1>8. n <= u[n] /\ u[n] \in Nat
    <2>1. t[n] <= u[n]
      BY <1>2, <1>5, <1>6, LaterPrefix
    <2>2. n \in 1..n
      BY <1>1
    <2> QED
      BY <1>3, <1>7, <2>1, <2>2
  <1>9. n # u[n]
    <2> SUFFICES ASSUME n = u[n] PROVE FALSE
      OBVIOUS
    <2>1. \A i \in 1..n : w[i] = l[i]
      <3>1. t[n] = u[n]
        BY <1>7
      <3> QED
        <4>1. Alike(w, l, n)
          BY <1>2, <1>5, <1>6, <3>1, NoneIsLonger, Zenon
        <4> QED
          BY <4>1 DEF Alike
    <2>2. Len(Utf8Char(g[k])) = 1
      BY <1>3, <1>7, <2>1
    <2>3. g[k] \in Codepoint
      BY <1>1
    <2> QED
      BY <1>4, <2>2, <2>3, BytesOfOne
  <1>10. Utf8(g)[1] = g[1] /\ Utf8(g)[2] = g[2]
    <2>1. 1 \in 1..n /\ 2 \in 1..n /\ 1 - 1 = 0 /\ 2 - 1 = 1 /\ 0 + 1 = 1 /\ 1 + 1 = 2
      BY <1>1
    <2>2. g[1] \in Codepoint /\ g[2] \in Codepoint
      BY <1>1, <2>1
    <2>3. Len(Utf8Char(g[1])) = 1 /\ Utf8Char(g[1])[1] = g[1] /\ Utf8Char(g[2])[1] = g[2]
      BY <2>2, BytesOfOne
    <2>4. u[1] = 1
      BY <1>3, <2>1, <2>3
    <2>5. Utf8(g)[u[0] + 1] = g[1] /\ Utf8(g)[u[1] + 1] = g[2]
      BY <1>3, <2>1, <2>3
    <2> QED
      BY <1>3, <2>1, <2>4, <2>5
  <1>11. \A i \in 1..2 : i = 1 \/ i = 2
    OBVIOUS
  <1> QED
    BY <1>1, <1>3, <1>8, <1>9, <1>10, <1>11

-----------------------------------------------------------------------------
(* A message.                                                              *)
LEMMA FieldsAre ==
  ASSUME NEW e \in Encoders
  PROVE  e.fields \in Seq(FieldKinds) /\ DOMAIN e.fields = 1..Len(e.fields) /\ Len(e.fields) \in 0..6
  <1>1. \E a, b, c, d, f, g : \/ e.fields = <<>> \/ e.fields = <<a>> \/ e.fields = <<a, b>>
                           \/ e.fields = <<a, b, c>> \/ e.fields = <<a, b, c, d>> \/ e.fields = <<a, b, c, d, f>>
                           \/ e.fields = <<a, b, c, d, f, g>>
    BY SMTT(60) DEF Encoders, EncodersToKf, DisplayFields, EncodersFromLw, Layout
  <1>2. PICK n \in 0..6 : Len(e.fields) = n /\ DOMAIN e.fields = 1..n /\ e.fields = [i \in 1..n |-> e.fields[i]]
    BY <1>1
  <1>3. \A i \in 1..n : e.fields[i] \in FieldKinds
    BY <1>2, FieldsAreKnown
  <1>4. [i \in 1..n |-> e.fields[i]] \in Seq(FieldKinds)
    BY <1>3
  <1> QED
    BY <1>2, <1>4

(* What a client may ask for.                                               *)
IsAsked(e, args) ==
    /\ e \in Encoders /\ args = [i \in DOMAIN e.fields |-> args[i]]
    /\ \A i \in DOMAIN e.fields : Askable(e.fields[i], args[i])

Parts(e, args) == [i \in DOMAIN e.fields |-> Encoded(e.fields[i], args[i])]

LEMMA PartsType ==
  ASSUME NEW e, NEW args, IsAsked(e, args)
  PROVE  /\ Parts(e, args) \in Seq(Seq(Codepoint)) /\ Len(Parts(e, args)) = Len(e.fields)
         /\ \A i \in 1..Len(e.fields) :
               /\ IsWritten(e.fields[i], args[i], Parts(e, args)[i])
               /\ Parts(e, args)[i] = Encoded(e.fields[i], args[i])
               /\ e.fields[i] \in FieldKinds /\ e.fields[i].width \in Nat
               /\ Parts(e, args)[i] \in Seq(Codepoint) /\ Len(Parts(e, args)[i]) \in Nat
               /\ e.fields[i].width <= Len(Parts(e, args)[i])
  <1> DEFINE p == Parts(e, args)
  <1>1. e \in Encoders
    BY DEF IsAsked
  <1>2. PICK n \in 0..6 : n = Len(e.fields) /\ DOMAIN e.fields = 1..n /\ e.fields \in Seq(FieldKinds)
    BY <1>1, FieldsAre
  <1>3. p = [i \in 1..n |-> Encoded(e.fields[i], args[i])]
    BY <1>2 DEF Parts
  <1>4. ASSUME NEW i \in 1..n
        PROVE  /\ IsWritten(e.fields[i], args[i], p[i]) /\ p[i] = Encoded(e.fields[i], args[i])
               /\ e.fields[i] \in FieldKinds /\ e.fields[i].width \in Nat
               /\ p[i] \in Seq(Codepoint) /\ Len(p[i]) \in Nat /\ e.fields[i].width <= Len(p[i])
    <2>1. Askable(e.fields[i], args[i]) /\ e.fields[i] \in FieldKinds
      <3>1. i \in DOMAIN e.fields
        BY <1>2
      <3>2. e.fields[i] \in FieldKinds
        BY <1>1, <3>1, FieldsAreKnown
      <3> QED
        BY <3>1, <3>2 DEF IsAsked
    <2>2. p[i] = Encoded(e.fields[i], args[i])
      BY <1>3
    <2>3. IsWritten(e.fields[i], args[i], p[i]) /\ e.fields[i].width \in Nat
      BY <2>1, <2>2, FieldIsWritten
    <2>4. p[i] \in Seq(Codepoint) /\ Len(p[i]) \in Nat /\ Len(p[i]) >= e.fields[i].width
      BY <2>3 DEF IsWritten
    <2> QED
      BY <2>1, <2>2, <2>3, <2>4
  <1>5. p \in Seq(Seq(Codepoint)) /\ Len(p) = n
    <2> HIDE DEF p
    <2>1. p = [i \in 1..n |-> p[i]] /\ \A i \in 1..n : p[i] \in Seq(Codepoint)
      BY <1>3, <1>4
    <2> DEFINE S == Seq(Codepoint)
    <2>2. n \in Nat /\ \A i \in 1..n : p[i] \in S
      BY <2>1
    <2> HIDE DEF S
    <2>3. [i \in 1..n |-> p[i]] \in Seq(S) /\ Len([i \in 1..n |-> p[i]]) = n
      BY <2>2
    <2> QED
      BY <2>1, <2>3 DEF S
  <1> QED
    BY <1>2, <1>4, <1>5

(* Four parts in a row.                                                     *)
LEMMA FourJoined ==
  ASSUME NEW S, NEW a \in Seq(S), NEW b \in Seq(S), NEW c \in Seq(S), NEW d \in Seq(S),
         NEW s, s = a \o b \o c \o d
  PROVE  /\ s \in Seq(S) /\ Len(s) = Len(a) + Len(b) + Len(c) + Len(d)
         /\ \A i \in 1..Len(a) : s[i] = a[i]
         /\ \A i \in 1..Len(b) : s[Len(a) + i] = b[i]
         /\ \A i \in 1..Len(c) : s[Len(a) + Len(b) + i] = c[i]
  <1> DEFINE x == a \o b
             y == x \o c
  <1>1. /\ x \in Seq(S) /\ Len(a) \in Nat /\ Len(b) \in Nat /\ Len(x) = Len(a) + Len(b)
        /\ \A i \in 1..Len(a) : x[i] = a[i]
        /\ \A i \in 1..Len(b) : x[Len(a) + i] = b[i]
    BY Joined
  <1> HIDE DEF x
  <1>2. /\ y \in Seq(S) /\ Len(c) \in Nat /\ Len(y) = Len(x) + Len(c)
        /\ \A i \in 1..Len(x) : y[i] = x[i]
        /\ \A i \in 1..Len(c) : y[Len(x) + i] = c[i]
    <2>1. x \in Seq(S)
      BY <1>1
    <2> QED
      BY <2>1, Joined
  <1> HIDE DEF y
  <1>3. s = y \o d
    BY DEF x, y
  <1>4. /\ s \in Seq(S) /\ Len(d) \in Nat /\ Len(s) = Len(y) + Len(d)
        /\ \A i \in 1..Len(y) : s[i] = y[i]
    <2>1. y \in Seq(S)
      BY <1>2
    <2> QED
      BY <1>3, <2>1, Joined
  <1>5. ASSUME NEW i \in 1..Len(x) PROVE s[i] = x[i]
    BY <1>1, <1>2, <1>4
  <1>6. ASSUME NEW i \in 1..Len(a) PROVE s[i] = a[i]
    BY <1>1, <1>5
  <1>7. ASSUME NEW i \in 1..Len(b) PROVE s[Len(a) + i] = b[i]
    BY <1>1, <1>5
  <1>8. ASSUME NEW i \in 1..Len(c) PROVE s[Len(a) + Len(b) + i] = c[i]
    <2>1. Len(x) + i \in 1..Len(y)
      BY <1>1, <1>2
    <2>2. s[Len(x) + i] = c[i]
      BY <1>2, <1>4, <2>1
    <2> QED
      BY <1>1, <2>2
  <1> QED
    BY <1>1, <1>2, <1>4, <1>6, <1>7, <1>8

(* The codes of a message whose parts end at t.                             *)
Made(e, args, t, m) ==
    /\ m \in Seq(Codepoint) /\ Len(m) = 2 + Len(e.cmd) + t[Len(e.fields)] + 2
    /\ SubSeq(m, 1, 2) = HexByte(e.length)
    /\ \A i \in 1..Len(e.cmd) : m[2 + i] = Lower(e.cmd)[i]
    /\ t[Len(e.fields)] \in Nat
    /\ \A i \in 1..Len(e.fields) :
          /\ t[i] \in Nat /\ t[i - 1] \in Nat /\ t[i] <= t[Len(e.fields)]
          /\ t[i] = t[i - 1] + Len(Parts(e, args)[i])
          /\ \A j \in 1..Len(Parts(e, args)[i]) : m[2 + Len(e.cmd) + (t[i - 1] + j)] = Parts(e, args)[i][j]

LEMMA EncodedIs ==
  ASSUME NEW e, NEW args, IsAsked(e, args),
         NEW t, Prefix(t, Lengths(Parts(e, args)), Len(e.fields)),
         NEW m, m = Encode(e, args)
  PROVE  Made(e, args, t, m)
  <1> DEFINE h == HexByte(e.length)
             c == Lower(e.cmd)
             p == Parts(e, args)
             f == FlattenSeq(p)
             z == Zeros(2)
  <1>1. e \in Encoders
    BY DEF IsAsked
  <1>2. PICK n \in 0..6 : n = Len(e.fields) /\ DOMAIN e.fields = 1..n
    BY <1>1, FieldsAre
  <1>3. m = h \o c \o f \o z
    BY DEF Encode, Parts
  <1>4. h \in Seq(Codepoint) /\ Len(h) = 2
    <2>1. e.length \in 0..255
      BY <1>1, ShortLayouts
    <2> HIDE DEF h
    <2>2. h \in Seq(48..57 \cup 65..70) /\ Len(h) = 2
      BY <2>1, HexBytes DEF h
    <2> QED
      BY <2>2, Codepoints, WiderType
  <1>5. c \in Seq(Codepoint) /\ Len(c) = Len(e.cmd)
    <2>1. 97..122 \subseteq Codepoint
      BY DEF Codepoint
    <2> HIDE DEF c
    <2>2. c \in Seq(97..122) /\ Len(c) = Len(e.cmd)
      BY <1>1, CommandType DEF c
    <2> QED
      BY <2>1, <2>2, WiderType
  <1>6. z \in Seq(Codepoint) /\ Len(z) = 2
    <2>1. 48 \in Codepoint
      BY DEF Codepoint
    <2> HIDE DEF Codepoint
    <2> QED
      BY <2>1 DEF Zeros
  <1>7. p \in Seq(Seq(Codepoint)) /\ Len(p) = n /\ n \in Nat
    BY <1>2, PartsType
  <1> HIDE DEF h, c, p, z
  <1>8. /\ f \in Seq(Codepoint) /\ Len(f) = t[n]
        /\ \A i \in 1..n : \A j \in 1..Len(p[i]) : f[t[i - 1] + j] = p[i][j]
        /\ \A i \in 1..n : t[i] \in Nat /\ t[i - 1] \in Nat /\ t[i] = t[i - 1] + Len(p[i]) /\ t[i] <= t[n]
    <2>1. Prefix(t, Lengths(p), n)
      BY <1>2 DEF p
    <2>2. p \in Seq(Seq(Codepoint))
      BY <1>7
    <2>3. n \in Nat
      BY <1>7
    <2>4. Len(p) = n
      BY <1>7
    <2>5. f \in Seq(Codepoint) /\ Located(f, p, t, n)
      BY <2>1, <2>2, <2>3, <2>4, FlattenAt
    <2> HIDE DEF f
    <2> QED
      BY <2>5 DEF Located
  <1> HIDE DEF f
  <1>9. /\ m \in Seq(Codepoint) /\ Len(m) = 2 + Len(e.cmd) + t[n] + 2
        /\ \A i \in 1..2 : m[i] = h[i]
        /\ \A i \in 1..Len(e.cmd) : m[2 + i] = c[i]
        /\ \A i \in 1..Len(f) : m[2 + Len(e.cmd) + i] = f[i]
    <2>1. /\ m \in Seq(Codepoint) /\ Len(m) = Len(h) + Len(c) + Len(f) + Len(z)
          /\ \A i \in 1..Len(h) : m[i] = h[i]
          /\ \A i \in 1..Len(c) : m[Len(h) + i] = c[i]
          /\ \A i \in 1..Len(f) : m[Len(h) + Len(c) + i] = f[i]
      <3>1. h \in Seq(Codepoint)
        BY <1>4
      <3>2. c \in Seq(Codepoint)
        BY <1>5
      <3>3. f \in Seq(Codepoint)
        BY <1>8
      <3>4. z \in Seq(Codepoint)
        BY <1>6
      <3> QED
        BY <1>3, <3>1, <3>2, <3>3, <3>4, FourJoined
    <2> QED
      BY <1>4, <1>5, <1>6, <1>8, <2>1
  <1>10. t[n] \in Nat /\ Len(e.cmd) \in 1..2
    <2>1. Len(f) \in Nat
      BY <1>8
    <2> QED
      BY <1>1, <1>8, <2>1, CommandType
  <1>11. SubSeq(m, 1, 2) = h
    <2>1. 2 \in 0..Len(m)
      BY <1>9, <1>10
    <2>2. /\ SubSeq(m, 1, 2) \in Seq(Codepoint) /\ Len(SubSeq(m, 1, 2)) = 2
          /\ \A i \in 1..2 : SubSeq(m, 1, 2)[i] = m[i]
      BY <1>9, <2>1, UpTo
    <2> QED
      BY <1>4, <1>9, <2>2, SameSequence
  <1>12. ASSUME NEW i \in 1..n, NEW j \in 1..Len(p[i]) PROVE m[2 + Len(e.cmd) + (t[i - 1] + j)] = p[i][j]
    <2>1. t[i - 1] + j \in 1..Len(f)
      <3>1. Len(p[i]) \in Nat
        BY <1>7
      <3>2. \A x, y, d, g \in Nat : x = y + d /\ x <= g => \A k \in 1..d : y + k \in 1..g
        OBVIOUS
      <3> QED
        BY <1>8, <1>10, <3>1, <3>2
    <2> QED
      BY <1>8, <1>9, <2>1
  <1> QED
    BY <1>2, <1>8, <1>9, <1>10, <1>11, <1>12 DEF h, c, p, Made

(* The length of a message is that of its layout if and only if every field *)
(* has its width.                                                          *)
Wide(e) == [i \in DOMAIN e.fields |-> e.fields[i].width]
Exact(e, args) == \A i \in DOMAIN e.fields : Len(Parts(e, args)[i]) = e.fields[i].width

LEMMA WideIs ==
  ASSUME NEW e \in Encoders, NEW t, Prefix(t, Wide(e), Len(e.fields))
  PROVE  /\ Wide(e) \in Seq(Nat) /\ Len(Wide(e)) = Len(e.fields)
         /\ \A i \in 1..Len(e.fields) : Wide(e)[i] = e.fields[i].width /\ e.fields[i].width \in Nat
         /\ t[Len(e.fields)] = Widths(e.fields)
         /\ \A i \in 0..Len(e.fields) : t[i] \in Nat /\ Sum(SubSeq(Wide(e), 1, i)) = t[i]
  <1> DEFINE f == e.fields
             w == Wide(e)
  <1>1. PICK n \in 0..6 : n = Len(f) /\ DOMAIN f = 1..n /\ f \in Seq(FieldKinds)
    BY FieldsAre
  <1>2. w = [i \in 1..n |-> f[i].width]
    BY <1>1 DEF Wide
  <1>3. ASSUME NEW i \in 1..n PROVE f[i].width \in Nat
    <2>1. f[i] \in FieldKinds
      BY <1>1
    <2>2. \A k \in FieldKinds : k.width \in Nat
      BY FieldWidth DEF FieldKinds
    <2> QED
      BY <2>1, <2>2
  <1> HIDE DEF f, w
  <1>4. w \in Seq(Nat) /\ Len(w) = n /\ n \in Nat /\ \A i \in 1..n : w[i] = f[i].width
    BY <1>2, <1>3
  <1>5. Prefix(t, w, n)
    BY <1>1 DEF w, f
  <1>6. t[n] = Widths(f)
    <2>1. Prefix(t, [i \in 1..n |-> f[i].width], n)
      BY <1>2, <1>5
    <2> QED
      BY <1>1, <2>1, PrefixOfSix
  <1>7. \A i \in 0..n : t[i] \in Nat
    <2>1. \A i \in 1..n : w[i] \in Nat
      BY <1>3, <1>4
    <2> QED
      BY <1>4, <1>5, <2>1, PrefixType
  <1>8. \A i \in 0..n : Sum(SubSeq(w, 1, i)) = t[i]
    <2>1. w \in Seq(Nat)
      BY <1>4
    <2> QED
      BY <1>4, <1>5, <2>1, PrefixSums
  <1> QED
    BY <1>1, <1>3, <1>4, <1>6, <1>7, <1>8 DEF f, w

LEMMA ValidIfExact ==
  ASSUME NEW e, NEW args, IsAsked(e, args), NEW m, m = Encode(e, args)
  PROVE  IsValid(Framed(m)) <=> Exact(e, args)
  <1> DEFINE p == Parts(e, args)
             w == Wide(e)
             l == Lengths(p)
             c == Len(e.cmd)
  <1>1. e \in Encoders
    BY DEF IsAsked
  <1>2. PICK n \in 0..6 : n = Len(e.fields) /\ DOMAIN e.fields = 1..n
    BY <1>1, FieldsAre
  <1>3. /\ Len(p) = n
        /\ \A i \in 1..n : l[i] = Len(p[i]) /\ Len(p[i]) \in Nat /\ e.fields[i].width <= Len(p[i])
    BY <1>2, PartsType DEF Lengths
  <1>4. Len(l) = n /\ Len(w) = n /\ \A i \in 1..n : w[i] = e.fields[i].width
    BY <1>2, <1>3 DEF Lengths, Wide
  <1>5. PICK t : Prefix(t, w, n)
    <2> HIDE DEF w
    <2> QED
      BY <1>4, PrefixExists
  <1>6. PICK u : Prefix(u, l, n)
    <2> HIDE DEF l
    <2> QED
      BY <1>4, PrefixExists
  <1>7. t[n] = Widths(e.fields) /\ \A i \in 1..n : w[i] \in Nat
    BY <1>1, <1>2, <1>4, <1>5, WideIs
  <1>8. m \in Seq(Codepoint) /\ Len(m) = 2 + c + u[n] + 2 /\ SubSeq(m, 1, 2) = HexByte(e.length) /\ u[n] \in Nat
    <2>1. Prefix(u, Lengths(Parts(e, args)), Len(e.fields))
      BY <1>2, <1>6
    <2>2. Made(e, args, u, m)
      BY <2>1, EncodedIs
    <2> HIDE DEF p, l
    <2> QED
      BY <1>2, <2>2 DEF Made
  <1>9. e.length = 4 + c + t[n] /\ c \in 1..2 /\ e.length \in 0..255
    BY <1>1, <1>7, LayoutsAreBalanced, ShortLayouts, CommandType DEF Balanced
  <1> HIDE DEF p, w, l, c
  <1>10. Exact(e, args) <=> t[n] = u[n]
    <2>1. ASSUME t[n] = u[n] PROVE Exact(e, args)
      <3>1. \A i \in 1..n : w[i] \in Nat /\ l[i] \in Nat /\ w[i] <= l[i]
        BY <1>3, <1>4, <1>7
      <3>2. Alike(w, l, n)
        BY <1>5, <1>6, <2>1, <3>1, NoneIsLonger
      <3> QED
        BY <1>2, <1>3, <1>4, <3>2 DEF Exact, Alike, p
    <2>2. ASSUME Exact(e, args) PROVE t[n] = u[n]
      <3>1. Alike(w, l, n)
        BY <1>2, <1>3, <1>4, <2>2 DEF Exact, Alike, p
      <3>2. n \in Nat
        OBVIOUS
      <3> QED
        BY <1>5, <1>6, <3>1, <3>2, SamePrefix
    <2> QED
      BY <2>1, <2>2
  <1> DEFINE msg == Framed(m)
  <1>11. /\ msg \in Seq(Codepoint) /\ Len(msg) = Len(m) + 2 /\ \A i \in 1..Len(m) : msg[i] = m[i]
         /\ ChecksumIsGood(msg)
    <2>1. m \in Seq(Codepoint)
      BY <1>8
    <2> QED
      BY <2>1, Codepoints, FrameIn, ChecksumIn
  <1> HIDE DEF msg
  <1>12. First(msg, 2) = HexByte(e.length)
    <2>1. 1 <= 1 /\ 1 <= 2 + 1 /\ 2 <= Len(msg) /\ 2 <= Len(m) /\ \A i \in 1..2 : msg[i] = m[i]
      BY <1>8, <1>9, <1>11
    <2>2. m \in Seq(Codepoint) /\ msg \in Seq(Codepoint)
      BY <1>8, <1>11
    <2>3. SubSeq(msg, 1, 2) = SubSeq(m, 1, 2)
      BY <2>1, <2>2, SameParts
    <2>4. First(msg, 2) = SubSeq(msg, 1, 2)
      BY <2>1, <1>8, <1>9, <1>11 DEF First
    <2> QED
      BY <1>8, <2>3, <2>4
  <1>13. HexValue(First(msg, 2)) = {e.length}
    BY <1>9, <1>12, HexBytes
  <1>14. Len(msg) - 2 = 4 + c + u[n]
    BY <1>8, <1>9, <1>11
  <1>15. IsValid(msg) <=> 4 + c + u[n] = 4 + c + t[n]
    BY <1>9, <1>11, <1>13, <1>14 DEF IsValid
  <1>16. t[n] \in Nat
    BY <1>1, <1>2, <1>5, WideIs DEF w
  <1> QED
    BY <1>8, <1>9, <1>10, <1>15, <1>16 DEF msg

-----------------------------------------------------------------------------
(* What the panel makes of it.                                              *)
Start(x, i) == 2 + Len(x.cmd) + Sum(SubSeq(Wide(x), 1, i - 1))
Part(x, msg, i) == SubSeq(msg, Start(x, i) + 1, Start(x, i) + Wide(x)[i])

Heard(x, msg) ==
    /\ IsValid(msg)
    /\ Len(msg) = Start(x, Len(x.fields) + 1) + 4
    /\ SubSeq(msg, 3, 2 + Len(x.cmd)) = Lower(x.cmd)
    /\ \A i \in DOMAIN x.fields : ReadField(x.fields[i], Part(x, msg, i)) # {}

Answer(x, msg) ==
    [cmd |-> x.cmd,
     args |-> [i \in DOMAIN x.fields |-> CHOOSE v \in ReadField(x.fields[i], Part(x, msg, i)) : TRUE]]

LEMMA UnderstoodIs ==
  ASSUME NEW x, NEW msg
  PROVE  Understood(x, msg) = IF Heard(x, msg) THEN {Answer(x, msg)} ELSE {}
  BY Zenon DEF Understood, Heard, Answer, Start, Part, Wide

(* A message in which every field has its width is laid out as the panel    *)
(* expects it.                                                             *)
LaidOut(e, args, msg) ==
    /\ msg \in Seq(Codepoint)
    /\ Len(msg) = Start(e, Len(e.fields) + 1) + 4 /\ Len(msg) >= 6 + Len(e.cmd)
    /\ \A i \in 1..Len(e.cmd) : msg[2 + i] = Lower(e.cmd)[i]
    /\ \A i \in 1..Len(e.fields) : Part(e, msg, i) = Parts(e, args)[i]
    /\ \A i \in 1..Len(e.fields) : Start(e, i) \in Nat
    /\ 1 <= Len(e.fields) /\ 1 <= Len(Parts(e, args)[1]) => msg[3 + Len(e.cmd)] = Parts(e, args)[1][1]

LEMMA InsideMessage ==
  ASSUME NEW c \in 1..2, NEW v \in Nat, NEW y \in Nat, NEW z \in Nat, v + y <= z
  PROVE  /\ 2 + c + v \in Nat /\ 2 + c + v + y <= 2 + c + z + 2 + 2
         /\ \A k \in 1..y : 2 + c + (v + k) \in 1..2 + c + z + 2 /\ 2 + c + (v + k) = 2 + c + v + k
  OBVIOUS

LEMMA PartIs ==
  ASSUME NEW S, NEW s \in Seq(S), NEW p \in Seq(S), NEW a \in Nat, a + Len(p) <= Len(s),
         \A j \in 1..Len(p) : s[a + j] = p[j]
  PROVE  SubSeq(s, a + 1, a + Len(p)) = p
  <1>1. PICK d \in Nat : d = Len(p)
    OBVIOUS
  <1> DEFINE q == SubSeq(s, a + 1, a + d)
  <1>2. q \in Seq(S) /\ Len(q) = d
    BY <1>1
  <1>3. \A j \in 1..d : q[j] = s[a + j]
    BY <1>1
  <1> HIDE DEF q
  <1>4. \A j \in 1..Len(q) : q[j] = p[j]
    BY <1>1, <1>2, <1>3
  <1>5. q = p
    BY <1>1, <1>2, <1>4, SameSequence
  <1> QED
    BY <1>1, <1>5 DEF q

LEMMA ExactIsLaidOut ==
  ASSUME NEW e, NEW args, IsAsked(e, args), Exact(e, args), NEW msg, msg = Framed(Encode(e, args))
  PROVE  LaidOut(e, args, msg)
  <1> DEFINE p == Parts(e, args)
             w == Wide(e)
             c == Len(e.cmd)
             m == Encode(e, args)
             l == Lengths(p)
  <1>1. e \in Encoders
    BY DEF IsAsked
  <1>2. PICK n \in 0..6 : n = Len(e.fields) /\ DOMAIN e.fields = 1..n
    BY <1>1, FieldsAre
  <1>3. /\ Len(p) = n
        /\ \A i \in 1..n : /\ l[i] = Len(p[i]) /\ Len(p[i]) \in Nat /\ p[i] \in Seq(Codepoint)
                           /\ e.fields[i].width = Len(p[i])
    BY <1>2, PartsType DEF Lengths, Exact
  <1>4. PICK t : Prefix(t, l, n)
    <2>1. Len(l) = n
      BY <1>3 DEF Lengths
    <2> HIDE DEF l
    <2> QED
      BY <2>1, PrefixExists
  <1>5. Prefix(t, w, n)
    <2>1. \A i \in 1..n : w[i] = l[i]
      BY <1>2, <1>3 DEF Wide
    <2> HIDE DEF w, l
    <2> QED
      BY <1>4, <2>1 DEF Prefix
  <1>6. /\ \A i \in 1..n : w[i] = Len(p[i])
        /\ \A i \in 0..n : t[i] \in Nat /\ Sum(SubSeq(w, 1, i)) = t[i]
    <2>1. Prefix(t, Wide(e), Len(e.fields))
      BY <1>2, <1>5
    <2>2. /\ \A i \in 1..Len(e.fields) : Wide(e)[i] = e.fields[i].width
          /\ \A i \in 0..Len(e.fields) : t[i] \in Nat /\ Sum(SubSeq(Wide(e), 1, i)) = t[i]
      BY <1>1, <2>1, WideIs
    <2> HIDE DEF p
    <2> QED
      BY <1>2, <1>3, <2>2
  <1>7. /\ m \in Seq(Codepoint) /\ Len(m) = 2 + c + t[n] + 2 /\ t[n] \in Nat
        /\ \A i \in 1..c : m[2 + i] = Lower(e.cmd)[i]
        /\ \A i \in 1..n : /\ t[i] \in Nat /\ t[i - 1] \in Nat /\ t[i] <= t[n] /\ t[i] = t[i - 1] + Len(p[i])
                           /\ \A j \in 1..Len(p[i]) : m[2 + c + (t[i - 1] + j)] = p[i][j]
    <2>1. Prefix(t, Lengths(Parts(e, args)), Len(e.fields))
      BY <1>2, <1>4
    <2>2. Made(e, args, t, m)
      BY <2>1, EncodedIs
    <2> HIDE DEF p, l, m
    <2> QED
      BY <1>2, <2>2 DEF Made, p
  <1>8. c \in 1..2
    BY <1>1, CommandType
  <1>9. msg \in Seq(Codepoint) /\ Len(msg) = Len(m) + 2 /\ \A i \in 1..Len(m) : msg[i] = m[i]
    <2> HIDE DEF m
    <2>1. m \in Seq(Codepoint)
      BY <1>7
    <2> QED
      BY <2>1, Codepoints, FrameIn DEF m
  <1>10. \A i \in 1..n : Start(e, i) = 2 + c + t[i - 1]
    <2>1. \A i \in 1..n : i - 1 \in 0..n
      OBVIOUS
    <2> QED
      BY <1>6, <2>1 DEF Start
  <1>11. Start(e, n + 1) = 2 + c + t[n]
    <2>1. n + 1 - 1 = n /\ n \in 0..n
      OBVIOUS
    <2> QED
      BY <1>6, <2>1 DEF Start
  <1> HIDE DEF p, w, c, m, l
  <1>12. ASSUME NEW i \in 1..c PROVE msg[2 + i] = Lower(e.cmd)[i]
    <2>1. 2 + i \in 1..Len(m)
      BY <1>7, <1>8
    <2> QED
      BY <1>7, <1>9, <2>1
  <1>13. ASSUME NEW i \in 1..n PROVE /\ \A j \in 1..Len(p[i]) : msg[Start(e, i) + j] = p[i][j]
                                     /\ Start(e, i) \in Nat /\ Start(e, i) + Len(p[i]) <= Len(msg)
    <2>1. /\ t[i] \in Nat /\ t[i - 1] \in Nat /\ t[i] <= t[n] /\ t[i] = t[i - 1] + Len(p[i])
          /\ Len(p[i]) \in Nat /\ Start(e, i) = 2 + c + t[i - 1]
      BY <1>3, <1>7, <1>10
    <2> DEFINE d == Len(p[i])
               v == t[i - 1]
               z == t[n]
    <2>2. v \in Nat /\ d \in Nat /\ z \in Nat /\ v + d <= z
      BY <1>7, <2>1
    <2>3. /\ \A j \in 1..d : m[2 + c + (v + j)] = p[i][j]
          /\ Start(e, i) = 2 + c + v /\ Len(m) = 2 + c + z + 2
      BY <1>7, <2>1
    <2> HIDE DEF d, v, z
    <2>4. /\ 2 + c + v \in Nat /\ 2 + c + v + d <= 2 + c + z + 2 + 2
          /\ \A k \in 1..d : 2 + c + (v + k) \in 1..2 + c + z + 2 /\ 2 + c + (v + k) = 2 + c + v + k
      BY <1>8, <2>2, InsideMessage
    <2>5. ASSUME NEW j \in 1..d PROVE msg[2 + c + v + j] = p[i][j]
      <3>1. 2 + c + (v + j) \in 1..Len(m) /\ 2 + c + (v + j) = 2 + c + v + j
        BY <2>3, <2>4
      <3> QED
        BY <1>9, <2>3, <3>1
    <2> QED
      BY <1>9, <2>3, <2>4, <2>5 DEF d
  <1>14. ASSUME NEW i \in 1..n PROVE Part(e, msg, i) = p[i]
    <2>1. Start(e, i) \in Nat /\ Start(e, i) + Len(p[i]) <= Len(msg)
      BY <1>13
    <2>2. \A j \in 1..Len(p[i]) : msg[Start(e, i) + j] = p[i][j]
      BY <1>13
    <2>3. p[i] \in Seq(Codepoint)
      BY <1>3
    <2>4. msg \in Seq(Codepoint)
      BY <1>9
    <2>5. SubSeq(msg, Start(e, i) + 1, Start(e, i) + Len(p[i])) = p[i]
      BY <2>1, <2>2, <2>3, <2>4, PartIs
    <2> QED
      BY <1>6, <2>5 DEF Part, w
  <1>15. 1 <= n /\ 1 <= Len(p[1]) => msg[3 + c] = p[1][1]
    <2>1. ASSUME 1 <= n, 1 <= Len(p[1]) PROVE msg[3 + c] = p[1][1]
      <3>1. 1 \in 1..n /\ 1 - 1 = 0 /\ t[0] = 0
        BY <1>4, <2>1 DEF Prefix
      <3>2. 1 \in 1..Len(p[1])
        BY <1>3, <2>1, <3>1
      <3>3. msg[Start(e, 1) + 1] = p[1][1] /\ Start(e, 1) = 2 + c
        BY <1>8, <1>10, <1>13, <3>1, <3>2
      <3> QED
        BY <1>8, <3>3
    <2> QED
      BY <2>1
  <1>16. Len(msg) = Start(e, n + 1) + 4 /\ Len(msg) >= 6 + c
    BY <1>7, <1>8, <1>9, <1>11
  <1> QED
    BY <1>2, <1>9, <1>12, <1>13, <1>14, <1>15, <1>16 DEF LaidOut, p, c

LEMMA FirstField ==
  ASSUME NEW e \in Encoders, Len(e.cmd) = 1
  PROVE  1 \in DOMAIN e.fields /\ 1 <= Len(e.fields) /\ e.fields[1] = Number(1) /\ e.fields[1].width = 1
         /\ Start(e, 1) = 3 /\ Wide(e)[1] = 1
  <1>1. /\ Len(e.fields) = 3 /\ e.fields[1] = Number(1) /\ DOMAIN e.fields = 1..Len(e.fields)
    BY ShortCommand, FieldsAre
  <1>2. Number(1).width = 1
    BY FieldWidth
  <1>3. PICK t : Prefix(t, Wide(e), 3)
    <2> DEFINE w == Wide(e)
    <2>1. Len(w) = 3 /\ 3 \in Nat
      BY <1>1 DEF Wide
    <2> HIDE DEF w
    <2> QED
      BY <2>1, PrefixExists DEF w
  <1>4. Prefix(t, Wide(e), Len(e.fields))
    BY <1>1, <1>3
  <1>5. \A i \in 0..Len(e.fields) : Sum(SubSeq(Wide(e), 1, i)) = t[i]
    BY <1>4, WideIs
  <1>6. Sum(SubSeq(Wide(e), 1, 0)) = 0
    <2>1. 0 \in 0..Len(e.fields)
      BY <1>1
    <2> QED
      BY <1>3, <1>5, <2>1 DEF Prefix
  <1>7. Start(e, 1) = 3
    <2>1. 1 - 1 = 0
      OBVIOUS
    <2> QED
      BY <1>6, <2>1 DEF Start
  <1>8. Wide(e)[1] = 1
    BY <1>1, <1>2 DEF Wide
  <1> QED
    BY <1>1, <1>2, <1>7, <1>8

(* A letter is not taken for a digit, nor a digit for a letter.             *)
LEMMA LetterIsNoNumber ==
  ASSUME NEW s \in Seq(Codepoint), Len(s) = 1, s[1] \in 97..122
  PROVE  ReadField(Number(1), s) = {}
  <1>1. 1 \in DOMAIN s /\ s[1] \notin 48..57
    <2>1. DOMAIN s = 1..Len(s)
      BY LenProperties
    <2>2. \A y \in 97..122 : y \notin 48..57
      OBVIOUS
    <2>3. 1 \in 1..1
      OBVIOUS
    <2> QED
      BY <2>1, <2>2, <2>3
  <1>2. ~IsNumber(s)
    BY <1>1 DEF IsNumber
  <1> QED
    BY <1>2 DEF ReadField, Number

LEMMA NumberIsNoLetter ==
  ASSUME NEW arg, Askable(Number(1), arg), Len(Encoded(Number(1), arg)) = 1
  PROVE  Encoded(Number(1), arg)[1] \notin 97..122
  <1> DEFINE s == Padded(arg, 1)
  <1>1. Encoded(Number(1), arg) = s
    BY DEF Encoded, Number
  <1>2. arg \in Int /\ arg < 10 ^ 9 /\ -arg < 10 ^ 9 /\ 1 \in 1..9
    BY DEF Askable, Number
  <1>3. s \in Seq(Numeral \cup {45})
    <2>1. CASE arg \in Nat
      <3>1. s \in Seq(Numeral)
        BY <1>2, <2>1, PaddedNumber
      <3> HIDE DEF s
      <3> QED
        BY <3>1, WiderType
    <2>2. CASE arg \notin Nat
      <3>1. arg < 0
        BY <1>2, <2>2
      <3> QED
        BY <1>2, <3>1, PaddedNegative
    <2> QED
      BY <2>1, <2>2
  <1> HIDE DEF s
  <1>4. Len(s) = 1
    BY <1>1
  <1>5. s[1] \in Numeral \cup {45}
    <2> DEFINE S == Numeral \cup {45}
    <2>1. s \in Seq(S) /\ 1 \in 1..1
      BY <1>3
    <2> HIDE DEF S
    <2>2. s[1] \in S
      BY <1>4, <2>1
    <2> QED
      BY <2>2 DEF S
  <1>6. \A y \in Numeral \cup {45} : y \notin 97..122
    BY DEF Numeral
  <1> QED
    BY <1>1, <1>5, <1>6

(* The message for a command is not taken for one of another command, not   *)
(* even where one command is the beginning of the other.                   *)
LEMMA OnlyOneHears ==
  ASSUME NEW e, NEW args, IsAsked(e, args), Exact(e, args), NEW msg, LaidOut(e, args, msg),
         NEW x \in Encoders, Heard(x, msg)
  PROVE  x = e
  <1>1. e \in Encoders
    BY DEF IsAsked
  <1>2. PICK c \in 1..2 : /\ c = Len(e.cmd) /\ Lower(e.cmd) \in Seq(97..122) /\ Len(Lower(e.cmd)) = c
                          /\ \A i \in 1..c : Lower(e.cmd)[i] \in 97..122
    BY <1>1, CommandType
  <1>3. PICK d \in 1..2 : /\ d = Len(x.cmd) /\ Lower(x.cmd) \in Seq(97..122) /\ Len(Lower(x.cmd)) = d
                          /\ \A i \in 1..d : Lower(x.cmd)[i] \in 97..122
    BY CommandType
  <1>4. msg \in Seq(Codepoint) /\ Len(msg) >= 6 + c /\ Len(msg) \in Nat /\ \A i \in 1..c : msg[2 + i] = Lower(e.cmd)[i]
    BY <1>2 DEF LaidOut
  <1>5. \A i \in 1..d : msg[2 + i] = Lower(x.cmd)[i]
    <2>1. SubSeq(msg, 3, 2 + d) = Lower(x.cmd)
      BY <1>3 DEF Heard
    <2>2. 1 <= 3 /\ 2 + d <= Len(msg) /\ 3 <= 2 + d + 1 /\ 2 + d - 3 + 1 = d /\ 2 + d \in Int
      BY <1>4
    <2>3. \A i \in 1..2 + d - 3 + 1 : SubSeq(msg, 3, 2 + d)[i] = msg[3 + i - 1]
      <3>1. msg \in Seq(Codepoint)
        BY <1>4
      <3> QED
        BY <2>2, <3>1, PartOf
    <2>4. \A i \in 1..d : 3 + i - 1 = 2 + i
      OBVIOUS
    <2> QED
      BY <2>1, <2>2, <2>3, <2>4
  <1>6. CASE c = d
    <2>1. \A i \in 1..c : Lower(e.cmd)[i] = Lower(x.cmd)[i]
      BY <1>4, <1>5, <1>6
    <2>2. Lower(e.cmd) = Lower(x.cmd)
      BY <1>2, <1>3, <1>6, <2>1, SameSequence
    <2> QED
      BY <1>1, <2>2, CommandsDiffer
  <1>7. CASE d = 1 /\ c = 2
    <2>1. 1 \in DOMAIN x.fields /\ x.fields[1] = Number(1) /\ Start(x, 1) = 3 /\ Wide(x)[1] = 1
      BY <1>3, <1>7, FirstField
    <2>2. Part(x, msg, 1) = SubSeq(msg, 4, 4)
      BY <2>1 DEF Part
    <2>3. SubSeq(msg, 4, 4) \in Seq(Codepoint) /\ Len(SubSeq(msg, 4, 4)) = 1 /\ SubSeq(msg, 4, 4)[1] = msg[4]
      BY <1>4, <1>7
    <2>4. msg[4] \in 97..122
      <3>1. 2 \in 1..c /\ 2 + 2 = 4
        BY <1>7
      <3>2. msg[4] = Lower(e.cmd)[2]
        BY <1>4, <3>1
      <3> QED
        BY <1>2, <3>1, <3>2
    <2>5. ReadField(x.fields[1], Part(x, msg, 1)) = {}
      BY <2>1, <2>2, <2>3, <2>4, LetterIsNoNumber
    <2> QED
      BY <2>1, <2>5 DEF Heard
  <1>8. CASE d = 2 /\ c = 1
    <2>1. 1 \in DOMAIN e.fields /\ 1 <= Len(e.fields) /\ e.fields[1] = Number(1) /\ e.fields[1].width = 1
      BY <1>1, <1>2, <1>8, FirstField
    <2>2. Parts(e, args)[1] = Encoded(Number(1), args[1]) /\ Askable(Number(1), args[1])
      BY <2>1 DEF Parts, IsAsked
    <2>3. Len(Parts(e, args)[1]) = 1
      BY <2>1 DEF Exact
    <2>4. msg[4] = Parts(e, args)[1][1]
      <3>1. 3 + c = 4
        BY <1>8
      <3> QED
        BY <1>2, <2>1, <2>3, <3>1 DEF LaidOut
    <2>5. msg[4] \notin 97..122
      BY <2>2, <2>3, <2>4, NumberIsNoLetter
    <2>6. msg[4] \in 97..122
      <3>1. 2 \in 1..d /\ 2 + 2 = 4
        BY <1>8
      <3>2. msg[4] = Lower(x.cmd)[2]
        BY <1>5, <3>1
      <3> QED
        BY <1>3, <3>1, <3>2
    <2> QED
      BY <2>5, <2>6
  <1> QED
    BY <1>6, <1>7, <1>8

(* What the panel reads in a field is what was asked for.                   *)
AllFit(e, args) == \A i \in DOMAIN e.fields : Fits(e.fields[i], args[i])
Said(e, args) == [cmd |-> e.cmd, args |-> args]

LEMMA FieldIsRead ==
  ASSUME NEW e, NEW args, IsAsked(e, args), Exact(e, args), NEW msg, LaidOut(e, args, msg),
         NEW i \in DOMAIN e.fields
  PROVE  /\ ReadField(e.fields[i], Part(e, msg, i)) \subseteq {args[i]}
         /\ Fits(e.fields[i], args[i]) => ReadField(e.fields[i], Part(e, msg, i)) = {args[i]}
  <1>1. e \in Encoders
    BY DEF IsAsked
  <1>2. i \in 1..Len(e.fields)
    BY <1>1, FieldsAre
  <1>3. Part(e, msg, i) = Parts(e, args)[i]
    BY <1>2 DEF LaidOut
  <1>4. IsWritten(e.fields[i], args[i], Parts(e, args)[i])
    BY <1>2, PartsType
  <1>5. Len(Parts(e, args)[i]) = e.fields[i].width
    BY DEF Exact
  <1> QED
    BY <1>3, <1>4, <1>5 DEF IsWritten

LEMMA OwnAnswer ==
  ASSUME NEW e, NEW args, IsAsked(e, args), Exact(e, args), NEW msg, LaidOut(e, args, msg), Heard(e, msg)
  PROVE  Answer(e, msg) = Said(e, args)
  <1>1. ASSUME NEW i \in DOMAIN e.fields
        PROVE  (CHOOSE v \in ReadField(e.fields[i], Part(e, msg, i)) : TRUE) = args[i]
    <2> DEFINE r == ReadField(e.fields[i], Part(e, msg, i))
    <2>1. r \subseteq {args[i]} /\ r # {}
      BY FieldIsRead DEF Heard
    <2> HIDE DEF r
    <2>2. (CHOOSE v \in r : TRUE) \in r
      BY <2>1
    <2>3. (CHOOSE v \in r : TRUE) = args[i]
      BY <2>1, <2>2
    <2> QED
      BY <2>3 DEF r
  <1>2. [i \in DOMAIN e.fields |-> CHOOSE v \in ReadField(e.fields[i], Part(e, msg, i)) : TRUE]
          = [i \in DOMAIN e.fields |-> args[i]]
    BY <1>1
  <1>3. args = [i \in DOMAIN e.fields |-> args[i]]
    BY DEF IsAsked
  <1> QED
    BY <1>2, <1>3 DEF Answer, Said

LEMMA FitIsExact ==
  ASSUME NEW e, NEW args, IsAsked(e, args), AllFit(e, args)
  PROVE  Exact(e, args)
  <1>1. e \in Encoders
    BY DEF IsAsked
  <1>2. ASSUME NEW i \in DOMAIN e.fields PROVE Len(Parts(e, args)[i]) = e.fields[i].width
    <2>1. i \in 1..Len(e.fields)
      BY <1>1, FieldsAre
    <2>2. IsWritten(e.fields[i], args[i], Parts(e, args)[i])
      BY <2>1, PartsType
    <2> QED
      BY <2>2 DEF IsWritten, AllFit
  <1> QED
    BY <1>2 DEF Exact

LEMMA FitIsHeard ==
  ASSUME NEW e, NEW args, IsAsked(e, args), AllFit(e, args), NEW msg, msg = Framed(Encode(e, args))
  PROVE  Heard(e, msg)
  <1>1. e \in Encoders
    BY DEF IsAsked
  <1>2. Exact(e, args)
    BY FitIsExact
  <1>3. LaidOut(e, args, msg)
    BY <1>2, ExactIsLaidOut
  <1>4. IsValid(msg)
    BY <1>2, ValidIfExact
  <1>5. \A i \in DOMAIN e.fields : ReadField(e.fields[i], Part(e, msg, i)) # {}
    BY <1>2, <1>3, FieldIsRead DEF AllFit
  <1>6. SubSeq(msg, 3, 2 + Len(e.cmd)) = Lower(e.cmd)
    <2>1. PICK c \in 1..2 : /\ c = Len(e.cmd) /\ Lower(e.cmd) \in Seq(97..122) /\ Len(Lower(e.cmd)) = c
                            /\ \A i \in 1..c : Lower(e.cmd)[i] \in 97..122
      BY <1>1, CommandType
    <2>2. msg \in Seq(Codepoint) /\ 2 + c <= Len(msg) /\ \A i \in 1..c : msg[2 + i] = Lower(e.cmd)[i]
      BY <1>3, <2>1 DEF LaidOut
    <2>3. Lower(e.cmd) \in Seq(Codepoint)
      <3>1. 97..122 \subseteq Codepoint
        BY DEF Codepoint
      <3> QED
        BY <2>1, <3>1, WiderType
    <2>4. SubSeq(msg, 2 + 1, 2 + Len(Lower(e.cmd))) = Lower(e.cmd)
      <3>1. msg \in Seq(Codepoint) /\ 2 \in Nat
        BY <2>2
      <3>2. 2 + Len(Lower(e.cmd)) <= Len(msg)
        BY <2>1, <2>2
      <3>3. \A i \in 1..Len(Lower(e.cmd)) : msg[2 + i] = Lower(e.cmd)[i]
        BY <2>1, <2>2
      <3> QED
        BY <2>3, <3>1, <3>2, <3>3, PartIs
    <2> QED
      BY <2>1, <2>4
  <1>7. Len(msg) = Start(e, Len(e.fields) + 1) + 4
    BY <1>3 DEF LaidOut
  <1> QED
    BY <1>4, <1>5, <1>6, <1>7 DEF Heard

(* A message with a character beyond ASCII is longer than it says.          *)
LEMMA LengthIsStated ==
  ASSUME NEW e, NEW args, IsAsked(e, args), NEW m, m = Encode(e, args)
  PROVE  /\ m \in Seq(Codepoint) /\ Len(m) \in Nat /\ e.length <= Len(m) /\ 2 <= Len(m)
         /\ e.length \in 0..255 /\ SubSeq(m, 1, 2) = HexByte(e.length)
  <1> DEFINE p == Parts(e, args)
             w == Wide(e)
             l == Lengths(p)
             c == Len(e.cmd)
  <1>1. e \in Encoders
    BY DEF IsAsked
  <1>2. PICK n \in 0..6 : n = Len(e.fields) /\ DOMAIN e.fields = 1..n
    BY <1>1, FieldsAre
  <1>3. /\ Len(p) = n
        /\ \A i \in 1..n : l[i] = Len(p[i]) /\ Len(p[i]) \in Nat /\ e.fields[i].width <= Len(p[i])
    BY <1>2, PartsType DEF Lengths
  <1>4. Len(l) = n /\ Len(w) = n /\ \A i \in 1..n : w[i] = e.fields[i].width
    BY <1>2, <1>3 DEF Lengths, Wide
  <1>5. PICK t : Prefix(t, w, n)
    <2> HIDE DEF w
    <2> QED
      BY <1>4, PrefixExists
  <1>6. PICK u : Prefix(u, l, n)
    <2> HIDE DEF l
    <2> QED
      BY <1>4, PrefixExists
  <1>7. t[n] = Widths(e.fields) /\ t[n] \in Nat /\ \A i \in 1..n : w[i] \in Nat
    BY <1>1, <1>2, <1>4, <1>5, WideIs
  <1>8. m \in Seq(Codepoint) /\ Len(m) = 2 + c + u[n] + 2 /\ SubSeq(m, 1, 2) = HexByte(e.length) /\ u[n] \in Nat
    <2>1. Prefix(u, Lengths(Parts(e, args)), Len(e.fields))
      BY <1>2, <1>6
    <2>2. Made(e, args, u, m)
      BY <2>1, EncodedIs
    <2> HIDE DEF p, l
    <2> QED
      BY <1>2, <2>2 DEF Made
  <1>9. e.length = 4 + c + t[n] /\ c \in 1..2 /\ e.length \in 0..255
    BY <1>1, <1>7, LayoutsAreBalanced, ShortLayouts, CommandType DEF Balanced
  <1> HIDE DEF p, w, l, c
  <1>10. t[n] <= u[n]
    <2>1. \A i \in 1..n : w[i] \in Nat /\ l[i] \in Nat /\ w[i] <= l[i]
      BY <1>3, <1>4, <1>7
    <2>2. n \in Nat
      BY <1>2
    <2> QED
      BY <1>5, <1>6, <2>1, <2>2, LaterPrefix, Zenon
  <1> QED
    BY <1>7, <1>8, <1>9, <1>10

LEMMA LongerIsInvalid ==
  ASSUME NEW e, NEW args, IsAsked(e, args), Encode(e, args) \notin Seq(Ascii)
  PROVE  ~IsValid(Written(Encode(e, args)))
  <1> DEFINE m == Encode(e, args)
             g == Framed(m)
             b == Utf8(g)
             h == HexByte(e.length)
  <1>1. /\ m \in Seq(Codepoint) /\ Len(m) \in Nat /\ e.length <= Len(m) /\ 2 <= Len(m)
        /\ e.length \in 0..255 /\ SubSeq(m, 1, 2) = h
    BY LengthIsStated
  <1>2. h \in Seq(48..57 \cup 65..70) /\ Len(h) = 2 /\ HexValue(h) = {e.length}
    BY <1>1, HexBytes
  <1> HIDE DEF m, h
  <1>3. g \in Seq(Codepoint) /\ Len(g) = Len(m) + 2 /\ \A i \in 1..Len(m) : g[i] = m[i]
    BY <1>1, Codepoints, FrameIn
  <1> HIDE DEF g
  <1>4. \A i \in 1..2 : m[i] = h[i]
    <2>1. 2 \in 0..Len(m)
      BY <1>1
    <2> QED
      BY <1>1, <2>1, UpTo
  <1>5. \A i \in 1..2 : g[i] = h[i] /\ g[i] \in Ascii
    <2>1. h \in Seq(Ascii)
      BY <1>2, Codepoints, WiderType
    <2>2. \A i \in 1..2 : h[i] \in Ascii
      BY <1>2, <2>1
    <2>3. \A i \in 1..2 : i \in 1..Len(m)
      BY <1>1
    <2> QED
      BY <1>3, <1>4, <2>2, <2>3
  <1>6. g \notin Seq(Ascii)
    <2> SUFFICES ASSUME g \in Seq(Ascii) PROVE FALSE
      OBVIOUS
    <2>1. \A i \in 1..Len(m) : m[i] \in Ascii
      <3>1. \A i \in 1..Len(m) : i \in 1..Len(g)
        BY <1>1, <1>3
      <3>2. \A i \in 1..Len(g) : g[i] \in Ascii
        OBVIOUS
      <3> QED
        BY <1>3, <3>1, <3>2
    <2>2. m = [i \in 1..Len(m) |-> m[i]]
      BY <1>1
    <2>3. [i \in 1..Len(m) |-> m[i]] \in Seq(Ascii)
      BY <1>1, <2>1
    <2>4. m \in Seq(Ascii)
      BY <2>2, <2>3
    <2> QED
      BY <2>4 DEF m
  <1>7. /\ b \in Seq(Int) /\ Len(b) \in Nat /\ Len(g) < Len(b)
        /\ \A i \in 1..2 : b[i] = g[i]
    <2>1. 2 <= Len(g) /\ g[1] \in Ascii /\ g[2] \in Ascii
      <3>1. 1 \in 1..2 /\ 2 \in 1..2
        OBVIOUS
      <3> QED
        BY <1>1, <1>3, <1>5, <3>1
    <2> QED
      BY <1>3, <1>6, <2>1, OthersAreLonger
  <1> HIDE DEF b
  <1>8. First(b, 2) = h
    <2>1. 2 \in 0..Len(b) /\ ~(Len(b) < 2)
      BY <1>1, <1>3, <1>7
    <2>2. /\ SubSeq(b, 1, 2) \in Seq(Int) /\ Len(SubSeq(b, 1, 2)) = 2
          /\ \A i \in 1..2 : SubSeq(b, 1, 2)[i] = b[i]
      BY <1>7, <2>1, UpTo
    <2>3. h \in Seq(Int)
      BY <1>2, WiderType
    <2>4. SubSeq(b, 1, 2) = h
      BY <1>2, <1>5, <1>7, <2>2, <2>3, SameSequence
    <2> QED
      BY <2>1, <2>4 DEF First
  <1>9. Len(b) - 2 # e.length
    BY <1>1, <1>3, <1>7
  <1>10. Written(m) = b
    BY DEF Written, b, g
  <1>11. ~IsValid(b)
    BY <1>2, <1>8, <1>9 DEF IsValid
  <1> QED
    BY <1>10, <1>11 DEF m

LEMMA FitIsAscii ==
  ASSUME NEW e, NEW args, IsAsked(e, args), AllFit(e, args)
  PROVE  Encode(e, args) \in Seq(Ascii)
  <1> DEFINE h == HexByte(e.length)
             c == Lower(e.cmd)
             p == Parts(e, args)
             f == FlattenSeq(p)
             z == Zeros(2)
  <1>1. e \in Encoders
    BY DEF IsAsked
  <1>2. PICK n \in 0..6 : n = Len(e.fields) /\ DOMAIN e.fields = 1..n
    BY <1>1, FieldsAre
  <1>3. Encode(e, args) = h \o c \o f \o z
    BY DEF Encode, Parts
  <1>4. h \in Seq(Ascii)
    <2>1. e.length \in 0..255
      BY <1>1, ShortLayouts
    <2> HIDE DEF h
    <2>2. h \in Seq(48..57 \cup 65..70)
      BY <2>1, HexBytes DEF h
    <2> QED
      BY <2>2, Codepoints, WiderType
  <1>5. c \in Seq(Ascii)
    <2>1. 97..122 \subseteq Ascii
      BY DEF Ascii
    <2> HIDE DEF c
    <2>2. c \in Seq(97..122)
      BY <1>1, CommandType DEF c
    <2> QED
      BY <2>1, <2>2, WiderType
  <1>6. z \in Seq(Ascii)
    <2>1. 48 \in Ascii
      BY DEF Ascii
    <2> HIDE DEF Ascii
    <2> QED
      BY <2>1 DEF Zeros
  <1>7. p \in Seq(Seq(Ascii))
    <2>1. ASSUME NEW i \in 1..n PROVE p[i] \in Seq(Ascii)
      <3>1. IsWritten(e.fields[i], args[i], p[i]) /\ Fits(e.fields[i], args[i])
        BY <1>2, PartsType DEF AllFit
      <3> QED
        BY <3>1 DEF IsWritten
    <2> DEFINE S == Seq(Ascii)
    <2>2. p = [i \in 1..n |-> p[i]]
      BY <1>2 DEF Parts
    <2>3. \A i \in 1..n : p[i] \in S
      BY <2>1
    <2> HIDE DEF S, p
    <2>4. [i \in 1..n |-> p[i]] \in Seq(S)
      BY <2>3
    <2> QED
      BY <2>2, <2>4 DEF S
  <1> HIDE DEF h, c, p, z
  <1>8. f \in Seq(Ascii)
    BY <1>7, FlattenSeqType
  <1> HIDE DEF f
  <1> QED
    BY <1>3, <1>4, <1>5, <1>6, <1>8, FourJoined

(* A message is understood as what it says, or not at all; one in which     *)
(* every argument fits is understood.                                      *)
Reached(e, args) == UNION {Understood(x, Written(Encode(e, args))) : x \in Encoders}

LEMMA AsciiIsWritten ==
  ASSUME NEW m \in Seq(Ascii)
  PROVE  Written(m) = Framed(m)
  <1>1. Framed(m) \in Seq(Ascii)
    BY Codepoints, FrameIn
  <1> QED
    BY <1>1, AsciiIsItself DEF Written

LEMMA CallIsUnderstood ==
  ASSUME NEW e, NEW args, IsAsked(e, args)
  PROVE  /\ Reached(e, args) \subseteq {Said(e, args)}
         /\ AllFit(e, args) => Reached(e, args) = {Said(e, args)}
  <1> DEFINE m == Encode(e, args)
             msg == Written(m)
  <1>1. ASSUME NEW x \in Encoders, Heard(x, msg) PROVE x = e /\ Answer(x, msg) = Said(e, args)
    <2>0. m \in Seq(Ascii)
      BY <1>1, LongerIsInvalid DEF Heard
    <2>1. msg = Framed(m)
      BY <2>0, AsciiIsWritten
    <2>2. Exact(e, args)
      <3>1. IsValid(Framed(m))
        BY <1>1, <2>1 DEF Heard
      <3> QED
        BY <3>1, ValidIfExact
    <2>3. LaidOut(e, args, msg)
      BY <2>1, <2>2, ExactIsLaidOut
    <2> HIDE DEF msg
    <2>4. x = e
      BY <1>1, <2>2, <2>3, OnlyOneHears
    <2> QED
      BY <1>1, <2>2, <2>3, <2>4, OwnAnswer
  <1>2. AllFit(e, args) => Heard(e, msg)
    <2> SUFFICES ASSUME AllFit(e, args) PROVE Heard(e, msg)
      OBVIOUS
    <2>1. msg = Framed(m)
      BY FitIsAscii, AsciiIsWritten
    <2> QED
      BY <2>1, FitIsHeard
  <1>3. e \in Encoders
    BY DEF IsAsked
  <1> HIDE DEF msg
  <1>4. \A x \in Encoders : Understood(x, msg) \subseteq {Said(e, args)}
    BY <1>1, UnderstoodIs
  <1>5. Heard(e, msg) => Understood(e, msg) = {Said(e, args)}
    BY <1>1, <1>3, UnderstoodIs
  <1>6. Reached(e, args) = UNION {Understood(x, msg) : x \in Encoders}
    BY DEF Reached, msg
  <1> QED
    BY <1>2, <1>3, <1>4, <1>5, <1>6

-----------------------------------------------------------------------------
(* obeyed is what the panel understands of the message for asked.           *)
CallInv ==
    \/ asked = None
    \/ \E e \in Encoders : \E args :
          IsAsked(e, args) /\ asked = Said(e, args) /\ obeyed = Reached(e, args)

(* The arguments that a client gives.                                      *)
Given(e, given) ==
    \A i \in DOMAIN e.fields :
        CASE e.fields[i].as = "text" -> given[i] \in Words
          [] e.fields[i].as = "fixed" -> given[i] = 0
          [] OTHER -> given[i] \in Arg

LEMMA GivenByCall ==
  ASSUME NEW e \in Encoders, NEW number \in [FieldsAs(e, {"number", "index", "house"}) -> Arg],
         NEW text \in [FieldsAs(e, {"text"}) -> Words]
  PROVE  Given(e, [i \in DOMAIN e.fields |->
                      CASE e.fields[i].as = "text" -> text[i]
                        [] e.fields[i].as = "fixed" -> 0
                        [] OTHER -> number[i]])
  <1> DEFINE given == [i \in DOMAIN e.fields |->
                          CASE e.fields[i].as = "text" -> text[i]
                            [] e.fields[i].as = "fixed" -> 0
                            [] OTHER -> number[i]]
  <1>1. ASSUME NEW i \in DOMAIN e.fields
        PROVE  e.fields[i].as \in {"number", "index", "house", "fixed", "text"}
    <2>1. e.fields[i] \in FieldKinds
      BY FieldsAreKnown
    <2>2. \A f \in FieldKinds : f.as \in {"number", "index", "house", "fixed", "text"}
      BY DEF FieldKinds, Number, NumberOf, House, Fixed, Text
    <2> QED
      BY <2>1, <2>2
  <1>2. ASSUME NEW i \in DOMAIN e.fields
        PROVE  CASE e.fields[i].as = "text" -> given[i] \in Words
                 [] e.fields[i].as = "fixed" -> given[i] = 0
                 [] OTHER -> given[i] \in Arg
    <2>1. CASE e.fields[i].as = "text"
      <3>1. given[i] = text[i] /\ i \in FieldsAs(e, {"text"})
        BY <2>1 DEF FieldsAs
      <3>2. text[i] \in Words
        BY <3>1
      <3> QED
        BY <2>1, <3>1, <3>2
    <2>2. CASE e.fields[i].as = "fixed"
      <3>1. given[i] = 0
        BY <2>2
      <3> QED
        BY <2>2, <3>1
    <2>3. CASE e.fields[i].as \in {"number", "index", "house"}
      <3>1. given[i] = number[i] /\ i \in FieldsAs(e, {"number", "index", "house"})
        BY <2>3 DEF FieldsAs
      <3>2. number[i] \in Arg
        BY <3>1
      <3> QED
        BY <2>3, <3>1, <3>2
    <2> QED
      BY <1>1, <2>1, <2>2, <2>3
  <1> HIDE DEF given
  <1>3. Given(e, given)
    BY <1>2 DEF Given
  <1> QED
    BY <1>3 DEF given

LEMMA WordType ==
  ASSUME NEW x \in Words
  PROVE  x \in Seq(Codepoint)
  <1>1. x \in Seq(ToSet(x)) /\ \A c \in ToSet(x) : IsCharacter(c)
    BY WordsAssumption
  <1>2. ToSet(x) \subseteq Codepoint
    BY <1>1 DEF IsCharacter, Codepoint
  <1> QED
    BY <1>1, <1>2, WiderType

(* What a text shows is shown as it is.                                    *)
LEMMA ShownType ==
  ASSUME NEW x \in Seq(Codepoint), NEW w \in Nat
  PROVE  Shown(x, w) \in Seq(Codepoint) /\ Shown(Shown(x, w), w) = Shown(x, w)
  <1> DEFINE y == Shown(x, w)
  <1>1. y = [i \in 1..w |-> IF i <= Len(x) THEN x[i] ELSE 94]
    BY DEF Shown
  <1>2. ASSUME NEW i \in 1..w PROVE y[i] \in Codepoint
    <2>1. CASE i <= Len(x)
      BY <1>1, <2>1
    <2>2. CASE ~(i <= Len(x))
      <3>1. y[i] = 94
        BY <1>1, <2>2
      <3> QED
        BY <3>1 DEF Codepoint
    <2> QED
      BY <2>1, <2>2
  <1>3. y = [i \in 1..w |-> y[i]]
    BY <1>1
  <1> HIDE DEF y
  <1>4. y \in Seq(Codepoint) /\ Len(y) = w
    BY <1>2, <1>3
  <1>5. Shown(y, w) = [i \in 1..w |-> y[i]]
    BY <1>4 DEF Shown
  <1> QED
    BY <1>3, <1>4, <1>5 DEF y

LEMMA GivenIsAsked ==
  ASSUME NEW e \in Encoders, NEW given, Given(e, given), CanEncode(e, given)
  PROVE  IsAsked(e, Meant(e, given)) /\ Encode(e, given) = Encode(e, Meant(e, given))
  <1> DEFINE args == Meant(e, given)
  <1>1. ASSUME NEW i \in DOMAIN e.fields
        PROVE  /\ Askable(e.fields[i], args[i])
               /\ Encoded(e.fields[i], given[i]) = Encoded(e.fields[i], args[i])
    <2> DEFINE f == e.fields[i]
    <2>1. f \in FieldKinds /\ f.width \in Nat
      <3>1. f \in FieldKinds
        BY FieldsAreKnown
      <3>2. \A k \in FieldKinds : k.width \in Nat
        BY FieldWidth DEF FieldKinds
      <3> QED
        BY <3>1, <3>2
    <2>2. args[i] = IF f.as = "text" THEN Shown(given[i], f.width) ELSE given[i]
      BY DEF Meant
    <2>3. /\ f.as = "text" => given[i] \in Words
          /\ f.as = "fixed" => given[i] = 0
          /\ f.as # "text" => given[i] = 0 \/ given[i] \in Arg
      BY DEF Given
    <2>4. f.as = "house" => given[i] \in 0..255
      BY DEF CanEncode
    <2> HIDE DEF f, args
    <2>5. CASE f.as = "text"
      <3>1. args[i] \in Seq(Codepoint) /\ Shown(args[i], f.width) = args[i] /\ args[i] = Shown(given[i], f.width)
        BY <2>1, <2>2, <2>3, <2>5, WordType, ShownType
      <3>2. Askable(f, args[i])
        BY <2>5, <3>1 DEF Askable
      <3>3. Encoded(f, given[i]) = Encoded(f, args[i])
        BY <2>5, <3>1 DEF Encoded
      <3> QED
        BY <3>2, <3>3 DEF f
    <2>6. CASE f.as # "text"
      <3>1. args[i] = given[i]
        BY <2>2, <2>6
      <3>2. args[i] \in Int /\ -(10 ^ 8) <= args[i] /\ args[i] <= 10 ^ 8
        <4>1. CASE given[i] = 0
          BY <3>1, <4>1
        <4>2. CASE given[i] \in Arg
          <5>1. given[i] \in -(10 ^ 8)..10 ^ 8
            BY <4>2, ArgAssumption
          <5>2. 10 ^ 8 \in Int
            OBVIOUS
          <5> QED
            BY <3>1, <5>1, <5>2
        <4> QED
          BY <2>3, <2>6, <4>1, <4>2
      <3>3. Askable(f, args[i])
        BY <2>3, <2>4, <2>6, <3>1, <3>2 DEF Askable
      <3> QED
        BY <3>1, <3>3 DEF f
    <2> QED
      BY <2>5, <2>6
  <1>2. IsAsked(e, args)
    <2>1. args = [i \in DOMAIN e.fields |-> args[i]]
      BY DEF Meant
    <2> HIDE DEF args
    <2> QED
      BY <1>1, <2>1 DEF IsAsked
  <1>3. [i \in DOMAIN e.fields |-> Encoded(e.fields[i], given[i])]
          = [i \in DOMAIN e.fields |-> Encoded(e.fields[i], args[i])]
    BY <1>1
  <1> HIDE DEF args
  <1>4. Encode(e, given) = Encode(e, args)
    BY <1>3 DEF Encode
  <1> QED
    BY <1>2, <1>4 DEF args

LEMMA CallStart ==
  ASSUME Init
  PROVE  CallInv
  BY DEF Init, CallInv

LEMMA CallStep ==
  ASSUME CallInv, [Next]_vars
  PROVE  CallInv'
  <1>1. ASSUME UNCHANGED <<asked, obeyed>> PROVE CallInv'
    BY <1>1 DEF CallInv
  <1>2. CASE Say
    BY <1>1, <1>2 DEF Say
  <1>3. CASE \E n \in 1..Len(pipe) : Read(n)
    BY <1>1, <1>3 DEF Read
  <1>4. CASE \E i \in DOMAIN pipe : Lose(i) \/ \E c \in Noise : Replace(i, c)
    BY <1>1, <1>4 DEF Lose, Replace, Trouble
  <1>5. CASE \E n \in 0..Len(pipe) : NewSession(n)
    BY <1>1, <1>5 DEF NewSession, Trouble
  <1>6. CASE CallAny
    <2>1. PICK e \in Encoders : \E given : Given(e, given) /\ Call(e, given)
      <3>0. PICK e \in Encoders :
              \E number \in [FieldsAs(e, {"number", "index", "house"}) -> Arg] :
              \E text \in [FieldsAs(e, {"text"}) -> Words] :
                Call(e, [i \in DOMAIN e.fields |->
                            CASE e.fields[i].as = "text" -> text[i]
                              [] e.fields[i].as = "fixed" -> 0
                              [] OTHER -> number[i]])
        BY <1>6, Zenon DEF CallAny
      <3>1. PICK number \in [FieldsAs(e, {"number", "index", "house"}) -> Arg] :
              \E text \in [FieldsAs(e, {"text"}) -> Words] :
                Call(e, [i \in DOMAIN e.fields |->
                            CASE e.fields[i].as = "text" -> text[i]
                              [] e.fields[i].as = "fixed" -> 0
                              [] OTHER -> number[i]])
        BY <3>0
      <3>4. PICK text \in [FieldsAs(e, {"text"}) -> Words] :
              Call(e, [i \in DOMAIN e.fields |->
                          CASE e.fields[i].as = "text" -> text[i]
                            [] e.fields[i].as = "fixed" -> 0
                            [] OTHER -> number[i]])
        BY <3>1
      <3> DEFINE given == [i \in DOMAIN e.fields |->
                              CASE e.fields[i].as = "text" -> text[i]
                                [] e.fields[i].as = "fixed" -> 0
                                [] OTHER -> number[i]]
      <3>2. Given(e, given)
        BY GivenByCall
      <3> HIDE DEF given
      <3>3. Call(e, given)
        BY <3>4 DEF given
      <3> QED
        BY <3>2, <3>3
    <2>2. PICK given : Given(e, given) /\ Call(e, given)
      BY <2>1
    <2> DEFINE args == Meant(e, given)
    <2>3. IsAsked(e, args) /\ Encode(e, given) = Encode(e, args)
      BY <2>2, GivenIsAsked DEF Call
    <2>4. asked' = Said(e, args) /\ obeyed' = Reached(e, args)
      <3>1. /\ asked' = [cmd |-> e.cmd, args |-> args]
            /\ obeyed' = UNION {Understood(x, Written(Encode(e, given))) : x \in Encoders}
        BY <2>2 DEF Call
      <3> HIDE DEF args
      <3> QED
        BY <2>3, <3>1, Zenon DEF Said, Reached
    <2> HIDE DEF args
    <2> QED
      BY <2>3, <2>4 DEF CallInv
  <1>7. CASE UNCHANGED vars
    BY <1>1, <1>7 DEF vars
  <1> QED
    BY <1>2, <1>3, <1>4, <1>5, <1>6, <1>7 DEF Next

LEMMA CallInvGives ==
  ASSUME CallInv
  PROVE  AskedIsObeyed
  <1> SUFFICES ASSUME asked # None PROVE AskedIsObeyed
    BY DEF AskedIsObeyed
  <1>1. PICK e \in Encoders : \E args :
          IsAsked(e, args) /\ asked = Said(e, args) /\ obeyed = Reached(e, args)
    BY DEF CallInv
  <1>2. PICK args :
          IsAsked(e, args) /\ asked = Said(e, args) /\ obeyed = Reached(e, args)
    BY <1>1
  <1>3. asked.cmd = e.cmd /\ asked.args = args
    BY <1>2 DEF Said
  <1>4. obeyed \subseteq {asked} /\ (AllFit(e, args) => obeyed = {asked})
    BY <1>2, CallIsUnderstood
  <1>5. (\A x \in Encoders : x.cmd = asked.cmd => \A i \in DOMAIN x.fields : Fits(x.fields[i], asked.args[i]))
          => AllFit(e, args)
    BY <1>3 DEF AllFit
  <1> QED
    BY <1>4, <1>5, Zenon DEF AskedIsObeyed

(* For every message that the client writes, every argument of a size up to *)
(* 10 ^ 8 and every text: what the panel understands is what was asked for  *)
(* or nothing, and not nothing where every argument fits into its field and *)
(* a text is ASCII (connection.py:104-111, message.py:382-629).             *)
THEOREM CallsAreObeyed == Spec => []AskedIsObeyed
  <1>1. Init => CallInv
    BY CallStart
  <1>2. CallInv /\ [Next]_vars => CallInv'
    BY CallStep
  <1>3. CallInv => AskedIsObeyed
    BY CallInvGives
  <1> QED
    BY <1>1, <1>2, <1>3, PTL DEF Spec

-----------------------------------------------------------------------------
(* What one wrong or lost code does to a sum.                               *)

(* The totals of a sequence of numbers.                                     *)
AddsUp(g, s) ==
    /\ g[0] = 0
    /\ \A i \in 0..Len(s) : g[i] \in Int
    /\ \A i \in 1..Len(s) : g[i] = g[i - 1] + s[i]

LEMMA SumAddsUp ==
  ASSUME NEW s \in Seq(Int)
  PROVE  \E g : AddsUp(g, s) /\ Sum(s) = g[Len(s)]
  <1>0. PICK k \in Nat : k = Len(s) /\ \A i \in 1..k : s[i] \in Int
    OBVIOUS
  <1>1. PICK f : Totals(f, s, k)
    BY <1>0, TotalsExist
  <1>2. \A i \in 0..k : f[i] = IF i = 0 THEN 0 ELSE f[i - 1] + s[i]
    BY <1>1 DEF Totals
  <1>3. f[0] = 0 /\ \A i \in 1..k : f[i] = f[i - 1] + s[i]
    BY <1>2
  <1> DEFINE T == {n \in Nat : n <= k => f[n] \in Int}
  <1>4. 0 \in T
    BY <1>3
  <1>5. ASSUME NEW n \in T PROVE n + 1 \in T
    <2>1. CASE n + 1 <= k
      <3>1. n \in Nat /\ n + 1 \in 1..k /\ n + 1 - 1 = n /\ n <= k
        BY <2>1
      <3>2. f[n + 1] = f[n] + s[n + 1] /\ f[n] \in Int /\ s[n + 1] \in Int
        BY <1>0, <1>3, <3>1
      <3> QED
        BY <3>1, <3>2
    <2> QED
      BY <2>1
  <1>6. T = Nat
    <2> HIDE DEF T
    <2>1. T \subseteq Nat
      BY DEF T
    <2> QED
      BY <1>4, <1>5, <2>1, SetInduction
  <1>7. \A i \in 0..k : f[i] \in Int
    BY <1>6
  <1>8. Sum(s) = f[k]
    BY <1>0, <1>3, SumBy
  <1> QED
    BY <1>0, <1>3, <1>7, <1>8 DEF AddsUp

(* What a sum becomes when a number is replaced, or lost.                   *)
LEMMA SumReplaced ==
  ASSUME NEW s \in Seq(Int), NEW t \in Seq(Int), Len(t) = Len(s), NEW k \in 1..Len(s),
         \A q \in 1..Len(s) : q # k => t[q] = s[q]
  PROVE  Sum(t) = Sum(s) - s[k] + t[k]
  <1>0. PICK n \in Nat : n = Len(s)
    OBVIOUS
  <1>1. k \in 1..n /\ \A i \in 1..n : s[i] \in Int /\ t[i] \in Int
    BY <1>0
  <1>2. PICK f : AddsUp(f, s) /\ Sum(s) = f[n]
    BY <1>0, SumAddsUp
  <1>3. f[0] = 0 /\ (\A i \in 0..n : f[i] \in Int) /\ \A i \in 1..n : f[i] = f[i - 1] + s[i]
    BY <1>0, <1>2 DEF AddsUp
  <1>4. PICK g : g = [i \in 0..n |-> IF i < k THEN f[i] ELSE f[i] - s[k] + t[k]]
    OBVIOUS
  <1>5. \A i \in 0..n : /\ i < k => g[i] = f[i]
                        /\ ~(i < k) => g[i] = f[i] - s[k] + t[k]
    BY <1>4
  <1>6. ASSUME NEW i \in 1..n PROVE g[i] = g[i - 1] + t[i]
    <2>0. i \in 0..n /\ i - 1 \in 0..n /\ f[i] = f[i - 1] + s[i] /\ f[i - 1] \in Int
          /\ s[i] \in Int /\ t[i] \in Int /\ s[k] \in Int /\ t[k] \in Int
      BY <1>1, <1>3
    <2>1. CASE i < k
      <3>1. t[i] = s[i] /\ i - 1 < k
        BY <1>0, <1>1, <2>1
      <3> QED
        BY <1>5, <2>0, <2>1, <3>1
    <2>2. CASE i = k
      <3>1. i - 1 < k /\ ~(i < k)
        BY <1>1, <2>2
      <3> QED
        BY <1>5, <2>0, <2>2, <3>1
    <2>3. CASE i > k
      <3>1. t[i] = s[i] /\ ~(i - 1 < k) /\ ~(i < k)
        BY <1>0, <1>1, <2>3
      <3> QED
        BY <1>5, <2>0, <2>3, <3>1
    <2> QED
      BY <1>1, <2>1, <2>2, <2>3
  <1>7. g[0] = 0 /\ g[n] = f[n] - s[k] + t[k]
    BY <1>1, <1>3, <1>5
  <1>8. Sum(t) = g[n]
    BY <1>0, <1>6, <1>7, SumBy
  <1> QED
    BY <1>2, <1>7, <1>8

LEMMA SumLost ==
  ASSUME NEW s \in Seq(Int), NEW t \in Seq(Int), Len(t) = Len(s) - 1, NEW k \in 1..Len(s),
         \A q \in 1..k - 1 : t[q] = s[q], \A q \in k..Len(s) - 1 : t[q] = s[q + 1]
  PROVE  Sum(t) = Sum(s) - s[k]
  <1>0. PICK n \in Nat : n = Len(s) /\ n >= 1
    OBVIOUS
  <1>1. k \in 1..n /\ Len(t) = n - 1 /\ n - 1 \in Nat /\ (\A i \in 1..n : s[i] \in Int)
        /\ (\A q \in 1..k - 1 : t[q] = s[q]) /\ \A q \in k..n - 1 : t[q] = s[q + 1]
    BY <1>0
  <1>2. PICK f : AddsUp(f, s) /\ Sum(s) = f[n]
    BY <1>0, SumAddsUp
  <1>3. f[0] = 0 /\ (\A i \in 0..n : f[i] \in Int) /\ \A i \in 1..n : f[i] = f[i - 1] + s[i]
    BY <1>0, <1>2 DEF AddsUp
  <1>4. PICK g : g = [i \in 0..n - 1 |-> IF i < k THEN f[i] ELSE f[i + 1] - s[k]]
    OBVIOUS
  <1>5. \A i \in 0..n - 1 : /\ i < k => g[i] = f[i]
                            /\ ~(i < k) => g[i] = f[i + 1] - s[k]
    BY <1>4
  <1>6. ASSUME NEW i \in 1..n - 1 PROVE g[i] = g[i - 1] + t[i]
    <2>0. /\ i \in 0..n - 1 /\ i - 1 \in 0..n - 1 /\ f[i] = f[i - 1] + s[i] /\ f[i - 1] \in Int
          /\ i + 1 \in 1..n /\ i + 1 - 1 = i /\ f[i + 1] = f[i] + s[i + 1] /\ f[i] \in Int
          /\ s[i] \in Int /\ s[i + 1] \in Int /\ s[k] \in Int /\ i - 1 + 1 = i
      <3>1. /\ i \in 1..n /\ i + 1 \in 1..n /\ i + 1 - 1 = i /\ i - 1 + 1 = i
            /\ i \in 0..n /\ i - 1 \in 0..n /\ i \in 0..n - 1 /\ i - 1 \in 0..n - 1
        OBVIOUS
      <3>2. f[i] = f[i - 1] + s[i] /\ f[i + 1] = f[i + 1 - 1] + s[i + 1] /\ f[i] \in Int /\ f[i - 1] \in Int
        BY <1>3, <3>1
      <3>3. s[i] \in Int /\ s[i + 1] \in Int /\ s[k] \in Int
        BY <1>1, <3>1
      <3> QED
        BY <3>1, <3>2, <3>3
    <2>1. CASE i < k
      <3>1. t[i] = s[i] /\ i - 1 < k
        BY <1>1, <2>1
      <3> QED
        BY <1>5, <2>0, <2>1, <3>1
    <2>2. CASE i = k
      <3>1. i - 1 < k /\ ~(i < k) /\ t[i] = s[i + 1]
        BY <1>1, <2>2
      <3>2. g[i] = f[i + 1] - s[k] /\ g[i - 1] = f[i - 1]
        BY <1>5, <2>0, <3>1
      <3> QED
        BY <2>0, <2>2, <3>1, <3>2
    <2>3. CASE i > k
      <3>1. t[i] = s[i + 1] /\ ~(i - 1 < k) /\ ~(i < k)
        BY <1>1, <2>3
      <3>2. g[i] = f[i + 1] - s[k] /\ g[i - 1] = f[i] - s[k]
        BY <1>5, <2>0, <3>1
      <3> QED
        BY <2>0, <3>1, <3>2
    <2> QED
      BY <1>1, <2>1, <2>2, <2>3
  <1>7. g[0] = 0 /\ g[n - 1] = f[n] - s[k]
    <2>1. 0 < k /\ 0 \in 0..n - 1 /\ n - 1 \in 0..n - 1 /\ n - 1 + 1 = n
      BY <1>0, <1>1
    <2>2. CASE n - 1 < k
      <3>1. n = k /\ f[n] = f[n - 1] + s[n] /\ f[n - 1] \in Int /\ s[n] \in Int
        BY <1>0, <1>1, <1>3, <2>2
      <3>2. g[n - 1] = f[n - 1]
        BY <1>5, <2>1, <2>2
      <3> QED
        BY <1>3, <1>5, <2>1, <3>1, <3>2
    <2>3. CASE ~(n - 1 < k)
      <3>1. g[n - 1] = f[n - 1 + 1] - s[k]
        BY <1>5, <2>1, <2>3
      <3> QED
        BY <1>3, <1>5, <2>1, <3>1
    <2> QED
      BY <2>2, <2>3
  <1>8. Sum(t) = g[n - 1]
    BY <1>1, <1>6, <1>7, SumBy
  <1> QED
    BY <1>2, <1>7, <1>8

-----------------------------------------------------------------------------
(* Codes and lines that the panel did not say.                              *)

(* What the client makes of a line that is not one. Its length is read from *)
(* the first two codes.                                                     *)
LEMMA FirstTwo ==
  ASSUME NEW S, NEW c \in Seq(S), Len(c) >= 2
  PROVE  First(c, 2) = <<c[1], c[2]>>
  <1>1. ~(Len(c) < 2) /\ Len(c) \in Nat
    OBVIOUS
  <1>2. First(c, 2) = SubSeq(c, 1, 2)
    BY <1>1, Zenon DEF First
  <1>3. SubSeq(c, 1, 2) \in Seq(S) /\ Len(SubSeq(c, 1, 2)) = 2 /\ \A i \in 1..2 : SubSeq(c, 1, 2)[i] = c[i]
    <2>1. 2 \in 0..Len(c)
      BY <1>1
    <2> QED
      BY <2>1, UpTo
  <1> QED
    BY <1>2, <1>3

LEMMA NoText ==
  \A t \in {Prompt, Granted, Refused} : /\ t \in Int /\ t > 255 /\ ~Space(t) /\ HexDigit(t) = {}
                                        /\ t # 43 /\ t # 45
  <1> SUFFICES ASSUME NEW t \in {256, 257, 258}
               PROVE  t \in Int /\ t > 255 /\ ~Space(t) /\ HexDigit(t) = {} /\ t # 43 /\ t # 45
    BY DEF Prompt, Granted, Refused
  <1>1. t \notin 48..57 /\ t \notin 65..70 /\ t \notin 97..102 /\ t \notin 9..13 \cup 28..32 \cup {133, 160}
    OBVIOUS
  <1>2. HexDigit(t) = {}
    BY <1>1, Zenon DEF HexDigit
  <1> QED
    BY <1>1, <1>2 DEF Space

LEMMA DigitRange ==
  \A c : HexDigit(c) \subseteq 0..15
  BY DEF HexDigit

(* Neither with a text as one of the two, nor after a line feed but as one  *)
(* digit.                                                                   *)
LEMMA TwoCodes ==
  /\ \A t \in {Prompt, Granted, Refused} : \A x : HexValue(<<t, x>>) = {}
  /\ \A x : HexValue(<<LF, x>>) = HexDigit(x)
  /\ \A x : HexValue(<<x>>) = HexDigit(x)
  /\ HexValue(<<>>) = {}
  <1>1. \A x : Stripped(<<x>>) = <<x>> /\ Len(<<x>>) = 1 /\ <<x>>[1] = x
    BY DEF Stripped
  <1>2. ASSUME NEW x PROVE HexValue(<<x>>) = HexDigit(x)
    BY <1>1 DEF HexValue
  <1>3. \A x, y : Len(<<x, y>>) = 2 /\ <<x, y>>[1] = x /\ <<x, y>>[2] = y
    OBVIOUS
  <1>4. ASSUME NEW x PROVE HexValue(<<LF, x>>) = HexDigit(x)
    <2>1. Space(LF)
      BY DEF Space, LF
    <2>2. Stripped(<<LF, x>>) = <<x>>
      BY <1>3, <2>1, Zenon DEF Stripped
    <2> QED
      BY <1>1, <2>2 DEF HexValue
  <1>5. ASSUME NEW t \in {Prompt, Granted, Refused}, NEW x PROVE HexValue(<<t, x>>) = {}
    <2>1. ~Space(t) /\ HexDigit(t) = {} /\ t # 43 /\ t # 45
      BY NoText
    <2>2. CASE Space(x)
      <3>1. Stripped(<<t, x>>) = <<t>>
        BY <1>3, <2>1, <2>2, Zenon DEF Stripped
      <3> QED
        BY <1>1, <2>1, <3>1 DEF HexValue
    <2>3. CASE ~Space(x)
      <3>1. Stripped(<<t, x>>) = <<t, x>>
        BY <1>3, <2>1, <2>3, Zenon DEF Stripped
      <3>2. HexValue(<<t, x>>) = {16 * pair[1] + pair[2] : pair \in HexDigit(t) \X HexDigit(x)}
        BY <1>3, <2>1, <3>1 DEF HexValue
      <3>3. HexDigit(t) \X HexDigit(x) = {}
        BY <2>1
      <3> QED
        BY <3>2, <3>3
    <2> QED
      BY <2>2, <2>3
  <1>6. HexValue(<<>>) = {}
    <2>1. Len(<<>>) # 1 /\ Len(<<>>) # 2
      OBVIOUS
    <2>2. Stripped(<<>>) = <<>>
      BY <2>1, Zenon DEF Stripped
    <2> QED
      BY <2>1, <2>2, Zenon DEF HexValue
  <1> QED
    BY <1>2, <1>4, <1>5, <1>6

LEMMA ShortIsInvalid ==
  ASSUME NEW S, NEW c \in Seq(S), Len(c) <= 1
  PROVE  ~IsValid(c)
  <1>1. Len(c) \in {0, 1}
    <2>1. PICK n \in Nat : n = Len(c)
      OBVIOUS
    <2>2. n <= 1 => n \in {0, 1}
      BY SMT
    <2> QED
      BY <2>1, <2>2
  <1>2. CASE Len(c) = 0
    <2>1. c = <<>>
      BY <1>2
    <2>2. First(c, 2) = <<>>
      <3>1. Len(c) < 2
        BY <1>2
      <3>2. First(c, 2) = SubSeq(c, 1, 0)
        BY <1>2, <3>1, Zenon DEF First
      <3> QED
        BY <2>1, <3>2
    <2> QED
      BY <2>2, TwoCodes DEF IsValid
  <1>3. CASE Len(c) = 1
    <2>1. c = <<c[1]>>
      BY <1>3
    <2>2. First(c, 2) = SubSeq(c, 1, 1)
      <3>1. Len(c) < 2
        BY <1>3
      <3> QED
        BY <1>3, <3>1, Zenon DEF First
    <2>3. First(c, 2) = <<c[1]>>
      BY <2>1, <2>2, SingleElement
    <2>4. HexValue(First(c, 2)) = HexDigit(c[1])
      BY <2>3, TwoCodes
    <2>5. ~(Len(c) - 2 \in 0..15)
      BY <1>3
    <2> QED
      BY <2>4, <2>5, DigitRange DEF IsValid
  <1> QED
    BY <1>1, <1>2, <1>3

(* What a line of the panel begins with.                                    *)
LEMMA SpokenBegins ==
  ASSUME NEW m, IsSpoken(m)
  PROVE  \E n \in 4..255 :
            /\ m \in Seq(Plain) /\ Len(m) = n /\ HexValue(<<m[1], m[2]>>) = {n}
            /\ m[1] \in 48..70 /\ m[2] \in 48..70 /\ HexDigit(m[1]) = {n \div 16}
            /\ Framed(m) \in Seq(Plain) /\ Len(Framed(m)) = n + 2
            /\ \A i \in 1..n : Framed(m)[i] = m[i]
  <1>0. PICK n \in 4..255 : Len(m) = n
    BY Zenon DEF IsSpoken
  <1>1. m \in Seq(Plain) /\ First(m, 2) = HexByte(n)
    BY <1>0, Zenon DEF IsSpoken, Plain
  <1>2. First(m, 2) = <<m[1], m[2]>>
    <2>1. Len(m) >= 2 /\ m \in Seq(Plain)
      BY <1>0, <1>1
    <2> QED
      BY <2>1, FirstTwo
  <1>3. HexValue(HexByte(n)) = {n} /\ HexByte(n) \in Seq(48..57 \cup 65..70)
    <2>1. n \in 0..255
      OBVIOUS
    <2> QED
      BY <2>1, HexBytes
  <1> DEFINE q == n \div 16
             r == n % 16
  <1>4. q \in 0..15 /\ r \in 0..15 /\ n = 16 * q + r
    OBVIOUS
  <1>5. q % 16 = q
    BY <1>4
  <1>6. HexByte(n) = <<HexChar(q), HexChar(r)>>
    <2>1. HexByte(n) = <<>> \o <<HexChar(q % 16), HexChar(r)>>
      <3>1. (IF n > 255 THEN <<HexChar(n \div 256)>> ELSE <<>>) = <<>>
        OBVIOUS
      <3> QED
        BY <3>1, Zenon DEF HexByte
    <2>2. \A x : <<>> \o <<x, HexChar(r)>> = <<x, HexChar(r)>>
      OBVIOUS
    <2> HIDE DEF q, r
    <2> QED
      BY <1>5, <2>1, <2>2
  <1> HIDE DEF q, r
  <1>7. m[1] = HexChar(q) /\ m[2] = HexChar(r)
    <2>1. <<m[1], m[2]>> = <<HexChar(q), HexChar(r)>>
      BY <1>1, <1>2, <1>6
    <2>2. \A a, b, x, y : <<a, b>> = <<x, y>> => a = x /\ b = y
      OBVIOUS
    <2> QED
      BY <2>1, <2>2
  <1>8. m[1] \in 48..70 /\ m[2] \in 48..70 /\ HexDigit(m[1]) = {q}
    <2>1. /\ HexChar(q) \in 48..57 \cup 65..70 /\ HexDigit(HexChar(q)) = {q}
          /\ HexChar(r) \in 48..57 \cup 65..70
      BY <1>4, HexDigits
    <2> QED
      BY <1>7, <2>1
  <1>9. Framed(m) \in Seq(Plain) /\ Len(Framed(m)) = n + 2 /\ \A i \in 1..n : Framed(m)[i] = m[i]
    BY <1>0, <1>1, FrameType
  <1> QED
    BY <1>0, <1>1, <1>2, <1>3, <1>8, <1>9 DEF q

(* What is not valid is handled only as a text that is in it.               *)
LEMMA InvalidIsText ==
  ASSUME NEW S, NEW c \in Seq(S), ~IsValid(c), NEW v \in Decode(c)
  PROVE  \E j \in 1..Len(c) : c[j] \in {Granted, Refused} /\ v = Login(c[j])
  <1>1. /\ c # <<>> /\ First(c, 1) # <<Prompt>>
        /\ \/ Granted \in ToSet(c) /\ v = Login(Granted)
           \/ v \in {Login(t) : t \in {Refused} \cap {c[1]}}
    BY Zenon DEF Decode
  <1>2. CASE Granted \in ToSet(c) /\ v = Login(Granted)
    <2>1. PICK j \in DOMAIN c : c[j] = Granted
      BY <1>2 DEF ToSet
    <2>2. j \in 1..Len(c)
      OBVIOUS
    <2> QED
      BY <1>2, <2>1, <2>2
  <1>3. CASE v \in {Login(t) : t \in {Refused} \cap {c[1]}}
    <2>1. c[1] = Refused /\ v = Login(Refused)
      BY <1>3
    <2>2. 1 \in 1..Len(c)
      BY <1>1
    <2> QED
      BY <2>1, <2>2
  <1> QED
    BY <1>1, <1>2, <1>3

(* A line that begins as one of the panel, and is longer or shorter.        *)
LEMMA OtherLength ==
  ASSUME NEW l, Sayable(l), NEW S, NEW c \in Seq(S), Len(c) # Len(LineOf(l)),
         \A j \in 1..2 : j <= Len(LineOf(l)) => j <= Len(c) /\ c[j] = LineOf(l)[j]
  PROVE  ~IsValid(c)
  <1>0. Len(c) \in Nat
    OBVIOUS
  <1>1. CASE l \in Texts
    <2>1. PICK t \in {Prompt, Granted, Refused} : l = <<t>>
      BY <1>1 DEF Texts
    <2>2. LineOf(l) = l /\ Len(l) = 1 /\ l[1] = t
      BY <1>1, <2>1 DEF LineOf
    <2>3. Len(c) >= 2 /\ c[1] = t
      BY <1>0, <2>2
    <2>4. First(c, 2) = <<t, c[2]>>
      BY <2>3, FirstTwo
    <2> QED
      BY <2>4, TwoCodes DEF IsValid
  <1>2. CASE l \notin Texts
    <2>1. IsSpoken(l) /\ LineOf(l) = Framed(l)
      BY <1>2 DEF Sayable, LineOf
    <2>2. PICK n \in 4..255 :
            /\ Len(l) = n /\ HexValue(<<l[1], l[2]>>) = {n}
            /\ Len(Framed(l)) = n + 2 /\ \A i \in 1..n : Framed(l)[i] = l[i]
      BY <2>1, SpokenBegins
    <2>3. Len(c) >= 2 /\ c[1] = l[1] /\ c[2] = l[2]
      <3>1. 1 \in 1..n /\ 2 \in 1..n /\ 1 <= n + 2 /\ 2 <= n + 2 /\ 1 \in 1..2 /\ 2 \in 1..2
        OBVIOUS
      <3> QED
        BY <1>0, <2>1, <2>2, <3>1
    <2>4. HexValue(First(c, 2)) = {n}
      BY <2>2, <2>3, FirstTwo
    <2>5. Len(c) - 2 # n
      BY <1>0, <2>1, <2>2
    <2> QED
      BY <2>4, <2>5 DEF IsValid
  <1> QED
    BY <1>1, <1>2

(* A line that begins with the line feed of the line before it.             *)
LEMMA AfterLineFeed ==
  ASSUME NEW l, Sayable(l), NEW S, NEW c \in Seq(S), Len(c) = Len(LineOf(l)) + 1,
         c[1] = LF, c[2] = LineOf(l)[1]
  PROVE  ~IsValid(c)
  <1>0. Len(LineOf(l)) \in Nat /\ Len(c) \in Nat
    BY LineType
  <1>1. CASE l \in Texts
    <2>1. PICK t \in {Prompt, Granted, Refused} : l = <<t>>
      BY <1>1 DEF Texts
    <2>2. LineOf(l) = l /\ Len(l) = 1 /\ l[1] = t
      BY <1>1, <2>1 DEF LineOf
    <2>3. Len(c) >= 2 /\ c[2] = t
      BY <1>0, <2>2
    <2>4. HexValue(First(c, 2)) = HexDigit(t)
      BY <2>3, FirstTwo, TwoCodes
    <2> QED
      BY <2>4, NoText DEF IsValid
  <1>2. CASE l \notin Texts
    <2>1. IsSpoken(l) /\ LineOf(l) = Framed(l)
      BY <1>2 DEF Sayable, LineOf
    <2>2. PICK n \in 4..255 :
            /\ Len(l) = n /\ HexDigit(l[1]) = {n \div 16}
            /\ Len(Framed(l)) = n + 2 /\ \A i \in 1..n : Framed(l)[i] = l[i]
      BY <2>1, SpokenBegins
    <2>3. Len(c) = n + 3 /\ c[2] = l[1]
      <3>1. 1 \in 1..n
        OBVIOUS
      <3> QED
        BY <1>0, <2>1, <2>2, <3>1
    <2>4. HexValue(First(c, 2)) = {n \div 16}
      <3>1. Len(c) >= 2
        BY <2>3
      <3> QED
        BY <2>2, <2>3, <3>1, FirstTwo, TwoCodes
    <2>5. Len(c) - 2 # n \div 16
      <3>1. Len(c) - 2 = n + 1 /\ n \div 16 <= n
        BY <2>3
      <3> QED
        BY <3>1
    <2> QED
      BY <2>4, <2>5 DEF IsValid
  <1> QED
    BY <1>1, <1>2

(* A sum that is a multiple of 256 is none when one of its numbers changes. *)
LEMMA OtherSum ==
  ASSUME NEW x \in Int, NEW y \in Int, NEW d \in -255..255, d # 0, (x + y) % 256 = 0
  PROVE  (x + (y + d)) % 256 # 0
  OBVIOUS

LEMMA TwoOf ==
  ASSUME NEW S, NEW s \in Seq(S), Len(s) = 2
  PROVE  s = <<s[1], s[2]>>
  OBVIOUS

LEMMA LastTwo ==
  ASSUME NEW S, NEW c \in Seq(S), NEW n \in Nat, Len(c) = n + 2
  PROVE  Last2(c) = <<c[n + 1], c[n + 2]>>
  <1>1. ~(Len(c) < 2)
    OBVIOUS
  <1>2. Last2(c) = SubSeq(c, Len(c) - 1, Len(c))
    BY <1>1, Zenon DEF Last2
  <1>3. PICK a \in Int, b \in Int : a = Len(c) - 1 /\ b = Len(c)
    OBVIOUS
  <1>4. a = n + 1 /\ b = n + 2 /\ 1 <= a /\ a <= b + 1 /\ b - a + 1 = 2 /\ b <= Len(c)
    BY <1>3
  <1>5. /\ SubSeq(c, a, b) \in Seq(S) /\ Len(SubSeq(c, a, b)) = b - a + 1
        /\ \A i \in 1..b - a + 1 : SubSeq(c, a, b)[i] = c[a + i - 1]
    BY <1>4, PartOf
  <1>6. a + 1 - 1 = n + 1 /\ a + 2 - 1 = n + 2 /\ 1 \in 1..b - a + 1 /\ 2 \in 1..b - a + 1
    BY <1>4
  <1>7. SubSeq(c, a, b)[1] = c[n + 1] /\ SubSeq(c, a, b)[2] = c[n + 2]
    BY <1>5, <1>6
  <1>8. SubSeq(c, a, b) = <<SubSeq(c, a, b)[1], SubSeq(c, a, b)[2]>>
    BY <1>4, <1>5, TwoOf
  <1> QED
    BY <1>2, <1>3, <1>7, <1>8

(* The frame that the panel makes, and one that is as long or shorter.      *)
LEMMA FrameIs ==
  ASSUME NEW m, IsSpoken(m)
  PROVE  \E n \in 4..255, x \in Int :
            /\ m \in Seq(Latin) /\ Len(m) = n /\ Framed(m) \in Seq(Latin) /\ Len(Framed(m)) = n + 2
            /\ \A i \in 1..n : Framed(m)[i] = m[i] /\ m[i] \in Latin
            /\ HexValue(<<Framed(m)[n + 1], Framed(m)[n + 2]>>) = {x} /\ (x + Sum(m)) % 256 = 0
            /\ m[1] \in 48..70 /\ m[2] \in 48..70 /\ m \notin Texts
            /\ Decode(Framed(m)) = {Message(Framed(m))} /\ Decode(Framed(m)) = Meaning(m)
  <1>1. PICK n \in 4..255 :
            /\ m \in Seq(Plain) /\ Len(m) = n /\ m[1] \in 48..70 /\ m[2] \in 48..70
            /\ Framed(m) \in Seq(Plain) /\ Len(Framed(m)) = n + 2
            /\ \A i \in 1..n : Framed(m)[i] = m[i]
    BY SpokenBegins
  <1>2. Plain \subseteq Latin
    BY DEF Plain
  <1>3. m \in Seq(Latin) /\ Framed(m) \in Seq(Latin)
    BY <1>1, <1>2, WiderType
  <1>4. \A i \in 1..n : m[i] \in Latin
    BY <1>1, <1>3
  <1> DEFINE f == Framed(m)
  <1>5. Last2(f) = HexByte(Checksum(m)) /\ But2(f) = m /\ Checksum(m) \in 0..255
    BY <1>1, FrameType
  <1>6. HexValue(Last2(f)) = {Checksum(m)}
    BY <1>5, HexBytes
  <1>7. \E x \in HexValue(Last2(f)) : (x + Sum(But2(f))) % 256 = 0
    BY <1>1, ChecksumsAreGood DEF ChecksumIsGood
  <1>8. (Checksum(m) + Sum(m)) % 256 = 0
    BY <1>5, <1>6, <1>7
  <1> HIDE DEF f
  <1>9. Last2(f) = <<f[n + 1], f[n + 2]>>
    <2>1. f \in Seq(Latin) /\ Len(f) = n + 2 /\ n \in Nat
      BY <1>1, <1>3 DEF f
    <2> QED
      BY <2>1, LastTwo
  <1>10. m \notin Texts
    <2>1. ASSUME m \in Texts PROVE Len(m) = 1
      BY <2>1 DEF Texts
    <2> QED
      BY <1>1, <2>1
  <1>11. Decode(f) = {Message(f)} /\ Decode(f) = Meaning(m)
    BY SpokenIsValid, SpokenIsDecoded DEF Decode, f
  <1>12. Checksum(m) \in Int /\ HexValue(<<f[n + 1], f[n + 2]>>) = {Checksum(m)}
    BY <1>5, <1>6, <1>9
  <1> QED
    BY <1>1, <1>3, <1>4, <1>8, <1>10, <1>11, <1>12 DEF f

(* The sum that a frame claims.                                             *)
LEMMA ClaimedSum ==
  ASSUME NEW c \in Seq(Latin), NEW n \in Nat, Len(c) = n + 2, IsValid(c),
         NEW x \in Int, HexValue(<<c[n + 1], c[n + 2]>>) = {x}
  PROVE  /\ SubSeq(c, 1, n) \in Seq(Int) /\ Len(SubSeq(c, 1, n)) = n
         /\ \A i \in 1..n : SubSeq(c, 1, n)[i] = c[i] /\ c[i] \in Int
         /\ (x + Sum(SubSeq(c, 1, n))) % 256 = 0
  <1>1. Last2(c) = <<c[n + 1], c[n + 2]>>
    BY LastTwo
  <1>2. But2(c) = SubSeq(c, 1, n)
    <2>1. n + 2 - 2 = n
      OBVIOUS
    <2> QED
      BY <2>1 DEF But2
  <1>3. n \in 0..Len(c) /\ Latin \subseteq Int
    BY DEF Latin
  <1>4. /\ SubSeq(c, 1, n) \in Seq(Latin) /\ Len(SubSeq(c, 1, n)) = n
        /\ \A i \in 1..n : SubSeq(c, 1, n)[i] = c[i]
    BY <1>3, UpTo
  <1>5. SubSeq(c, 1, n) \in Seq(Int)
    BY <1>3, <1>4, WiderType
  <1>6. \A i \in 1..n : c[i] \in Int
    <2>1. \A i \in 1..n + 2 : c[i] \in Latin
      OBVIOUS
    <2>2. \A i \in 1..n : i \in 1..n + 2
      OBVIOUS
    <2> QED
      BY <1>3, <2>1, <2>2
  <1>7. (x + Sum(SubSeq(c, 1, n))) % 256 = 0
    <2>1. \E z \in {x} : (z + Sum(But2(c))) % 256 = 0
      BY <1>1 DEF IsValid, ChecksumIsGood
    <2>2. \A z \in {x} : z = x
      OBVIOUS
    <2>3. (x + Sum(But2(c))) % 256 = 0
      BY <2>1, <2>2, Zenon
    <2> QED
      BY <1>2, <2>3
  <1> QED
    BY <1>4, <1>5, <1>6, <1>7

(* A frame of which one code was replaced is no line, or says the same: a   *)
(* code of the message changes the sum, one of the checksum nothing.        *)
LEMMA ReplacedIsSaid ==
  ASSUME NEW m, IsSpoken(m), NEW c \in Seq(Latin), Len(c) = Len(Framed(m)), NEW k \in 1..Len(c),
         c[k] # Framed(m)[k], \A q \in 1..Len(c) : q # k => c[q] = Framed(m)[q], IsValid(c)
  PROVE  Decode(c) = Meaning(m)
  <1> DEFINE f == Framed(m)
  <1>1. PICK n \in 4..255, x \in Int :
            /\ m \in Seq(Latin) /\ Len(m) = n /\ f \in Seq(Latin) /\ Len(f) = n + 2
            /\ \A i \in 1..n : f[i] = m[i] /\ m[i] \in Latin
            /\ HexValue(<<f[n + 1], f[n + 2]>>) = {x} /\ (x + Sum(m)) % 256 = 0
            /\ Decode(f) = {Message(f)} /\ Decode(f) = Meaning(m)
    BY FrameIs
  <1> HIDE DEF f
  <1>2. Len(c) = n + 2 /\ k \in 1..n + 2 /\ c[k] # f[k] /\ \A q \in 1..n + 2 : q # k => c[q] = f[q]
    BY <1>1 DEF f
  <1>3. ASSUME k <= n PROVE FALSE
    <2>1. HexValue(<<c[n + 1], c[n + 2]>>) = {x}
      <3>1. n + 1 \in 1..n + 2 /\ n + 2 \in 1..n + 2 /\ n + 1 # k /\ n + 2 # k
        BY <1>2, <1>3
      <3>2. c[n + 1] = f[n + 1] /\ c[n + 2] = f[n + 2]
        BY <1>2, <3>1
      <3> QED
        BY <1>1, <3>2
    <2> DEFINE d == SubSeq(c, 1, n)
    <2>2. /\ d \in Seq(Int) /\ Len(d) = n
          /\ \A i \in 1..n : d[i] = c[i] /\ c[i] \in Int
          /\ (x + Sum(d)) % 256 = 0
      <3>1. n \in Nat /\ Len(c) = n + 2
        BY <1>2
      <3> QED
        BY <2>1, <3>1, ClaimedSum
    <2> HIDE DEF d
    <2>3. k \in 1..n /\ \A q \in 1..n : q # k => d[q] = m[q]
      <3>1. k \in 1..n /\ \A q \in 1..n : q \in 1..n + 2
        BY <1>2, <1>3
      <3> QED
        BY <1>1, <1>2, <2>2, <3>1
    <2>4. m \in Seq(Int) /\ m[k] \in 0..255 /\ d[k] \in 0..255 /\ m[k] # d[k]
      <3>1. Latin \subseteq Int /\ Latin = 0..255
        BY DEF Latin
      <3>2. c[k] \in Latin
        OBVIOUS
      <3> QED
        BY <1>1, <1>2, <2>2, <2>3, <3>1, <3>2, WiderType
    <2>5. Sum(d) = Sum(m) - m[k] + d[k] /\ Sum(m) \in Int
      <3>1. Len(d) = Len(m) /\ k \in 1..Len(m) /\ \A q \in 1..Len(m) : q # k => d[q] = m[q]
        BY <1>1, <2>2, <2>3
      <3>2. m \in Seq(Int) /\ d \in Seq(Int)
        BY <2>2, <2>4
      <3>3. Sum(d) = Sum(m) - m[k] + d[k]
        BY <3>1, <3>2, SumReplaced
      <3>4. Sum(m) \in Int
        BY <3>2, SumType
      <3> QED
        BY <3>3, <3>4
    <2>6. PICK e \in -255..255 : e = d[k] - m[k] /\ e # 0 /\ Sum(d) = Sum(m) + e
      <3>1. \A a, b \in 0..255 : b - a \in -255..255 /\ (a # b => b - a # 0)
        OBVIOUS
      <3>2. d[k] - m[k] \in -255..255 /\ d[k] - m[k] # 0
        BY <2>4, <3>1
      <3>3. Sum(m) - m[k] + d[k] = Sum(m) + (d[k] - m[k])
        <4>1. \A a, b, y \in Int : y - a + b = y + (b - a)
          OBVIOUS
        <4>2. \A a \in 0..255 : a \in Int
          OBVIOUS
        <4>3. m[k] \in Int /\ d[k] \in Int
          BY <2>4, <4>2, Zenon
        <4> QED
          BY <2>5, <4>1, <4>3
      <3> QED
        BY <2>5, <3>2, <3>3
    <2>7. (x + (Sum(m) + e)) % 256 # 0
      BY <1>1, <2>5, <2>6, OtherSum
    <2> QED
      BY <2>2, <2>6, <2>7
  <1>4. ASSUME NEW b \in 4..n PROVE SubSeq(c, 3, b) = SubSeq(f, 3, b)
    <2>1. /\ b \in Int /\ 1 <= 3 /\ 3 <= b + 1 /\ b <= Len(c) /\ b <= Len(f)
      BY <1>1, <1>2
    <2>2. \A i \in 3..b : c[i] = f[i]
      <3>1. \A i \in 3..b : i \in 1..n + 2 /\ i # k
        BY <1>2, <1>3
      <3> QED
        BY <1>2, <3>1
    <2> QED
      BY <1>1, <2>1, <2>2, SameParts
  <1>5. Message(c) = Message(f)
    <2>1. Len(c) - 2 = n /\ Len(f) - 2 = n /\ ~(Len(c) < 4) /\ ~(Len(f) < 4) /\ 4 \in 4..n /\ n \in 4..n
      BY <1>1, <1>2
    <2>2. GetElkCommand(c) = GetElkCommand(f)
      BY <1>4, <2>1, Zenon DEF GetElkCommand
    <2>3. SubSeq(c, 3, Len(c) - 2) = SubSeq(f, 3, Len(f) - 2)
      BY <1>4, <2>1
    <2> QED
      BY <2>2, <2>3, Zenon DEF Message
  <1>6. Decode(c) = {Message(c)}
    BY Zenon DEF Decode
  <1> QED
    BY <1>1, <1>5, <1>6

(* A frame of which one code was lost is no line: it is shorter than it     *)
(* says, or what it says was lost with the sum.                             *)
LEMMA LostIsInvalid ==
  ASSUME NEW m, IsSpoken(m), NEW c \in Seq(Latin), Len(c) = Len(Framed(m)) - 1,
         NEW k \in 1..Len(Framed(m)), \A q \in 1..k - 1 : c[q] = Framed(m)[q],
         \A q \in k..Len(c) : c[q] = Framed(m)[q + 1]
  PROVE  ~IsValid(c)
  <1> DEFINE f == Framed(m)
  <1>1. PICK n \in 4..255, x \in Int :
            /\ m \in Seq(Latin) /\ Len(m) = n /\ f \in Seq(Latin) /\ Len(f) = n + 2
            /\ \A i \in 1..n : f[i] = m[i] /\ m[i] \in Latin
            /\ HexValue(<<f[n + 1], f[n + 2]>>) = {x} /\ (x + Sum(m)) % 256 = 0
            /\ m[1] \in 48..70 /\ m[2] \in 48..70 /\ m \notin Texts
    BY FrameIs
  <1>2. /\ Len(c) = n + 1 /\ k \in 1..n + 2 /\ (\A q \in 1..k - 1 : c[q] = f[q])
        /\ \A q \in k..n + 1 : c[q] = f[q + 1]
    <2>1. Len(c) = n + 1
      BY <1>1
    <2> QED
      BY <1>1, <2>1
  <1>3. CASE k > 2
    <2>1. LineOf(m) = f /\ Sayable(m)
      BY <1>1 DEF LineOf, Sayable
    <2> HIDE DEF f
    <2>2. \A j \in 1..2 : j <= Len(c) /\ c[j] = f[j]
      <3>1. \A j \in 1..2 : j \in 1..k - 1 /\ j <= n + 1
        BY <1>2, <1>3
      <3> QED
        BY <1>2, <3>1
    <2>3. Len(c) # Len(LineOf(m))
      BY <1>1, <1>2, <2>1
    <2> QED
      BY <2>1, <2>2, <2>3, OtherLength
  <1>4. CASE k \in 1..2
    <2> SUFFICES ASSUME IsValid(c) PROVE FALSE
      OBVIOUS
    <2> HIDE DEF f
    <2>0. PICK g \in Nat : g = n - 1 /\ g + 1 = n /\ g + 2 = n + 1
      OBVIOUS
    <2>1. HexValue(<<c[g + 1], c[g + 2]>>) = {x} /\ Len(c) = g + 2
      <3>1. n \in k..n + 1 /\ n + 1 \in k..n + 1 /\ n + 1 + 1 = n + 2
        BY <1>4
      <3>2. c[n] = f[n + 1] /\ c[n + 1] = f[n + 2]
        BY <1>2, <3>1
      <3> QED
        BY <1>1, <1>2, <2>0, <3>2
    <2> DEFINE d == SubSeq(c, 1, g)
    <2>2. /\ d \in Seq(Int) /\ Len(d) = g
          /\ \A i \in 1..g : d[i] = c[i] /\ c[i] \in Int
          /\ (x + Sum(d)) % 256 = 0
      BY <2>1, ClaimedSum
    <2> HIDE DEF d
    <2>3. /\ k \in 1..n /\ \A q \in 1..k - 1 : d[q] = m[q]
          /\ \A q \in k..n - 1 : d[q] = m[q + 1]
      <3>1. k \in 1..n
        BY <1>4
      <3>2. ASSUME NEW q \in 1..k - 1 PROVE d[q] = m[q]
        <4>1. q \in 1..g /\ q \in 1..n
          BY <1>4, <2>0
        <4> QED
          BY <1>1, <1>2, <2>2, <4>1
      <3>3. ASSUME NEW q \in k..n - 1 PROVE d[q] = m[q + 1]
        <4>1. q \in 1..g /\ q \in k..n + 1 /\ q + 1 \in 1..n
          BY <1>4, <2>0
        <4>2. d[q] = c[q] /\ c[q] = f[q + 1] /\ f[q + 1] = m[q + 1]
          BY <1>1, <1>2, <2>2, <4>1
        <4> QED
          BY <4>2
      <3> QED
        BY <3>1, <3>2, <3>3
    <2>4. m \in Seq(Int) /\ Latin \subseteq Int
      <3>1. Latin \subseteq Int
        BY DEF Latin
      <3> QED
        BY <1>1, <3>1, WiderType
    <2>5. Sum(d) = Sum(m) - m[k] /\ Sum(m) \in Int
      <3>1. Len(d) = Len(m) - 1 /\ k \in 1..Len(m)
        BY <1>1, <2>0, <2>2, <2>3
      <3> QED
        BY <1>1, <2>2, <2>3, <2>4, <3>1, SumLost, SumType
    <2>6. m[k] \in 48..70
      <3>1. k = 1 \/ k = 2
        BY <1>4
      <3> QED
        BY <1>1, <3>1
    <2>7. PICK e \in -255..255 : e # 0 /\ Sum(d) = Sum(m) + e
      <3>1. \A a \in 48..70 : -a \in -255..255 /\ -a # 0 /\ \A y \in Int : y - a = y + (-a)
        OBVIOUS
      <3> QED
        BY <2>5, <2>6, <3>1
    <2>8. (x + (Sum(m) + e)) % 256 # 0
      <3>1. Sum(m) \in Int /\ (x + Sum(m)) % 256 = 0
        BY <1>1, <2>5
      <3> QED
        BY <2>7, <3>1, OtherSum
    <2> QED
      BY <2>2, <2>7, <2>8
  <1> QED
    BY <1>2, <1>3, <1>4

-----------------------------------------------------------------------------
(* The stream with the line that comes next, and the places of its lines.   *)

(* The stream with the line that the panel says next.                       *)
NextLine(s, n) == IF n < Len(s) THEN Sent(s[n + 1], n + 1) ELSE <<>>
Ahead == Stream \o NextLine(script, said)

LEMMA NextLineType ==
  ASSUME NEW s, Len(s) \in Nat, \A i \in 1..Len(s) : Sayable(s[i]), NEW n \in 0..Len(s)
  PROVE  /\ NextLine(s, n) \in Seq(Tagged(n + 1)) /\ Len(NextLine(s, n)) \in Nat
         /\ \A j \in 1..Len(NextLine(s, n)) :
               NextLine(s, n)[j] = [code |-> Bytes(s[n + 1])[j], of |-> n + 1]
         /\ n < Len(s) => Sayable(s[n + 1]) /\ Len(NextLine(s, n)) = Len(Bytes(s[n + 1]))
         /\ ~(n < Len(s)) => Len(NextLine(s, n)) = 0
  <1>1. CASE n < Len(s)
    <2>1. n + 1 \in 1..Len(s) /\ n + 1 \in Nat \ {0}
      BY <1>1
    <2>2. Sayable(s[n + 1]) /\ NextLine(s, n) = Sent(s[n + 1], n + 1)
      BY <1>1, <2>1 DEF NextLine
    <2>3. Len(Bytes(s[n + 1])) \in Nat
      BY <2>2, LineType
    <2>4. /\ Sent(s[n + 1], n + 1) \in Seq(Tagged(n + 1))
          /\ Len(Sent(s[n + 1], n + 1)) = Len(Bytes(s[n + 1]))
          /\ \A j \in 1..Len(Bytes(s[n + 1])) :
                Sent(s[n + 1], n + 1)[j] = [code |-> Bytes(s[n + 1])[j], of |-> n + 1]
      BY <2>1, <2>2, SentType
    <2> QED
      BY <1>1, <2>2, <2>3, <2>4
  <1>2. CASE ~(n < Len(s))
    <2>1. NextLine(s, n) = <<>>
      BY <1>2 DEF NextLine
    <2>2. \A S : <<>> \in Seq(S)
      OBVIOUS
    <2>3. Len(<<>>) = 0
      OBVIOUS
    <2> QED
      BY <1>2, <2>1, <2>2, <2>3
  <1> QED
    BY <1>1, <1>2

LEMMA AheadIs ==
  ASSUME NEW s, Len(s) \in Nat, \A i \in 1..Len(s) : Sayable(s[i]), NEW n \in 0..Len(s),
         NEW t \in Seq(Tagged(n))
  PROVE  LET a == t \o NextLine(s, n)
         IN  /\ a \in Seq(Tagged(n + 1)) /\ a \in Seq(Element) /\ Len(t) \in Nat /\ Len(a) \in Nat
             /\ Len(a) = Len(t) + Len(NextLine(s, n))
             /\ \A j \in 1..Len(t) : a[j] = t[j]
             /\ \A j \in 1..Len(NextLine(s, n)) : a[Len(t) + j] = NextLine(s, n)[j]
             /\ \A j \in 1..Len(a) : /\ a[j] \in Tagged(n + 1) /\ a[j].of \in 1..n + 1
                                     /\ a[j].of \in Int /\ a[j].code \in Printed
  <1> DEFINE b == NextLine(s, n)
             a == t \o b
             S == Tagged(n + 1)
  <1>1. n \in Nat /\ n + 1 \in Nat /\ n + 1 \in n..n + 1
    OBVIOUS
  <1>2. t \in Seq(S) /\ b \in Seq(S) /\ Seq(S) \subseteq Seq(Element)
    BY <1>1, TaggedIsElement, NextLineType
  <1>3. \A x \in S : x.of \in 1..n + 1 /\ x.of \in Int /\ x.code \in Printed
    BY <1>1 DEF Tagged
  <1> HIDE DEF b, S
  <1>4. /\ a \in Seq(S) /\ Len(t) \in Nat /\ Len(b) \in Nat /\ Len(a) = Len(t) + Len(b)
        /\ \A j \in 1..Len(t) : a[j] = t[j]
        /\ \A j \in 1..Len(b) : a[Len(t) + j] = b[j]
    BY <1>2, Joined
  <1> HIDE DEF a
  <1>5. \A j \in 1..Len(a) : a[j] \in S
    BY <1>4
  <1>6. Len(a) \in Nat
    BY <1>4
  <1> QED
    BY <1>2, <1>3, <1>4, <1>5, <1>6 DEF a, b, S

-----------------------------------------------------------------------------
(* A line at its place, after p codes, with its end and that of the line    *)
(* before it; and a stream of such lines.                                   *)
Size(i) == Len(LineOf(script[i]))

LineAt(w, p, i) ==
    /\ Sayable(script[i]) /\ Size(i) \in Nat \ {0}
    /\ p \in Nat /\ p + Size(i) + 2 <= Len(w)
    /\ p # 0 => /\ p >= 2 /\ w[p - 1] = [code |-> CR, of |-> i - 1]
                /\ w[p] = [code |-> LF, of |-> i - 1]
    /\ \A j \in 1..Size(i) : /\ w[p + j] = [code |-> LineOf(script[i])[j], of |-> i]
                             /\ LineOf(script[i])[j] \notin {CR, LF}
    /\ w[p + Size(i) + 1] = [code |-> CR, of |-> i]
    /\ w[p + Size(i) + 2] = [code |-> LF, of |-> i]

OnLine(w, x, p) == LineAt(w, p, w[x].of) /\ p < x /\ x <= p + Size(w[x].of) + 2

Clean(w) ==
    /\ w \in Seq(Element) /\ Len(w) \in Nat
    /\ \A x \in 1..Len(w) : w[x].of \in Int /\ \E p \in Nat : OnLine(w, x, p)
    /\ \A x, y \in 1..Len(w) : x <= y => w[x].of <= w[y].of

LEMMA LineIsNotEmpty ==
  ASSUME NEW l, Sayable(l)
  PROVE  Len(LineOf(l)) \in Nat \ {0}
  <1>1. CASE l \in Texts
    BY <1>1 DEF LineOf, Texts
  <1>2. CASE l \notin Texts
    <2>1. LineOf(l) = Framed(l) /\ IsSpoken(l)
      BY <1>2 DEF LineOf, Sayable
    <2>2. PICK n \in 4..255 : Len(Framed(l)) = n + 2
      BY <2>1, SpokenBegins
    <2> QED
      BY <2>1, <2>2
  <1> QED
    BY <1>1, <1>2

LEMMA WholeIsAt ==
  ASSUME NEW w, Len(w) \in Nat, NEW i, Sayable(script[i]), NEW p, Whole(w, Bytes(script[i]), i, p)
  PROVE  LineAt(w, p, i) /\ Len(Bytes(script[i])) = Size(i) + 2
  <1> DEFINE l == script[i]
             b == Bytes(l)
  <1>1. Size(i) \in Nat \ {0}
    BY LineIsNotEmpty DEF Size
  <1>2. /\ Len(b) = Size(i) + 2
        /\ \A j \in 1..Size(i) : b[j] = LineOf(l)[j] /\ b[j] \notin {CR, LF}
        /\ b[Size(i) + 1] = CR /\ b[Size(i) + 2] = LF
    BY LineType DEF Size
  <1> DEFINE k == Size(i)
  <1> HIDE DEF b, l, k
  <1>3. /\ p \in 0..Len(w) /\ p + Len(b) <= Len(w)
        /\ p # 0 => /\ p >= 2 /\ w[p - 1] = [code |-> CR, of |-> i - 1]
                    /\ w[p] = [code |-> LF, of |-> i - 1]
        /\ \A j \in 1..Len(b) : w[p + j] = [code |-> b[j], of |-> i]
    BY DEF Whole, b, l
  <1>4. p \in Nat /\ p + k + 2 <= Len(w)
    BY <1>1, <1>2, <1>3 DEF k
  <1>5. /\ k \in Nat \ {0} /\ k + 1 \in 1..k + 2 /\ k + 2 \in 1..k + 2 /\ \A j \in 1..k : j \in 1..k + 2
        /\ p + (k + 1) = p + k + 1 /\ p + (k + 2) = p + k + 2
    BY <1>1, <1>4 DEF k
  <1>6. /\ \A j \in 1..k : w[p + j] = [code |-> b[j], of |-> i]
        /\ w[p + k + 1] = [code |-> b[k + 1], of |-> i]
        /\ w[p + k + 2] = [code |-> b[k + 2], of |-> i]
    <2>1. \A j \in 1..k + 2 : w[p + j] = [code |-> b[j], of |-> i]
      BY <1>2, <1>3 DEF k
    <2> QED
      BY <1>5, <2>1
  <1>7. /\ \A j \in 1..k : w[p + j] = [code |-> LineOf(l)[j], of |-> i] /\ LineOf(l)[j] \notin {CR, LF}
        /\ w[p + k + 1] = [code |-> CR, of |-> i]
        /\ w[p + k + 2] = [code |-> LF, of |-> i]
    BY <1>2, <1>6 DEF k
  <1> QED
    BY <1>1, <1>2, <1>3, <1>4, <1>7 DEF LineAt, k, l, b

LEMMA WholeExtends ==
  ASSUME NEW s, NEW w, NEW b, NEW i, NEW p, Whole(s, b, i, p), Len(s) \in Nat, Len(w) \in Nat,
         Len(b) \in Nat, Len(s) <= Len(w), \A j \in 1..Len(s) : w[j] = s[j]
  PROVE  Whole(w, b, i, p)
  <1>1. /\ p \in 0..Len(s) /\ p + Len(b) <= Len(s)
        /\ p # 0 => /\ p >= 2 /\ s[p - 1] = [code |-> CR, of |-> i - 1]
                    /\ s[p] = [code |-> LF, of |-> i - 1]
        /\ \A j \in 1..Len(b) : s[p + j] = [code |-> b[j], of |-> i]
    BY DEF Whole
  <1>2. p \in 0..Len(w) /\ p + Len(b) <= Len(w)
    BY <1>1
  <1>3. p # 0 => p - 1 \in 1..Len(s) /\ p \in 1..Len(s)
    BY <1>1
  <1>4. \A j \in 1..Len(b) : p + j \in 1..Len(s)
    BY <1>1
  <1> QED
    BY <1>1, <1>2, <1>3, <1>4 DEF Whole

(* While nothing was touched, the lines of the stream stand one after       *)
(* another.                                                                *)
LEMMA AheadOfType ==
  ASSUME TypeInv
  PROVE  /\ Ahead \in Seq(Element) /\ Len(Ahead) \in Nat /\ Len(Stream) \in Nat /\ said \in Nat
         /\ Ahead \in Seq(Tagged(said + 1))
         /\ Len(Ahead) = Len(Stream) + Len(NextLine(script, said))
         /\ Len(NextLine(script, said)) \in Nat
         /\ \A j \in 1..Len(Stream) : Ahead[j] = Stream[j]
         /\ \A j \in 1..Len(NextLine(script, said)) : Ahead[Len(Stream) + j] = NextLine(script, said)[j]
         /\ \A j \in 1..Len(Ahead) : Ahead[j].of \in Int /\ Ahead[j].of \in 1..said + 1 /\ Ahead[j].code \in Printed
  <1>1. Len(script) \in Nat /\ (\A i \in 1..Len(script) : Sayable(script[i])) /\ said \in 0..Len(script)
    BY DEF TypeInv
  <1>2. Stream \in Seq(Tagged(said)) /\ said \in Nat
    BY StreamType
  <1>3. Len(NextLine(script, said)) \in Nat
    BY <1>1, NextLineType
  <1> QED
    BY <1>1, <1>2, <1>3, AheadIs DEF Ahead

LEMMA RecordOf ==
  \A x, c, i : x = [code |-> c, of |-> i] => x.code = c /\ x.of = i
  OBVIOUS

(* A line end before the place of a line.                                   *)
EndedAt(s, i, p) ==
    p # 0 => /\ p >= 2 /\ s[p - 1] = [code |-> CR, of |-> i - 1]
             /\ s[p] = [code |-> LF, of |-> i - 1]

LEMMA WholeBegins ==
  ASSUME NEW s, NEW b, NEW i, NEW p, Whole(s, b, i, p)
  PROVE  EndedAt(s, i, p)
  BY DEF Whole, EndedAt

LEMMA NextLineIsAt ==
  ASSUME TypeInv, SoundInv, QuietInv, said < Len(script)
  PROVE  LineAt(Ahead, Len(Stream), said + 1) /\ Len(Ahead) = Len(Stream) + Size(said + 1) + 2
  <1> DEFINE n == said
             t == Stream
             w == Ahead
             b == Bytes(script[n + 1])
             u == NextLine(script, n)
  <1>1. /\ Len(w) \in Nat /\ Len(t) \in Nat /\ n \in Nat /\ Len(w) = Len(t) + Len(u)
        /\ \A j \in 1..Len(t) : w[j] = t[j]
        /\ \A j \in 1..Len(u) : w[Len(t) + j] = u[j]
    BY AheadOfType
  <1>2. Len(script) \in Nat /\ (\A i \in 1..Len(script) : Sayable(script[i])) /\ said \in 0..Len(script)
    BY DEF TypeInv
  <1>3. /\ Sayable(script[n + 1]) /\ Len(u) = Len(b) /\ Len(u) \in Nat
        /\ \A j \in 1..Len(u) : u[j] = [code |-> b[j], of |-> n + 1]
    BY <1>2, NextLineType
  <1>4. Whole(t, <<>>, n + 1, Len(t))
    BY DEF SoundInv, QuietInv
  <1>5. EndedAt(t, n + 1, Len(t))
    BY <1>4, WholeBegins
  <1> HIDE DEF n, t, w, b, u
  <1>6. Len(t) \in 0..Len(w) /\ Len(t) + Len(b) <= Len(w)
    BY <1>1, <1>3
  <1>7. Len(t) # 0 => /\ Len(t) >= 2 /\ w[Len(t) - 1] = [code |-> CR, of |-> n + 1 - 1]
                      /\ w[Len(t)] = [code |-> LF, of |-> n + 1 - 1]
    <2>1. Len(t) # 0 => Len(t) - 1 \in 1..Len(t) /\ Len(t) \in 1..Len(t)
      BY <1>1, <1>5 DEF EndedAt
    <2> QED
      BY <1>1, <1>5, <2>1 DEF EndedAt
  <1>8. Whole(w, b, n + 1, Len(t))
    BY <1>1, <1>3, <1>6, <1>7 DEF Whole
  <1>9. LineAt(w, Len(t), n + 1) /\ Len(b) = Size(n + 1) + 2
    BY <1>1, <1>3, <1>8, WholeIsAt DEF b
  <1>10. Size(n + 1) \in Nat
    BY <1>9 DEF LineAt
  <1>11. Len(w) = Len(t) + Size(n + 1) + 2
    BY <1>1, <1>3, <1>9, <1>10
  <1> QED
    BY <1>9, <1>11 DEF w, t, n

(* While nothing was touched, what is still to be read is such a stream.    *)
LEMMA AheadIsClean ==
  ASSUME TypeInv, SoundInv, QuietInv
  PROVE  Clean(Ahead)
  <1> DEFINE n == said
             t == Stream
             w == Ahead
             u == NextLine(script, n)
  <1>1. /\ w \in Seq(Element) /\ Len(w) \in Nat /\ Len(t) \in Nat /\ n \in Nat
        /\ Len(w) = Len(t) + Len(u) /\ Len(u) \in Nat
        /\ \A j \in 1..Len(t) : w[j] = t[j]
        /\ \A j \in 1..Len(u) : w[Len(t) + j] = u[j]
        /\ \A j \in 1..Len(w) : w[j].of \in Int
    BY AheadOfType
  <1>2. /\ \A q \in 1..Len(t) : t[q].of \in 1..n
    BY StreamType
  <1>3. /\ \A q \in 1..Len(t) : \E p \in 0..Len(t) : Covered(q, p)
        /\ \A q, r \in 1..Len(t) : q <= r => t[q].of <= t[r].of
    BY DEF QuietInv
  <1>4. Len(script) \in Nat /\ (\A i \in 1..Len(script) : Sayable(script[i])) /\ said \in 0..Len(script)
    BY DEF TypeInv
  <1>5. \A j \in 1..Len(u) : u[j].of = n + 1
    <2>1. \A j \in 1..Len(u) : u[j] = [code |-> Bytes(script[n + 1])[j], of |-> n + 1]
      BY <1>4, NextLineType
    <2> TAKE j \in 1..Len(u)
    <2>2. u[j] = [code |-> Bytes(script[n + 1])[j], of |-> n + 1]
      BY <2>1
    <2> HIDE DEF u, n
    <2>3. \A x, c, i : x = [code |-> c, of |-> i] => x.of = i
      BY RecordOf
    <2> QED
      BY <2>2, <2>3
  <1>6. Len(u) # 0 => said < Len(script)
    BY <1>4, NextLineType
  <1>7. \A q \in 1..Len(t) : \E p \in Nat : OnLine(w, q, p)
    <2> TAKE q \in 1..Len(t)
    <2>1. PICK p \in 0..Len(t) : Covered(q, p)
      BY <1>3
    <2> DEFINE i == t[q].of
               b == Bytes(script[i])
    <2>2. p < q /\ q <= p + Len(b) /\ Whole(t, b, i, p)
      BY <2>1 DEF Covered
    <2>3. i \in 1..said /\ Sayable(script[i]) /\ Len(b) \in Nat /\ w[q].of = i
      BY <1>1, <1>2, OfWhole
    <2>4. p \in Nat
      OBVIOUS
    <2> HIDE DEF i, b, t, w, u, n
    <2>5. Len(t) <= Len(w)
      BY <1>1
    <2>6. Whole(w, b, i, p)
      BY <1>1, <2>2, <2>3, <2>5, WholeExtends
    <2>7. LineAt(w, p, i) /\ Len(b) = Size(i) + 2
      BY <1>1, <2>3, <2>6, WholeIsAt DEF b
    <2>8. Size(i) \in Nat
      BY <2>7 DEF LineAt
    <2>9. q <= p + Size(i) + 2
      BY <2>2, <2>4, <2>7, <2>8
    <2> QED
      BY <2>2, <2>3, <2>4, <2>7, <2>9 DEF OnLine
  <1>8. \A j \in 1..Len(u) : OnLine(w, Len(t) + j, Len(t))
    <2> TAKE j \in 1..Len(u)
    <2>1. said < Len(script)
      BY <1>1, <1>6
    <2>2. LineAt(w, Len(t), n + 1) /\ Len(w) = Len(t) + Size(n + 1) + 2
      BY <2>1, NextLineIsAt
    <2>3. Size(n + 1) \in Nat
      BY <2>2 DEF LineAt
    <2> HIDE DEF t, w, u, n
    <2>4. w[Len(t) + j].of = n + 1
      BY <1>1, <1>5
    <2>5. Len(t) < Len(t) + j /\ Len(t) + j <= Len(t) + Size(n + 1) + 2
      BY <1>1, <2>2, <2>3
    <2> QED
      BY <2>2, <2>4, <2>5 DEF OnLine
  <1> HIDE DEF t, w, u, n
  <1>9. \A x \in 1..Len(w) : x \in 1..Len(t) \/ (x - Len(t) \in 1..Len(u) /\ x = Len(t) + (x - Len(t)))
    BY <1>1
  <1>10. \A x \in 1..Len(w) : w[x].of \in Int /\ \E p \in Nat : OnLine(w, x, p)
    BY <1>1, <1>7, <1>8, <1>9
  <1>11. \A x \in 1..Len(t) : w[x].of = t[x].of /\ w[x].of <= n
    BY <1>1, <1>2
  <1>12. \A x \in 1..Len(w) : x \notin 1..Len(t) => w[x].of = n + 1
    <2> TAKE x \in 1..Len(w)
    <2> HAVE x \notin 1..Len(t)
    <2>1. x - Len(t) \in 1..Len(u) /\ x = Len(t) + (x - Len(t))
      BY <1>9
    <2>2. w[Len(t) + (x - Len(t))] = u[x - Len(t)]
      BY <1>1, <2>1
    <2> QED
      BY <1>5, <2>1, <2>2
  <1>13. ASSUME NEW x \in 1..Len(w), NEW y \in 1..Len(w), x <= y
         PROVE  w[x].of <= w[y].of
    <2>1. CASE y \in 1..Len(t)
      <3>1. x \in 1..Len(t)
        BY <1>13, <2>1
      <3> QED
        BY <1>3, <1>11, <1>13, <2>1, <3>1
    <2>2. CASE y \notin 1..Len(t) /\ x \in 1..Len(t)
      <3>1. w[y].of = n + 1 /\ w[x].of <= n
        BY <1>11, <1>12, <2>2
      <3> QED
        BY <1>1, <3>1
    <2>3. CASE y \notin 1..Len(t) /\ x \notin 1..Len(t)
      <3>1. w[y].of = n + 1 /\ w[x].of = n + 1
        BY <1>12, <2>3
      <3> QED
        BY <1>1, <3>1
    <2> QED
      BY <2>1, <2>2, <2>3
  <1>14. Clean(w)
    BY <1>1, <1>10, <1>13 DEF Clean
  <1> QED
    BY <1>14 DEF w

Inside(w, x, p, i) == /\ x - p \in 1..Size(i) /\ w[x] = [code |-> LineOf(script[i])[x - p], of |-> i]
                      /\ w[x].code = LineOf(script[i])[x - p] /\ w[x].code \notin {CR, LF}
AtReturn(w, x, p, i) == x = p + Size(i) + 1 /\ w[x].code = CR /\ w[x].of = i
AtFeed(w, x, p, i) == x = p + Size(i) + 2 /\ w[x].code = LF /\ w[x].of = i

LEMMA PlaceOnLine ==
  ASSUME NEW w, NEW i, NEW p, LineAt(w, p, i), NEW x \in Int, p < x, x <= p + Size(i) + 2
  PROVE  Inside(w, x, p, i) \/ AtReturn(w, x, p, i) \/ AtFeed(w, x, p, i)
  <1>1. /\ Size(i) \in Nat \ {0} /\ p \in Nat
        /\ \A j \in 1..Size(i) : /\ w[p + j] = [code |-> LineOf(script[i])[j], of |-> i]
                                 /\ LineOf(script[i])[j] \notin {CR, LF}
        /\ w[p + Size(i) + 1] = [code |-> CR, of |-> i]
        /\ w[p + Size(i) + 2] = [code |-> LF, of |-> i]
    BY DEF LineAt
  <1> DEFINE k == Size(i)
  <1> HIDE DEF k
  <1>2. \A y, c, n : y = [code |-> c, of |-> n] => y.code = c /\ y.of = n
    BY RecordOf
  <1>3. CASE x - p \in 1..k
    <2>1. p + (x - p) = x
      BY <1>1
    <2>2. w[x] = [code |-> LineOf(script[i])[x - p], of |-> i] /\ LineOf(script[i])[x - p] \notin {CR, LF}
      BY <1>1, <1>3, <2>1 DEF k
    <2>3. w[x].code = LineOf(script[i])[x - p]
      BY <1>2, <2>2, Zenon
    <2> QED
      BY <1>3, <2>2, <2>3 DEF Inside, k
  <1>4. CASE x = p + k + 1
    <2>1. w[x] = [code |-> CR, of |-> i]
      BY <1>1, <1>4 DEF k
    <2> QED
      BY <1>2, <1>4, <2>1 DEF AtReturn, k
  <1>5. CASE x = p + k + 2
    <2>1. w[x] = [code |-> LF, of |-> i]
      BY <1>1, <1>5 DEF k
    <2> QED
      BY <1>2, <1>5, <2>1 DEF AtFeed, k
  <1>6. k \in Nat /\ p \in Nat /\ x <= p + k + 2
    BY <1>1 DEF k
  <1>7. x - p \in 1..k \/ x = p + k + 1 \/ x = p + k + 2
    BY <1>6
  <1> QED
    BY <1>3, <1>4, <1>5, <1>7

LEMMA ReturnAndFeed ==
  CR # LF /\ CR \in Latin /\ LF \in Latin
  BY DEF CR, LF, Latin

(* An end is the end of a line that stands there.                           *)
LEMMA CleanReturn ==
  ASSUME NEW w, Clean(w), NEW x \in 1..Len(w), w[x].code = CR
  PROVE  /\ x \in LineEnds(w) /\ w[x + 1].of = w[x].of
         /\ \E p \in Nat : LineAt(w, p, w[x].of) /\ x = p + Size(w[x].of) + 1
  <1> DEFINE i == w[x].of
  <1>1. PICK p \in Nat : LineAt(w, p, i) /\ p < x /\ x <= p + Size(i) + 2
    BY DEF Clean, OnLine
  <1>2. Inside(w, x, p, i) \/ AtReturn(w, x, p, i) \/ AtFeed(w, x, p, i)
    BY <1>1, PlaceOnLine
  <1>3. x = p + Size(i) + 1
    BY <1>2, ReturnAndFeed DEF Inside, AtReturn, AtFeed
  <1>4. Size(i) \in Nat /\ p + Size(i) + 2 <= Len(w) /\ w[p + Size(i) + 2] = [code |-> LF, of |-> i]
    BY <1>1 DEF LineAt
  <1>5. Len(w) \in Nat
    BY DEF Clean
  <1>6. x + 1 = p + Size(i) + 2 /\ x \in 1..Len(w) - 1
    BY <1>3, <1>4, <1>5
  <1>7. w[x + 1].code = LF /\ w[x + 1].of = i
    BY <1>4, <1>6
  <1>8. x \in LineEnds(w)
    BY <1>6, <1>7 DEF LineEnds
  <1> QED
    BY <1>1, <1>3, <1>7, <1>8

LEMMA CleanFeed ==
  ASSUME NEW w, Clean(w), NEW x \in 1..Len(w), w[x].code = LF
  PROVE  x >= 2 /\ x - 1 \in LineEnds(w) /\ w[x - 1].code = CR
  <1> DEFINE i == w[x].of
  <1>1. PICK p \in Nat : LineAt(w, p, i) /\ p < x /\ x <= p + Size(i) + 2
    BY DEF Clean, OnLine
  <1>2. Inside(w, x, p, i) \/ AtReturn(w, x, p, i) \/ AtFeed(w, x, p, i)
    BY <1>1, PlaceOnLine
  <1>3. x = p + Size(i) + 2
    BY <1>2, ReturnAndFeed DEF Inside, AtReturn, AtFeed
  <1>4. Size(i) \in Nat /\ w[p + Size(i) + 1] = [code |-> CR, of |-> i]
    BY <1>1 DEF LineAt
  <1>5. Len(w) \in Nat
    BY DEF Clean
  <1>6. x - 1 = p + Size(i) + 1 /\ x >= 2 /\ x - 1 \in 1..Len(w) - 1
    BY <1>3, <1>4, <1>5
  <1>7. w[x - 1].code = CR
    BY <1>4, <1>6
  <1>8. x - 1 + 1 = x
    OBVIOUS
  <1> QED
    BY <1>6, <1>7, <1>8 DEF LineEnds

LEMMA EndOfLineAt ==
  ASSUME NEW w, Len(w) \in Nat, NEW i, NEW p, LineAt(w, p, i)
  PROVE  /\ p + Size(i) + 1 \in LineEnds(w) /\ w[p + Size(i) + 1].of = i
         /\ p # 0 => p >= 2 /\ p - 1 \in LineEnds(w) /\ w[p - 1].of = i - 1 /\ w[p].of = i - 1
  <1>1. /\ Size(i) \in Nat \ {0} /\ p \in Nat /\ p + Size(i) + 2 <= Len(w)
        /\ p # 0 => /\ p >= 2 /\ w[p - 1] = [code |-> CR, of |-> i - 1]
                    /\ w[p] = [code |-> LF, of |-> i - 1]
        /\ w[p + Size(i) + 1] = [code |-> CR, of |-> i]
        /\ w[p + Size(i) + 2] = [code |-> LF, of |-> i]
    BY DEF LineAt
  <1> DEFINE k == Size(i)
  <1> HIDE DEF k
  <1>2. \A y, c, n : y = [code |-> c, of |-> n] => y.code = c /\ y.of = n
    BY RecordOf
  <1>3. /\ p + k + 1 \in 1..Len(w) - 1 /\ p + k + 1 + 1 = p + k + 2
    BY <1>1 DEF k
  <1>4. w[p + k + 1].code = CR /\ w[p + k + 1].of = i /\ w[p + k + 2].code = LF
    BY <1>1, <1>2 DEF k
  <1>5. p + k + 1 \in LineEnds(w)
    BY <1>3, <1>4 DEF LineEnds
  <1>6. ASSUME p # 0
        PROVE  p >= 2 /\ p - 1 \in LineEnds(w) /\ w[p - 1].of = i - 1 /\ w[p].of = i - 1
    <2>1. w[p - 1].code = CR /\ w[p - 1].of = i - 1 /\ w[p].code = LF /\ w[p].of = i - 1
      BY <1>1, <1>2, <1>6
    <2>2. p - 1 \in 1..Len(w) - 1 /\ p - 1 + 1 = p /\ p >= 2
      BY <1>1, <1>6
    <2> QED
      BY <2>1, <2>2 DEF LineEnds
  <1> QED
    BY <1>4, <1>5, <1>6 DEF k

LEMMA NoEndInLine ==
  ASSUME NEW w, NEW i, NEW p, LineAt(w, p, i), NEW j \in LineEnds(w), p <= j, j < p + Size(i) + 1
  PROVE  FALSE
  <1>1. p \in Nat /\ Size(i) \in Nat
    BY DEF LineAt
  <1>2. j \in Int /\ w[j].code = CR
    BY DEF LineEnds
  <1>3. CASE j = p
    <2>1. p # 0 /\ w[p] = [code |-> LF, of |-> i - 1]
      BY <1>3 DEF LineAt, LineEnds
    <2>2. w[p].code = LF
      BY <2>1
    <2> QED
      BY <1>2, <1>3, <2>2, ReturnAndFeed
  <1>4. CASE j # p
    <2>1. p < j /\ j <= p + Size(i) + 2
      BY <1>1, <1>2, <1>4
    <2>2. Inside(w, j, p, i) \/ AtReturn(w, j, p, i) \/ AtFeed(w, j, p, i)
      BY <1>2, <2>1, PlaceOnLine
    <2>3. AtReturn(w, j, p, i)
      BY <1>2, <2>2, ReturnAndFeed DEF Inside, AtFeed
    <2> QED
      BY <1>1, <1>2, <2>3 DEF AtReturn
  <1> QED
    BY <1>3, <1>4

(* After an end the next line begins.                                       *)
LEMMA EndsSeparate ==
  ASSUME NEW w, Clean(w), NEW j \in LineEnds(w), NEW x \in 1..j + 1, NEW y \in j + 2..Len(w)
  PROVE  w[x].of < w[y].of
  <1>1. /\ Len(w) \in Nat /\ \A q \in 1..Len(w) : w[q].of \in Int
        /\ \A q, r \in 1..Len(w) : q <= r => w[q].of <= w[r].of
    BY DEF Clean
  <1>2. j \in 1..Len(w) - 1 /\ w[j].code = CR
    BY DEF LineEnds
  <1>3. j \in 1..Len(w) /\ j + 1 \in 1..Len(w) /\ x \in 1..Len(w) /\ y \in 1..Len(w) /\ x <= j + 1 /\ j <= y
    BY <1>1, <1>2
  <1> DEFINE i == w[j].of
  <1>4. PICK p \in Nat : LineAt(w, p, i) /\ j = p + Size(i) + 1
    BY <1>2, <1>3, CleanReturn
  <1>5. w[j + 1].of = i
    BY <1>2, <1>3, CleanReturn
  <1>6. w[x].of <= i /\ i <= w[y].of
    BY <1>1, <1>3, <1>5
  <1>7. w[y].of # i
    <2> SUFFICES ASSUME w[y].of = i PROVE FALSE
      OBVIOUS
    <2>1. PICK r \in Nat : LineAt(w, r, i) /\ r < y /\ y <= r + Size(i) + 2
      BY <1>3 DEF Clean, OnLine
    <2> DEFINE k == Size(i)
    <2>2. k \in Nat \ {0}
      BY <1>4 DEF LineAt
    <2> HIDE DEF k
    <2>3. r > p /\ r # 0 /\ p + 1 <= r /\ r \in 1..Len(w) /\ p + 1 \in 1..Len(w)
      <3>1. y >= j + 2 /\ y <= Len(w) /\ y \in Int /\ j = p + k + 1 /\ r < y /\ y <= r + k + 2
        BY <1>1, <1>3, <1>4, <2>1 DEF k
      <3>2. Len(w) \in Nat /\ p \in Nat /\ r \in Nat /\ k \in Nat
        BY <1>1, <1>4, <2>1, <2>2
      <3> QED
        BY <3>1, <3>2
    <2>4. w[r].of = i - 1
      BY <1>1, <2>1, <2>3, EndOfLineAt
    <2>5. w[p + 1].of = i
      <3>1. 1 \in 1..k
        BY <2>2
      <3>2. w[p + 1] = [code |-> LineOf(script[i])[1], of |-> i]
        BY <1>4, <3>1 DEF LineAt, k
      <3> QED
        BY <3>2, RecordOf
    <2>6. w[p + 1].of <= w[r].of /\ i \in Int
      BY <1>1, <1>3, <2>3
    <2> QED
      BY <2>4, <2>5, <2>6
  <1> QED
    BY <1>1, <1>3, <1>6, <1>7

-----------------------------------------------------------------------------
(* What a stream may mean, and what can happen to one.                      *)

(* From after an end, or the beginning, to the next end; what such a part   *)
(* means, if it means something, is what one of its lines means; and an end *)
(* is between two lines, whatever they are.                                 *)
Between(w, p, q) ==
    /\ p \in 0..Len(w) /\ q \in LineEnds(w) /\ p < q
    /\ p # 0 => p - 1 \in LineEnds(w)
    /\ \A j \in LineEnds(w) : ~(p <= j /\ j < q)

PartIsSaid(w, p, q) ==
    \A v \in Decode(Codes(SubSeq(w, p + 1, q - 1))) :
        v.event # "unknown" => \E x \in p + 1..q : v \in Meaning(script[w[x].of])

Separated(w) == \A q \in LineEnds(w) : \A x \in 1..q + 1, y \in q + 2..Len(w) : w[x].of < w[y].of
PartsAreSaid(w) == \A p, q : Between(w, p, q) => PartIsSaid(w, p, q)
Fine(w) == Separated(w) /\ PartsAreSaid(w)

(* After a codes s are gone, or (d = 1) the one there is another.           *)
Damaged(w, v, a, s, d) ==
    /\ a \in Nat /\ s \in Nat /\ d \in {0, 1} /\ Len(w) \in Nat
    /\ v \in Seq(Element) /\ Len(v) \in Nat /\ Len(v) + s = Len(w) /\ a + d <= Len(v)
    /\ \A x \in 1..a : v[x] = w[x]
    /\ \A x \in 1..Len(v), y \in 1..Len(w) : x > a + d /\ y = x + s => v[x] = w[y]
    /\ d = 1 => /\ s = 0 /\ v[a + 1].of = w[a + 1].of /\ v[a + 1].code \in Latin
                /\ v[a + 1].code # w[a + 1].code
    /\ d = 0 => a = 0 \/ s = 1

Origin(a, s, x) == IF x <= a THEN x ELSE x + s

(* The place where a code of what is left was before.                       *)
LEMMA OriginMoves ==
  ASSUME NEW a \in Nat, NEW s \in Nat
  PROVE  /\ \A x \in Int : Origin(a, s, x) \in Int /\ (x # a => Origin(a, s, x + 1) = Origin(a, s, x) + 1)
         /\ \A x, y \in Int : x < y => Origin(a, s, x) < Origin(a, s, y)
         /\ \A x \in Int : x <= a => Origin(a, s, x) = x
         /\ \A x \in Int : x > a => Origin(a, s, x) = x + s
         /\ s = 0 => \A x \in Int : Origin(a, s, x) = x
  <1> DEFINE f(x) == Origin(a, s, x)
  <1>1. \A x \in Int : (x <= a => f(x) = x) /\ (~(x <= a) => f(x) = x + s)
    BY DEF Origin
  <1> HIDE DEF f
  <1>2. \A x \in Int : (x <= a => f(x) = x) /\ (x > a => f(x) = x + s)
    BY <1>1
  <1>3. ASSUME NEW x \in Int PROVE f(x) \in Int /\ (x # a => f(x + 1) = f(x) + 1)
    <2>1. x + 1 \in Int
      OBVIOUS
    <2>2. /\ x <= a => f(x) = x
          /\ x > a => f(x) = x + s
          /\ x + 1 <= a => f(x + 1) = x + 1
          /\ x + 1 > a => f(x + 1) = x + 1 + s
      BY <1>2, <2>1
    <2> QED
      BY <2>2
  <1>4. ASSUME NEW x \in Int, NEW y \in Int, x < y PROVE f(x) < f(y)
    <2>1. /\ x <= a => f(x) = x
          /\ x > a => f(x) = x + s
          /\ y <= a => f(y) = y
          /\ y > a => f(y) = y + s
      BY <1>2
    <2> QED
      BY <1>4, <2>1
  <1>5. s = 0 => \A x \in Int : f(x) = x
    BY <1>2
  <1> QED
    BY <1>2, <1>3, <1>4, <1>5 DEF f

LEMMA OriginIs ==
  ASSUME NEW w, NEW v, NEW a, NEW s, NEW d, Damaged(w, v, a, s, d), NEW x \in 1..Len(v)
  PROVE  /\ Origin(a, s, x) \in 1..Len(w)
         /\ v[x].of = w[Origin(a, s, x)].of
         /\ ~(d = 1 /\ x = a + 1) => v[x] = w[Origin(a, s, x)]
  <1> DEFINE z == Origin(a, s, x)
  <1>1. /\ a \in Nat /\ s \in Nat /\ d \in {0, 1} /\ Len(w) \in Nat
        /\ Len(v) \in Nat /\ Len(v) + s = Len(w)
    BY DEF Damaged
  <1>2. /\ \A q \in 1..a : v[q] = w[q]
        /\ \A q \in 1..Len(v), y \in 1..Len(w) : q > a + d /\ y = q + s => v[q] = w[y]
        /\ d = 1 => s = 0 /\ v[a + 1].of = w[a + 1].of
    BY DEF Damaged
  <1>3. x \in Int /\ (x <= a => z = x) /\ (x > a => z = x + s)
    <2>1. a \in Nat /\ s \in Nat
      BY <1>1
    <2>2. \A y \in Int : (y <= a => Origin(a, s, y) = y) /\ (y > a => Origin(a, s, y) = y + s)
      BY <2>1, OriginMoves
    <2> QED
      BY <2>2
  <1> HIDE DEF z
  <1>4. z \in 1..Len(w)
    BY <1>1, <1>3
  <1>5. CASE x <= a
    <2>1. z = x /\ x \in 1..a
      BY <1>1, <1>3, <1>5
    <2> QED
      BY <1>2, <1>4, <2>1 DEF z
  <1>6. CASE x > a + d
    <2>1. z = x + s
      BY <1>1, <1>3, <1>6
    <2>2. v[x] = w[z]
      BY <1>2, <1>4, <1>6, <2>1
    <2> QED
      BY <1>4, <2>2 DEF z
  <1>7. CASE d = 1 /\ x = a + 1
    <2>1. z = x /\ x = a + 1
      BY <1>1, <1>2, <1>3, <1>7
    <2>2. v[x].of = w[z].of
      BY <1>2, <1>7, <2>1
    <2> QED
      BY <1>4, <1>7, <2>2 DEF z
  <1>8. x <= a \/ x > a + d \/ (d = 1 /\ x = a + 1)
    BY <1>1, <1>3
  <1> QED
    BY <1>5, <1>6, <1>7, <1>8

(* Damage makes no line end.                                                *)
LEMMA EndsRemain ==
  ASSUME NEW w, Clean(w), NEW v, NEW a, NEW s, NEW d, Damaged(w, v, a, s, d), NEW j \in LineEnds(v)
  PROVE  /\ j \in Int /\ j # a /\ (j + 1 <= a \/ j > a + d)
         /\ Origin(a, s, j) \in LineEnds(w)
  <1> DEFINE f(x) == Origin(a, s, x)
  <1>1. /\ a \in Nat /\ s \in Nat /\ d \in {0, 1} /\ Len(w) \in Nat
        /\ Len(v) \in Nat /\ Len(v) + s = Len(w)
        /\ d = 1 => s = 0 /\ v[a + 1].code # w[a + 1].code
        /\ d = 0 => a = 0 \/ s = 1
    BY DEF Damaged
  <1>2. j \in 1..Len(v) - 1 /\ v[j].code = CR /\ v[j + 1].code = LF
    BY DEF LineEnds
  <1>3. j \in Int /\ j + 1 \in Int /\ j \in 1..Len(v) /\ j + 1 \in 1..Len(v)
    BY <1>1, <1>2
  <1>4. \A x \in 1..Len(w) : w[x].code = CR => x \in 1..Len(w) - 1 /\ w[x + 1].code = LF
    BY CleanReturn DEF LineEnds
  <1>5. \A x \in 1..Len(w) : w[x].code = LF => x >= 2 /\ w[x - 1].code = CR
    BY CleanFeed
  <1>6. /\ \A x \in 1..Len(v) : f(x) \in 1..Len(w) /\ (~(d = 1 /\ x = a + 1) => v[x] = w[f(x)])
    BY OriginIs
  <1>7. \A x \in Int : (x <= a => f(x) = x) /\ (x > a => f(x) = x + s) /\ (x # a => f(x + 1) = f(x) + 1)
    <2>1. a \in Nat /\ s \in Nat
      BY <1>1
    <2> QED
      BY <2>1, OriginMoves
  <1> HIDE DEF f
  <1>8. CR # LF
    BY ReturnAndFeed
  <1>9. f(j) \in 1..Len(w) /\ f(j + 1) \in 1..Len(w)
    BY <1>3, <1>6
  <1>10. ~(d = 1 /\ j = a + 1)
    <2> SUFFICES ASSUME d = 1, j = a + 1 PROVE FALSE
      OBVIOUS
    <2>1. f(j) = j /\ f(j + 1) = j + 1 /\ j # a
      BY <1>1, <1>3, <1>7
    <2>2. j + 1 # a + 1
      BY <1>1
    <2>3. w[j + 1].code = LF
      BY <1>2, <1>3, <1>6, <2>1, <2>2
    <2>4. w[j + 1 - 1].code = CR
      BY <1>5, <1>9, <2>1, <2>3
    <2>5. j + 1 - 1 = j
      BY <1>3
    <2> QED
      BY <1>1, <1>2, <2>4, <2>5
  <1>11. v[j] = w[f(j)] /\ w[f(j)].code = CR
    BY <1>2, <1>3, <1>6, <1>10
  <1>12. w[f(j) + 1].code = LF /\ f(j) \in 1..Len(w) - 1
    BY <1>4, <1>9, <1>11
  <1>13. j # a
    <2> SUFFICES ASSUME j = a PROVE FALSE
      OBVIOUS
    <2>1. f(j) = j /\ f(j + 1) = j + 1 + s
      <3>1. j <= a /\ j + 1 > a
        BY <1>3
      <3> QED
        BY <1>3, <1>7, <3>1
    <2>2. CASE d = 1
      <3>1. j + 1 = a + 1 /\ w[a + 1].code = LF /\ v[a + 1].code = LF
        BY <1>2, <1>12, <2>1
      <3> QED
        BY <1>1, <2>2, <3>1
    <2>3. CASE d = 0
      <3>1. s = 1
        BY <1>1, <1>2, <2>3
      <3>2. v[j + 1] = w[j + 2] /\ j + 2 \in 1..Len(w)
        BY <1>1, <1>3, <1>6, <1>9, <2>1, <2>3, <3>1
      <3>3. w[j + 2 - 1].code = CR
        BY <1>2, <1>5, <3>2
      <3>4. j + 2 - 1 = j + 1
        BY <1>3
      <3> QED
        BY <1>8, <1>12, <2>1, <3>3, <3>4
    <2> QED
      BY <1>1, <2>2, <2>3
  <1>14. j + 1 <= a \/ j > a + d
    BY <1>1, <1>3, <1>10, <1>13
  <1>15. f(j) \in LineEnds(w)
    BY <1>11, <1>12 DEF LineEnds
  <1> QED
    BY <1>3, <1>13, <1>14, <1>15 DEF f

LEMMA EndsStay ==
  ASSUME NEW w, NEW v, NEW a, NEW s, NEW d, Damaged(w, v, a, s, d), NEW j \in LineEnds(w)
  PROVE  /\ j + 1 <= a => j \in LineEnds(v)
         /\ j > a + d + s => j - s \in LineEnds(v)
  <1>1. /\ a \in Nat /\ s \in Nat /\ d \in {0, 1} /\ Len(w) \in Nat
        /\ Len(v) \in Nat /\ Len(v) + s = Len(w)  /\ a + d <= Len(v)
    BY DEF Damaged
  <1>2. /\ \A x \in 1..a : v[x] = w[x]
        /\ \A x \in 1..Len(v), y \in 1..Len(w) : x > a + d /\ y = x + s => v[x] = w[y]
    BY DEF Damaged
  <1>3. j \in 1..Len(w) - 1 /\ w[j].code = CR /\ w[j + 1].code = LF
    BY DEF LineEnds
  <1>4. ASSUME j + 1 <= a PROVE j \in LineEnds(v)
    <2>1. v[j] = w[j] /\ v[j + 1] = w[j + 1] /\ j \in 1..Len(v) - 1
      BY <1>1, <1>2, <1>3, <1>4
    <2> QED
      BY <1>3, <2>1 DEF LineEnds
  <1>5. ASSUME j > a + d + s PROVE j - s \in LineEnds(v)
    <2> DEFINE y == j - s
    <2>1. /\ y \in 1..Len(v) /\ y + 1 \in 1..Len(v) /\ y > a + d /\ y + 1 > a + d
          /\ j = y + s /\ j + 1 = y + 1 + s /\ y \in 1..Len(v) - 1
          /\ j \in 1..Len(w) /\ j + 1 \in 1..Len(w)
      BY <1>1, <1>3, <1>5
    <2> HIDE DEF y
    <2>2. v[y] = w[j]
      BY <1>2, <2>1
    <2>3. v[y + 1] = w[j + 1]
      BY <1>2, <2>1
    <2> QED
      BY <1>3, <2>1, <2>2, <2>3 DEF LineEnds, y
  <1> QED
    BY <1>4, <1>5

(* Nothing that happens once puts an end inside a line.                     *)
LEMMA StaysSeparated ==
  ASSUME NEW w, Clean(w), NEW v, NEW a, NEW s, NEW d, Damaged(w, v, a, s, d)
  PROVE  Separated(v)
  <1> SUFFICES ASSUME NEW q \in LineEnds(v), NEW x \in 1..q + 1, NEW y \in q + 2..Len(v)
               PROVE  v[x].of < v[y].of
    BY DEF Separated
  <1> DEFINE f(z) == Origin(a, s, z)
  <1>1. f(q) \in LineEnds(w) /\ q # a
    BY EndsRemain
  <1>2. q \in 1..Len(v) - 1 /\ Len(v) \in Nat /\ a \in Nat /\ s \in Nat
    BY DEF LineEnds, Damaged
  <1>3. \A z \in 1..Len(v) : f(z) \in 1..Len(w) /\ v[z].of = w[f(z)].of
    BY OriginIs
  <1>4. /\ \A z, u \in Int : z < u => f(z) < f(u)
        /\ \A z \in Int : f(z) \in Int /\ (z # a => f(z + 1) = f(z) + 1)
    BY <1>2, OriginMoves
  <1> HIDE DEF f
  <1>5. x \in 1..Len(v) /\ y \in 1..Len(v) /\ x \in Int /\ y \in Int /\ q \in Int /\ q + 1 \in Int
    BY <1>2
  <1>6. f(q) \in Int /\ f(q + 1) \in Int /\ f(x) \in Int /\ f(q + 1) = f(q) + 1
    BY <1>1, <1>4, <1>5
  <1>7. f(q + 1) < f(y)
    <2>1. q + 1 < y
      BY <1>5
    <2> QED
      BY <1>4, <1>5, <2>1
  <1>8. f(x) <= f(q + 1)
    <2>1. x = q + 1 \/ x < q + 1
      BY <1>5
    <2>2. x < q + 1 => f(x) < f(q + 1)
      BY <1>4, <1>5
    <2> QED
      BY <1>6, <2>1, <2>2
  <1>9. Len(w) \in Nat
    BY DEF Clean
  <1>10. f(x) \in 1..Len(w) /\ f(y) \in 1..Len(w)
    BY <1>3, <1>5
  <1>11. f(x) \in 1..f(q) + 1 /\ f(y) \in f(q) + 2..Len(w)
    BY <1>6, <1>7, <1>8, <1>9, <1>10
  <1>12. w[f(x)].of < w[f(y)].of
    BY <1>1, <1>11, EndsSeparate
  <1> QED
    BY <1>3, <1>5, <1>12

-----------------------------------------------------------------------------
(* A part of a damaged stream: a line nothing happened to, one without its  *)
(* end, one with a code that was lost or replaced, or what a session begins *)
(* with.                                                                    *)

(* A text that is found anywhere was said.                                  *)
TextsAreTrue(w) ==
    \A x \in 1..Len(w) : w[x].code \in {Granted, Refused} => Login(w[x].code) \in Meaning(script[w[x].of])

LEMMA TextsMean ==
  ASSUME NEW t \in {Granted, Refused}, <<t>> \in Texts
  PROVE  Login(t) \in Meaning(<<t>>)
  <1>1. Granted # Prompt /\ Refused # Prompt
    BY DEF Granted, Refused, Prompt
  <1>2. <<t>>[1] = t
    OBVIOUS
  <1>3. Meaning(<<t>>) = {Login(t)} \ {Login(Prompt)}
    BY <1>2 DEF Meaning
  <1>4. Login(t) # Login(Prompt)
    <2>1. Login(t).data = <<t>> /\ Login(Prompt).data = <<Prompt>>
      BY DEF Login
    <2>2. <<t>>[1] # <<Prompt>>[1]
      BY <1>1
    <2> QED
      BY <2>1, <2>2
  <1> QED
    BY <1>3, <1>4

LEMMA CleanTexts ==
  ASSUME NEW w, Clean(w)
  PROVE  TextsAreTrue(w)
  <1> SUFFICES ASSUME NEW x \in 1..Len(w), w[x].code \in {Granted, Refused}
               PROVE  Login(w[x].code) \in Meaning(script[w[x].of])
    BY DEF TextsAreTrue
  <1> DEFINE i == w[x].of
             l == script[i]
             t == w[x].code
  <1>1. PICK p \in Nat : LineAt(w, p, i) /\ p < x /\ x <= p + Size(i) + 2
    BY DEF Clean, OnLine
  <1>2. Inside(w, x, p, i) \/ AtReturn(w, x, p, i) \/ AtFeed(w, x, p, i)
    BY <1>1, PlaceOnLine
  <1>3. t > 255 /\ t \in Int
    BY NoText
  <1>4. CR <= 255 /\ LF <= 255
    BY DEF CR, LF
  <1>5. Inside(w, x, p, i)
    BY <1>2, <1>3, <1>4 DEF AtReturn, AtFeed
  <1>6. x - p \in 1..Size(i) /\ t = LineOf(l)[x - p] /\ Sayable(l)
    BY <1>1, <1>5 DEF Inside, LineAt
  <1> HIDE DEF i, l, t
  <1>7. l \in Texts
    <2> SUFFICES ASSUME l \notin Texts PROVE FALSE
      OBVIOUS
    <2>1. LineOf(l) = Framed(l) /\ IsSpoken(l)
      BY <1>6 DEF LineOf, Sayable
    <2>2. Framed(l) \in Seq(Plain)
      BY <2>1, SpokenBegins
    <2>3. x - p \in 1..Len(Framed(l))
      BY <1>6, <2>1 DEF Size, l
    <2>4. t \in Plain
      BY <1>6, <2>1, <2>2, <2>3
    <2> QED
      BY <1>3, <2>4 DEF Plain, Latin
  <1>8. \E u \in {Prompt, Granted, Refused} : l = <<u>>
    BY <1>7 DEF Texts
  <1>9. PICK u \in {Prompt, Granted, Refused} : l = <<u>>
    BY <1>8
  <1>10. LineOf(l) = <<u>> /\ Size(i) = 1
    <2>1. LineOf(l) = <<u>>
      BY <1>7, <1>9 DEF LineOf
    <2>2. Len(<<u>>) = 1
      OBVIOUS
    <2> QED
      BY <2>1, <2>2 DEF Size, l
  <1>11. x - p = 1
    BY <1>6, <1>10
  <1>12. t = u
    BY <1>6, <1>10, <1>11
  <1>13. t \in {Granted, Refused}
    BY DEF t
  <1>14. Login(t) \in Meaning(l)
    BY <1>7, <1>9, <1>12, <1>13, TextsMean
  <1> QED
    BY <1>14 DEF i, l, t

LEMMA DamagedTexts ==
  ASSUME NEW w, Clean(w), NEW v, NEW a, NEW s, NEW d, Damaged(w, v, a, s, d)
  PROVE  TextsAreTrue(v)
  <1> SUFFICES ASSUME NEW x \in 1..Len(v), v[x].code \in {Granted, Refused}
               PROVE  Login(v[x].code) \in Meaning(script[v[x].of])
    BY DEF TextsAreTrue
  <1>1. TextsAreTrue(w)
    BY CleanTexts
  <1>2. ~(d = 1 /\ x = a + 1)
    <2> SUFFICES ASSUME d = 1, x = a + 1 PROVE FALSE
      OBVIOUS
    <2>1. \A u \in {Granted, Refused} : u \notin 0..255
      BY DEF Granted, Refused
    <2>2. v[a + 1].code \in Latin
      BY DEF Damaged
    <2> QED
      BY <2>1, <2>2 DEF Latin
  <1>3. Origin(a, s, x) \in 1..Len(w) /\ v[x] = w[Origin(a, s, x)]
    BY <1>2, OriginIs
  <1> QED
    BY <1>1, <1>3 DEF TextsAreTrue

(* The codes of a part, one by one.                                        *)
PartHas(v, p, q, c) ==
    c \in Seq(Printed) /\ Len(c) = q - 1 - p /\ \A y \in 1..q - 1 - p : c[y] = v[p + y].code

LEMMA PartCodes ==
  ASSUME NEW v \in Seq(Element), NEW p \in Nat, NEW q \in LineEnds(v), p < q
  PROVE  PartHas(v, p, q, Codes(SubSeq(v, p + 1, q - 1)))
  <1>1. q \in 1..Len(v) - 1 /\ Len(v) \in Nat
    BY DEF LineEnds
  <1>2. PICK k \in Nat : k = q - 1 - p /\ p + k + 1 = q
    BY <1>1
  <1> DEFINE c == [j \in 1..k |-> v[p + j].code]
  <1>3. \A j \in 1..k : v[p + j].code \in Printed
    <2> TAKE j \in 1..k
    <2>1. p + j \in 1..Len(v)
      BY <1>1, <1>2
    <2>2. v[p + j] \in Element
      BY <2>1
    <2> QED
      BY <2>2 DEF Element, Printed
  <1>4. c \in Seq(Printed) /\ Len(c) = k /\ \A j \in 1..k : c[j] = v[p + j].code
    BY <1>2, <1>3
  <1> HIDE DEF c
  <1>5. p + Len(c) <= Len(v)
    BY <1>1, <1>2, <1>4
  <1>6. Codes(SubSeq(v, p + 1, p + Len(c))) = c
    BY <1>4, <1>5, CodesOfPart
  <1>7. p + Len(c) = q - 1
    BY <1>1, <1>2, <1>4
  <1>8. Codes(SubSeq(v, p + 1, q - 1)) = c
    BY <1>6, <1>7
  <1> QED
    BY <1>2, <1>4, <1>8 DEF PartHas

LEMMA InvalidIsSaid ==
  ASSUME NEW v \in Seq(Element), TextsAreTrue(v), NEW p, NEW q, Between(v, p, q),
         ~IsValid(Codes(SubSeq(v, p + 1, q - 1)))
  PROVE  PartIsSaid(v, p, q)
  <1> DEFINE c == Codes(SubSeq(v, p + 1, q - 1))
  <1>1. p \in Nat /\ q \in LineEnds(v) /\ p < q
    BY DEF Between
  <1>2. q \in 1..Len(v) - 1 /\ Len(v) \in Nat
    BY <1>1 DEF LineEnds
  <1>3. PartHas(v, p, q, c)
    BY <1>1, PartCodes
  <1>4. c \in Seq(Printed) /\ Len(c) = q - 1 - p /\ \A y \in 1..q - 1 - p : c[y] = v[p + y].code
    BY <1>3 DEF PartHas
  <1>5. ~IsValid(c)
    OBVIOUS
  <1> HIDE DEF c
  <1>6. ASSUME NEW u \in Decode(c)
        PROVE  \E x \in p + 1..q : u \in Meaning(script[v[x].of])
    <2>1. PICK j \in 1..Len(c) : c[j] \in {Granted, Refused} /\ u = Login(c[j])
      BY <1>4, <1>5, InvalidIsText
    <2>2. j \in 1..q - 1 - p /\ p + j \in 1..Len(v) /\ p + j \in p + 1..q
      BY <1>1, <1>2, <1>4
    <2>3. c[j] = v[p + j].code
      BY <1>4, <2>2
    <2>4. Login(v[p + j].code) \in Meaning(script[v[p + j].of])
      BY <2>1, <2>2, <2>3 DEF TextsAreTrue
    <2> QED
      BY <2>1, <2>2, <2>3, <2>4
  <1> QED
    BY <1>6 DEF PartIsSaid, c

LEMMA MeantIsSaid ==
  ASSUME NEW v, NEW p, NEW q, Decode(Codes(SubSeq(v, p + 1, q - 1))) \subseteq Meaning(script[v[q].of]),
         q \in Int, p \in Int, p < q
  PROVE  PartIsSaid(v, p, q)
  <1>1. q \in p + 1..q
    OBVIOUS
  <1> QED
    BY <1>1 DEF PartIsSaid

LEMMA BetweenIsOne ==
  ASSUME NEW v, NEW p, NEW r, NEW q, Between(v, p, q), Between(v, r, q)
  PROVE  p = r
  <1>1. /\ p \in Int /\ r \in Int /\ p < q /\ r < q
        /\ p # 0 => p - 1 \in LineEnds(v)
        /\ r # 0 => r - 1 \in LineEnds(v)
        /\ \A j \in LineEnds(v) : ~(p <= j /\ j < q) /\ ~(r <= j /\ j < q)
    BY DEF Between
  <1>2. p >= 0 /\ r >= 0 /\ q \in Int
    BY DEF Between, LineEnds
  <1>3. ~(p < r)
    <2> SUFFICES ASSUME p < r PROVE FALSE
      OBVIOUS
    <2>1. r # 0 /\ p <= r - 1 /\ r - 1 < q
      BY <1>1, <1>2
    <2> QED
      BY <1>1, <2>1
  <1>4. ~(r < p)
    <2> SUFFICES ASSUME r < p PROVE FALSE
      OBVIOUS
    <2>1. p # 0 /\ r <= p - 1 /\ p - 1 < q
      BY <1>1, <1>2
    <2> QED
      BY <1>1, <2>1
  <1> QED
    BY <1>1, <1>3, <1>4

LEMMA BetweenHere ==
  ASSUME NEW w, Clean(w), NEW v, NEW a, NEW s, NEW d, Damaged(w, v, a, s, d),
         NEW q \in LineEnds(v), NEW p, NEW i, LineAt(w, p, i), Origin(a, s, q) = p + Size(i) + 1,
         NEW r \in Nat, r < q, r # 0 => r - 1 \in LineEnds(v),
         \A j \in LineEnds(v) : r <= j => p <= Origin(a, s, j),
         NEW t, Between(v, t, q)
  PROVE  t = r
  <1>1. \A j \in LineEnds(v) : j \in Int /\ Origin(a, s, j) \in LineEnds(w)
    BY EndsRemain
  <1>2. a \in Nat /\ s \in Nat
    BY DEF Damaged
  <1>3. \A x, y \in Int : x < y => Origin(a, s, x) < Origin(a, s, y)
    BY <1>2, OriginMoves
  <1>4. ASSUME NEW j \in LineEnds(v), r <= j, j < q PROVE FALSE
    <2>1. j \in Int /\ q \in Int
      BY <1>1
    <2>2. Origin(a, s, j) < p + Size(i) + 1
      BY <1>3, <1>4, <2>1
    <2>3. p <= Origin(a, s, j) /\ Origin(a, s, j) \in LineEnds(w)
      BY <1>1, <1>4
    <2> QED
      BY <2>2, <2>3, NoEndInLine
  <1>5. q \in 1..Len(v) - 1 /\ Len(v) \in Nat
    BY DEF LineEnds, Damaged
  <1>6. r \in 0..Len(v)
    BY <1>5
  <1>7. Between(v, r, q)
    BY <1>4, <1>6 DEF Between
  <1> QED
    BY <1>7, BetweenIsOne

(* A part of what is left, from t to q, and the line that its end ended.    *)
EndsLine(w, v, a, s, d, t, q, p, i) ==
    /\ Clean(w) /\ Damaged(w, v, a, s, d) /\ Between(v, t, q)
    /\ LineAt(w, p, i) /\ Origin(a, s, q) = p + Size(i) + 1

LEMMA EndsLineIs ==
  ASSUME NEW w, NEW v, NEW a, NEW s, NEW d, NEW t, NEW q, NEW p, NEW i, EndsLine(w, v, a, s, d, t, q, p, i)
  PROVE  /\ a \in Nat /\ s \in Nat /\ d \in {0, 1} /\ (d = 1 => s = 0) /\ (d = 0 => a = 0 \/ s = 1)
         /\ p \in Nat /\ Size(i) \in Nat \ {0} /\ Sayable(script[i]) /\ v \in Seq(Element)
         /\ q \in LineEnds(v) /\ q \in Nat /\ q + 1 <= Len(v) /\ Len(v) + s = Len(w) /\ Len(w) \in Nat /\ Len(v) \in Nat
         /\ v[q].of = i
         /\ (q + 1 <= a /\ q = p + Size(i) + 1) \/ (q > a + d /\ q + s = p + Size(i) + 1)
         /\ t \in Nat /\ t < q /\ p + Size(i) + 2 <= Len(w)
         /\ p # 0 => p >= 2 /\ p - 1 \in LineEnds(w)
  <1>1. Clean(w) /\ Damaged(w, v, a, s, d) /\ Between(v, t, q) /\ LineAt(w, p, i) /\ Origin(a, s, q) = p + Size(i) + 1
    BY DEF EndsLine
  <1>2. /\ a \in Nat /\ s \in Nat /\ d \in {0, 1} /\ (d = 1 => s = 0) /\ (d = 0 => a = 0 \/ s = 1)
        /\ v \in Seq(Element) /\ Len(v) + s = Len(w) /\ Len(w) \in Nat /\ Len(v) \in Nat
    BY <1>1 DEF Damaged
  <1>3. /\ p \in Nat /\ Size(i) \in Nat \ {0} /\ Sayable(script[i]) /\ p + Size(i) + 2 <= Len(w)
    BY <1>1 DEF LineAt
  <1>4. q \in LineEnds(v) /\ t \in Nat /\ t < q
    BY <1>1 DEF Between
  <1>5. q \in 1..Len(v) - 1
    BY <1>4 DEF LineEnds
  <1>6. q \in Nat /\ q + 1 <= Len(v) /\ q \in 1..Len(v)
    BY <1>2, <1>5
  <1>7. q \in Int /\ (q + 1 <= a \/ q > a + d)
    BY <1>1, <1>4, EndsRemain
  <1>8. (q <= a => Origin(a, s, q) = q) /\ (q > a => Origin(a, s, q) = q + s)
    <2>1. a \in Nat /\ s \in Nat
      BY <1>2
    <2> QED
      BY <1>7, <2>1, OriginMoves
  <1>9. (q + 1 <= a /\ q = p + Size(i) + 1) \/ (q > a + d /\ q + s = p + Size(i) + 1)
    BY <1>1, <1>2, <1>7, <1>8
  <1>10. v[q].of = w[Origin(a, s, q)].of
    BY <1>1, <1>6, OriginIs
  <1>11. w[p + Size(i) + 1].of = i /\ (p # 0 => p >= 2 /\ p - 1 \in LineEnds(w))
    BY <1>1, <1>2, EndOfLineAt
  <1>12. v[q].of = i
    BY <1>1, <1>10, <1>11
  <1> QED
    BY <1>2, <1>3, <1>4, <1>6, <1>9, <1>11, <1>12

LEMMA EndsMoved ==
  ASSUME NEW w, Clean(w), NEW v, NEW a, NEW s, NEW d, Damaged(w, v, a, s, d), NEW j \in LineEnds(v)
  PROVE  /\ j \in Nat /\ j >= 1 /\ a \in Nat /\ s \in Nat /\ Origin(a, s, j) \in Nat
         /\ Origin(a, s, j) \in LineEnds(w)
         /\ (j + 1 <= a /\ Origin(a, s, j) = j) \/ (j > a + d /\ j > a /\ Origin(a, s, j) = j + s)
  <1>1. /\ a \in Nat /\ s \in Nat /\ d \in {0, 1}
    BY DEF Damaged
  <1>2. j \in Int /\ (j + 1 <= a \/ j > a + d) /\ Origin(a, s, j) \in LineEnds(w)
    BY EndsRemain
  <1>3. (j <= a => Origin(a, s, j) = j) /\ (j > a => Origin(a, s, j) = j + s)
    <2>1. a \in Nat /\ s \in Nat
      BY <1>1
    <2> QED
      BY <1>2, <2>1, OriginMoves
  <1>4. j \in 1..Len(v) - 1 /\ Len(v) \in Nat
    BY DEF LineEnds, Damaged
  <1> QED
    BY <1>1, <1>2, <1>3, <1>4

LEMMA LineCodes ==
  ASSUME NEW w, NEW p, NEW i, LineAt(w, p, i)
  PROVE  /\ LineOf(script[i]) \in Seq(Printed) /\ Len(LineOf(script[i])) = Size(i)
         /\ \A y \in 1..Size(i) : w[p + y].code = LineOf(script[i])[y]
  <1>1. Sayable(script[i]) /\ \A y \in 1..Size(i) : w[p + y] = [code |-> LineOf(script[i])[y], of |-> i]
    BY DEF LineAt
  <1>2. LineOf(script[i]) \in Seq(Printed \ {CR, LF})
    BY <1>1, LineType
  <1>3. LineOf(script[i]) \in Seq(Printed)
    <2>1. Printed \ {CR, LF} \subseteq Printed
      OBVIOUS
    <2> QED
      BY <1>2, <2>1, WiderType
  <1>4. \A y \in 1..Size(i) : w[p + y].code = LineOf(script[i])[y]
    <2> TAKE y \in 1..Size(i)
    <2>1. w[p + y] = [code |-> LineOf(script[i])[y], of |-> i]
      BY <1>1
    <2> QED
      BY <2>1, RecordOf
  <1> QED
    BY <1>3, <1>4 DEF Size

(* A line that nothing happened to.                                         *)
LEMMA IntactIsSaid ==
  ASSUME NEW w, NEW v, NEW a, NEW s, NEW d, NEW t, NEW q, NEW p, NEW i, EndsLine(w, v, a, s, d, t, q, p, i),
         q = t + Size(i) + 1, \A y \in 1..Size(i) : v[t + y] = w[p + y]
  PROVE  PartIsSaid(v, t, q)
  <1> DEFINE l == LineOf(script[i])
  <1>1. LineAt(w, p, i)
    BY DEF EndsLine
  <1>2. /\ l \in Seq(Printed) /\ Len(l) = Size(i)
        /\ \A y \in 1..Size(i) : w[p + y].code = l[y]
    BY <1>1, LineCodes
  <1>3. Decode(l) = Meaning(script[i])
    <2>1. Sayable(script[i])
      BY EndsLineIs
    <2> QED
      BY <2>1, LineIsDecoded
  <1>4. /\ Size(i) \in Nat /\ v \in Seq(Element) /\ q \in Nat /\ q + 1 <= Len(v) /\ Len(v) \in Nat
        /\ v[q].of = i /\ t \in Nat /\ t < q
    BY EndsLineIs
  <1> HIDE DEF l
  <1>5. t + Len(l) <= Len(v) /\ t + Len(l) = q - 1
    BY <1>2, <1>4
  <1>6. \A y \in 1..Len(l) : v[t + y].code = l[y]
    BY <1>2
  <1>7. Codes(SubSeq(v, t + 1, t + Len(l))) = l
    BY <1>2, <1>4, <1>5, <1>6, CodesOfPart
  <1>8. Decode(Codes(SubSeq(v, t + 1, q - 1))) \subseteq Meaning(script[v[q].of])
    BY <1>3, <1>4, <1>5, <1>7
  <1> QED
    BY <1>4, <1>8, MeantIsSaid

LEMMA IntactBefore ==
  ASSUME NEW w, NEW v, NEW a, NEW s, NEW d, NEW t, NEW q, NEW p, NEW i, EndsLine(w, v, a, s, d, t, q, p, i),
         q + 1 <= a
  PROVE  PartIsSaid(v, t, q)
  <1>1. Clean(w) /\ Damaged(w, v, a, s, d) /\ Between(v, t, q) /\ LineAt(w, p, i) /\ Origin(a, s, q) = p + Size(i) + 1
    BY DEF EndsLine
  <1>2. /\ a \in Nat /\ s \in Nat /\ d \in {0, 1} /\ p \in Nat /\ Size(i) \in Nat \ {0}
        /\ q \in LineEnds(v) /\ q \in Nat
        /\ (q + 1 <= a /\ q = p + Size(i) + 1) \/ (q > a + d /\ q + s = p + Size(i) + 1)
        /\ p # 0 => p >= 2 /\ p - 1 \in LineEnds(w)
    BY EndsLineIs
  <1>3. q = p + Size(i) + 1 /\ p < q /\ p + 1 <= a
    BY <1>2
  <1>4. p # 0 => p - 1 \in LineEnds(v)
    <2>1. p - 1 + 1 <= a
      BY <1>2, <1>3
    <2> QED
      BY <1>1, <1>2, <2>1, EndsStay
  <1>5. ASSUME NEW j \in LineEnds(v), p <= j PROVE p <= Origin(a, s, j)
    <2>1. /\ j \in Nat /\ s \in Nat
          /\ (j + 1 <= a /\ Origin(a, s, j) = j) \/ (j > a + d /\ j > a /\ Origin(a, s, j) = j + s)
      BY <1>1, EndsMoved
    <2> QED
      BY <1>2, <1>5, <2>1
  <1>6. t = p
    BY <1>1, <1>2, <1>3, <1>4, <1>5, BetweenHere
  <1>7. \A y \in 1..Size(i) : v[p + y] = w[p + y]
    <2>1. \A x \in 1..a : v[x] = w[x]
      BY <1>1 DEF Damaged
    <2>2. \A y \in 1..Size(i) : p + y \in 1..a
      BY <1>2, <1>3
    <2> QED
      BY <2>1, <2>2
  <1> QED
    BY <1>3, <1>6, <1>7, IntactIsSaid

LEMMA IntactAfter ==
  ASSUME NEW w, NEW v, NEW a, NEW s, NEW d, NEW t, NEW q, NEW p, NEW i, EndsLine(w, v, a, s, d, t, q, p, i),
         q > a + d, (p # 0 /\ p - 1 > a + d + s) \/ (a = 0 /\ d = 0 /\ s = p)
  PROVE  PartIsSaid(v, t, q)
  <1>1. Clean(w) /\ Damaged(w, v, a, s, d) /\ Between(v, t, q) /\ LineAt(w, p, i) /\ Origin(a, s, q) = p + Size(i) + 1
    BY DEF EndsLine
  <1>2. /\ a \in Nat /\ s \in Nat /\ d \in {0, 1} /\ p \in Nat /\ Size(i) \in Nat \ {0}
        /\ q \in LineEnds(v) /\ q \in Nat
        /\ (q + 1 <= a /\ q = p + Size(i) + 1) \/ (q > a + d /\ q + s = p + Size(i) + 1)
        /\ p # 0 => p >= 2 /\ p - 1 \in LineEnds(w)
        /\ Len(v) + s = Len(w) /\ Len(v) \in Nat /\ q + 1 <= Len(v)
    BY EndsLineIs
  <1> DEFINE r == p - s
  <1>3. r \in Nat /\ p = r + s /\ q = r + Size(i) + 1 /\ r < q /\ r >= a + d
    BY <1>2
  <1> HIDE DEF r
  <1>4. r # 0 => r - 1 \in LineEnds(v)
    <2> SUFFICES ASSUME r # 0 PROVE r - 1 \in LineEnds(v)
      OBVIOUS
    <2>1. p - 1 > a + d + s /\ p - 1 \in LineEnds(w) /\ p - 1 - s = r - 1
      BY <1>2, <1>3
    <2>2. p - 1 - s \in LineEnds(v)
      BY <1>1, <2>1, EndsStay
    <2> QED
      BY <2>1, <2>2
  <1>5. ASSUME NEW j \in LineEnds(v), r <= j PROVE p <= Origin(a, s, j)
    <2>1. /\ j \in Nat /\ s \in Nat
          /\ (j + 1 <= a /\ Origin(a, s, j) = j) \/ (j > a + d /\ j > a /\ Origin(a, s, j) = j + s)
      BY <1>1, EndsMoved
    <2> QED
      BY <1>2, <1>3, <1>5, <2>1
  <1>6. t = r
    <2>1. r \in Nat /\ r < q /\ q \in LineEnds(v)
      BY <1>2, <1>3
    <2> QED
      BY <1>1, <1>4, <1>5, <2>1, BetweenHere
  <1>7. \A y \in 1..Size(i) : v[r + y] = w[p + y]
    <2>1. \A x \in 1..Len(v), z \in 1..Len(w) : x > a + d /\ z = x + s => v[x] = w[z]
      BY <1>1 DEF Damaged
    <2> TAKE y \in 1..Size(i)
    <2>2. r + y \in 1..Len(v) /\ p + y \in 1..Len(w) /\ r + y > a + d /\ p + y = r + y + s
      BY <1>2, <1>3
    <2> QED
      BY <2>1, <2>2
  <1> QED
    BY <1>3, <1>6, <1>7, IntactIsSaid

(* A session that begins with the LF before a line.                         *)
LEMMA FeedIsSaid ==
  ASSUME NEW w, NEW v, NEW a, NEW s, NEW d, NEW t, NEW q, NEW p, NEW i, EndsLine(w, v, a, s, d, t, q, p, i),
         a = 0, d = 0, p # 0, s = p - 1
  PROVE  PartIsSaid(v, t, q)
  <1>1. Clean(w) /\ Damaged(w, v, a, s, d) /\ Between(v, t, q) /\ LineAt(w, p, i) /\ Origin(a, s, q) = p + Size(i) + 1
    BY DEF EndsLine
  <1>2. /\ s \in Nat /\ p \in Nat /\ Size(i) \in Nat \ {0} /\ Sayable(script[i])
        /\ q \in LineEnds(v) /\ q \in Nat /\ v \in Seq(Element)
        /\ (q + 1 <= a /\ q = p + Size(i) + 1) \/ (q > a + d /\ q + s = p + Size(i) + 1)
        /\ Len(v) + s = Len(w) /\ Len(v) \in Nat /\ q + 1 <= Len(v)
    BY EndsLineIs
  <1>3. q = Size(i) + 2 /\ 0 < q
    BY <1>2
  <1>4. ASSUME NEW j \in LineEnds(v), 0 <= j PROVE p <= Origin(a, s, j)
    <2>1. /\ j \in Nat /\ j >= 1 /\ s \in Nat
          /\ (j + 1 <= a /\ Origin(a, s, j) = j) \/ (j > a + d /\ j > a /\ Origin(a, s, j) = j + s)
      BY <1>1, EndsMoved
    <2> QED
      BY <1>2, <2>1
  <1>5. t = 0
    <2>1. 0 \in Nat /\ q \in LineEnds(v) /\ 0 < q
      BY <1>2, <1>3
    <2> QED
      BY <1>1, <1>4, <2>1, BetweenHere
  <1> DEFINE c == Codes(SubSeq(v, t + 1, q - 1))
  <1>6. PartHas(v, 0, q, c)
    <2>1. 0 \in Nat /\ q \in LineEnds(v) /\ 0 < q /\ v \in Seq(Element)
      BY <1>2, <1>3
    <2> QED
      BY <1>5, <2>1, PartCodes
  <1> HIDE DEF c
  <1>7. c \in Seq(Printed) /\ Len(c) = q - 1 /\ \A y \in 1..q - 1 : c[y] = v[y].code
    BY <1>2, <1>6 DEF PartHas
  <1>8. \A x \in 1..Len(v), z \in 1..Len(w) : x > a + d /\ z = x + s => v[x] = w[z]
    BY <1>1 DEF Damaged
  <1>9. v[1] = w[p] /\ v[2] = w[p + 1]
    <2>1. 1 \in 1..Len(v) /\ 2 \in 1..Len(v) /\ p \in 1..Len(w) /\ p + 1 \in 1..Len(w) /\ p = 1 + s /\ p + 1 = 2 + s
          /\ 1 > a + d /\ 2 > a + d
      BY <1>2, <1>3
    <2> QED
      BY <1>8, <2>1
  <1>10. w[p].code = LF
    <2>1. w[p] = [code |-> LF, of |-> i - 1]
      BY <1>1 DEF LineAt
    <2> QED
      BY <2>1, RecordOf
  <1>11. /\ Len(LineOf(script[i])) = Size(i) /\ w[p + 1].code = LineOf(script[i])[1]
    <2>1. 1 \in 1..Size(i)
      BY <1>2
    <2> QED
      BY <1>1, <2>1, LineCodes
  <1>12. Len(c) = Len(LineOf(script[i])) + 1 /\ c[1] = LF /\ c[2] = LineOf(script[i])[1]
    <2>1. 1 \in 1..q - 1 /\ 2 \in 1..q - 1 /\ q - 1 = Size(i) + 1
      BY <1>2, <1>3
    <2>2. c[1] = v[1].code /\ c[2] = v[2].code
      BY <1>7, <2>1
    <2> QED
      BY <1>7, <1>9, <1>10, <1>11, <2>1, <2>2
  <1>13. ~IsValid(c)
    BY <1>2, <1>7, <1>12, AfterLineFeed
  <1>14. TextsAreTrue(v)
    BY <1>1, DamagedTexts
  <1> QED
    BY <1>1, <1>2, <1>13, <1>14, InvalidIsSaid DEF c

(* Two lines, of which the end between them is broken.                      *)
LEMMA MergedIsSaid ==
  ASSUME NEW w, NEW v, NEW a, NEW s, NEW d, NEW t, NEW q, NEW p, NEW i, EndsLine(w, v, a, s, d, t, q, p, i),
         q > a + d, p # 0, d + s = 1, a + 1 = p - 1 \/ a + 1 = p
  PROVE  PartIsSaid(v, t, q)
  <1>1. Clean(w) /\ Damaged(w, v, a, s, d) /\ Between(v, t, q) /\ LineAt(w, p, i) /\ Origin(a, s, q) = p + Size(i) + 1
    BY DEF EndsLine
  <1>2. /\ a \in Nat /\ s \in Nat /\ d \in {0, 1} /\ p \in Nat /\ Size(i) \in Nat \ {0}
        /\ q \in LineEnds(v) /\ q \in Nat /\ v \in Seq(Element)
        /\ (q + 1 <= a /\ q = p + Size(i) + 1) \/ (q > a + d /\ q + s = p + Size(i) + 1)
        /\ Len(v) + s = Len(w) /\ Len(w) \in Nat /\ Len(v) \in Nat /\ q + 1 <= Len(v)
        /\ p >= 2 /\ p - 1 \in LineEnds(w)
    BY EndsLineIs
  <1>3. p - 1 \in 1..Len(w) /\ w[p - 1].code = CR
    BY <1>2 DEF LineEnds
  <1> DEFINE m == w[p - 1].of
  <1>4. PICK r \in Nat : LineAt(w, r, m) /\ p - 1 = r + Size(m) + 1
    BY <1>1, <1>3, CleanReturn
  <1>5. Size(m) \in Nat \ {0} /\ Sayable(script[m]) /\ (r # 0 => r >= 2 /\ r - 1 \in LineEnds(w))
    <2>1. Size(m) \in Nat \ {0} /\ Sayable(script[m])
      BY <1>4 DEF LineAt
    <2>2. r # 0 => r >= 2 /\ r - 1 \in LineEnds(w)
      BY <1>2, <1>4, EndOfLineAt
    <2> QED
      BY <2>1, <2>2
  <1> DEFINE k == Size(i)
             n == Size(m)
  <1>6. k \in Nat \ {0} /\ n \in Nat \ {0}
    BY <1>2, <1>5
  <1>7. q + s = p + k + 1 /\ p = r + n + 2
    <2>1. ~(q + 1 <= a)
      BY <1>2
    <2>2. p - 1 = r + n + 1
      BY <1>4
    <2> QED
      BY <1>2, <1>4, <1>6, <2>1, <2>2
  <1> HIDE DEF k, n, m
  <1>8. r + n <= a /\ r < q /\ r < a /\ s <= 1
    BY <1>2, <1>4, <1>6, <1>7
  <1>9. r # 0 => r - 1 \in LineEnds(v)
    <2>1. r # 0 => r - 1 \in LineEnds(w) /\ r - 1 + 1 <= a
      BY <1>2, <1>4, <1>5, <1>8
    <2> QED
      BY <1>1, <2>1, EndsStay
  <1>10. ASSUME NEW j \in LineEnds(v), r <= j PROVE p <= Origin(a, s, j)
    <2>1. /\ j \in Nat /\ s \in Nat /\ Origin(a, s, j) \in Nat
          /\ Origin(a, s, j) \in LineEnds(w)
          /\ (j + 1 <= a /\ Origin(a, s, j) = j) \/ (j > a + d /\ j > a /\ Origin(a, s, j) = j + s)
      BY <1>1, EndsMoved
    <2>2. r <= Origin(a, s, j)
      BY <1>4, <1>10, <2>1
    <2>3. ~(Origin(a, s, j) < r + n + 1)
      BY <1>4, <2>1, <2>2, NoEndInLine DEF n
    <2> QED
      BY <1>2, <1>4, <1>6, <1>7, <1>8, <2>1, <2>3
  <1>11. t = r
    <2>1. r \in Nat /\ r < q /\ q \in LineEnds(v)
      BY <1>2, <1>4, <1>8
    <2> QED
      BY <1>1, <1>9, <1>10, <2>1, BetweenHere
  <1> DEFINE c == Codes(SubSeq(v, t + 1, q - 1))
  <1>12. PartHas(v, r, q, c)
    <2>1. r \in Nat /\ q \in LineEnds(v) /\ r < q /\ v \in Seq(Element)
      BY <1>2, <1>4, <1>8
    <2> QED
      BY <1>11, <2>1, PartCodes
  <1> HIDE DEF c
  <1>13. c \in Seq(Printed) /\ Len(c) = q - 1 - r /\ \A y \in 1..q - 1 - r : c[y] = v[r + y].code
    BY <1>12 DEF PartHas
  <1>14. Len(c) > n
    BY <1>2, <1>4, <1>6, <1>7, <1>8, <1>13
  <1>15. /\ Len(LineOf(script[m])) = n
         /\ \A y \in 1..n : w[r + y].code = LineOf(script[m])[y]
    BY <1>4, LineCodes DEF n
  <1>16. \A y \in 1..n : c[y] = LineOf(script[m])[y]
    <2> TAKE y \in 1..n
    <2>1. r + y \in 1..a /\ y \in 1..q - 1 - r
      BY <1>2, <1>4, <1>6, <1>8, <1>13, <1>14
    <2>2. v[r + y] = w[r + y]
      BY <1>1, <2>1 DEF Damaged
    <2> QED
      BY <1>13, <1>15, <2>1, <2>2
  <1>17. ~IsValid(c)
    <2>1. Len(c) # Len(LineOf(script[m]))
      BY <1>6, <1>14, <1>15
    <2>2. \A j \in 1..2 : j <= Len(LineOf(script[m])) => j <= Len(c) /\ c[j] = LineOf(script[m])[j]
      <3>1. \A j \in 1..2 : j <= n => j \in 1..n /\ j <= Len(c)
        BY <1>6, <1>13, <1>14, <1>2, <1>4
      <3> QED
        BY <1>15, <1>16, <3>1
    <2> QED
      BY <1>5, <1>13, <2>1, <2>2, OtherLength
  <1>18. TextsAreTrue(v)
    BY <1>1, DamagedTexts
  <1> QED
    BY <1>1, <1>2, <1>17, <1>18, InvalidIsSaid DEF c

(* No line that ends like another one, or like a text, says something else: *)
(* what a session that begins inside a line takes for a line means nothing. *)
EchoFree ==
    \A i \in DOMAIN script : script[i] \notin Texts =>
        \A k \in 2..Len(script[i]) + 2 :
            \A v \in Decode(SubSeq(Framed(script[i]), k, Len(script[i]) + 2)) : v.event = "unknown"

LEMMA CodesAmong ==
  ASSUME NEW S, NEW T, NEW c \in Seq(S), \A i \in 1..Len(c) : c[i] \in T
  PROVE  c \in Seq(T)
  OBVIOUS

(* Where a part begins when the damage is inside its line.                  *)
LEMMA InLineBegins ==
  ASSUME NEW w, NEW v, NEW a, NEW s, NEW d, NEW t, NEW q, NEW p, NEW i, EndsLine(w, v, a, s, d, t, q, p, i),
         q > a + d, d + s = 1, p <= a, a < p + Size(i)
  PROVE  /\ t = p /\ q = p + Size(i) + 1 - s
         /\ PartHas(v, p, q, Codes(SubSeq(v, t + 1, q - 1)))
         /\ \A y \in 1..Size(i) : p + y <= a => v[p + y].code = LineOf(script[i])[y]
         /\ \A y, z \in 1..Size(i) : p + y > a + d /\ z = y + s => v[p + y].code = LineOf(script[i])[z]
         /\ LineOf(script[i]) \in Seq(Printed) /\ Len(LineOf(script[i])) = Size(i)
  <1>1. Clean(w) /\ Damaged(w, v, a, s, d) /\ Between(v, t, q) /\ LineAt(w, p, i) /\ Origin(a, s, q) = p + Size(i) + 1
    BY DEF EndsLine
  <1>2. /\ a \in Nat /\ s \in Nat /\ d \in {0, 1} /\ p \in Nat /\ Size(i) \in Nat \ {0}
        /\ q \in LineEnds(v) /\ q \in Nat /\ v \in Seq(Element)
        /\ (q + 1 <= a /\ q = p + Size(i) + 1) \/ (q > a + d /\ q + s = p + Size(i) + 1)
        /\ Len(v) + s = Len(w) /\ Len(w) \in Nat /\ Len(v) \in Nat /\ q + 1 <= Len(v)
        /\ p # 0 => p >= 2 /\ p - 1 \in LineEnds(w)
        /\ p + Size(i) + 2 <= Len(w)
    BY EndsLineIs
  <1>3. q = p + Size(i) + 1 - s /\ p < q /\ s <= 1
    BY <1>2
  <1>4. p # 0 => p - 1 \in LineEnds(v)
    <2>1. p # 0 => p - 1 \in LineEnds(w) /\ p - 1 + 1 <= a
      BY <1>2
    <2> QED
      BY <1>1, <2>1, EndsStay
  <1>5. ASSUME NEW j \in LineEnds(v), p <= j PROVE p <= Origin(a, s, j)
    <2>1. /\ j \in Nat /\ s \in Nat
          /\ (j + 1 <= a /\ Origin(a, s, j) = j) \/ (j > a + d /\ j > a /\ Origin(a, s, j) = j + s)
      BY <1>1, EndsMoved
    <2> QED
      BY <1>2, <1>5, <2>1
  <1>6. t = p
    <2>1. p \in Nat /\ p < q /\ q \in LineEnds(v)
      BY <1>2, <1>3
    <2> QED
      BY <1>1, <1>4, <1>5, <2>1, BetweenHere
  <1>7. PartHas(v, p, q, Codes(SubSeq(v, t + 1, q - 1)))
    BY <1>2, <1>3, <1>6, PartCodes
  <1>8. /\ LineOf(script[i]) \in Seq(Printed) /\ Len(LineOf(script[i])) = Size(i)
        /\ \A y \in 1..Size(i) : w[p + y].code = LineOf(script[i])[y]
    BY <1>1, LineCodes
  <1>9. /\ \A x \in 1..a : v[x] = w[x]
        /\ \A x \in 1..Len(v), z \in 1..Len(w) : x > a + d /\ z = x + s => v[x] = w[z]
    BY <1>1 DEF Damaged
  <1>10. ASSUME NEW y \in 1..Size(i), p + y <= a PROVE v[p + y].code = LineOf(script[i])[y]
    <2>1. p + y \in 1..a
      BY <1>2, <1>10
    <2> QED
      BY <1>8, <1>9, <2>1
  <1>11. ASSUME NEW y \in 1..Size(i), NEW z \in 1..Size(i), p + y > a + d, z = y + s
         PROVE  v[p + y].code = LineOf(script[i])[z]
    <2>0. y \in Nat /\ z \in Nat /\ y >= 1 /\ z >= 1 /\ z <= Size(i) /\ z = y + s
      BY <1>2, <1>11
    <2>1. p + y \in 1..Len(v) /\ p + z \in 1..Len(w) /\ p + z = p + y + s
      <3>1. p + z <= Len(w) /\ p + z = p + y + s /\ p + y >= 1 /\ p + z >= 1
        BY <1>2, <2>0
      <3>2. p + y <= Len(v)
        BY <1>2, <2>0, <3>1
      <3> QED
        BY <1>2, <2>0, <3>1, <3>2
    <2>2. v[p + y] = w[p + z]
      BY <1>9, <1>11, <2>1
    <2> QED
      BY <1>8, <2>2
  <1> QED
    BY <1>3, <1>6, <1>7, <1>8, <1>10, <1>11

LEMMA TextSize ==
  ASSUME NEW i, Sayable(script[i])
  PROVE  /\ script[i] \in Texts => Size(i) = 1
         /\ script[i] \notin Texts => /\ IsSpoken(script[i]) /\ LineOf(script[i]) = Framed(script[i])
                                      /\ Size(i) = Len(Framed(script[i]))
                                      /\ Framed(script[i]) \in Seq(Latin)
  <1>1. CASE script[i] \in Texts
    <2>1. LineOf(script[i]) = script[i]
      BY <1>1 DEF LineOf
    <2>2. PICK u \in {Prompt, Granted, Refused} : script[i] = <<u>>
      BY <1>1 DEF Texts
    <2>3. Len(<<u>>) = 1
      OBVIOUS
    <2> QED
      BY <1>1, <2>1, <2>2, <2>3 DEF Size
  <1>2. CASE script[i] \notin Texts
    <2>1. LineOf(script[i]) = Framed(script[i]) /\ IsSpoken(script[i])
      BY <1>2 DEF LineOf, Sayable
    <2>2. Framed(script[i]) \in Seq(Latin)
      BY <2>1, FrameIs
    <2> QED
      BY <1>2, <2>1, <2>2 DEF Size
  <1> QED
    BY <1>1, <1>2

(* With a code replaced, with one lost, and with its beginning lost, a line *)
(* says the same as before or nothing.                                      *)
LEMMA ReplacedInLine ==
  ASSUME NEW w, NEW v, NEW a, NEW s, NEW d, NEW t, NEW q, NEW p, NEW i, EndsLine(w, v, a, s, d, t, q, p, i),
         q > a + d, d = 1, p <= a, a < p + Size(i)
  PROVE  PartIsSaid(v, t, q)
  <1> DEFINE c == Codes(SubSeq(v, t + 1, q - 1))
             k == Size(i)
             f == LineOf(script[i])
             x == a + 1 - p
  <1>1. Clean(w) /\ Damaged(w, v, a, s, d) /\ Between(v, t, q) /\ LineAt(w, p, i)
    BY DEF EndsLine
  <1>2. /\ a \in Nat /\ s \in Nat /\ (d = 1 => s = 0) /\ p \in Nat /\ k \in Nat \ {0} /\ Sayable(script[i])
        /\ q \in Nat /\ v \in Seq(Element) /\ v[q].of = i /\ t \in Nat /\ t < q
    BY EndsLineIs
  <1>3. s = 0 /\ d + s = 1
    BY <1>2
  <1>4. /\ t = p /\ q = p + k + 1 - s
        /\ PartHas(v, p, q, c)
        /\ \A y \in 1..k : p + y <= a => v[p + y].code = f[y]
        /\ \A y, z \in 1..k : p + y > a + d /\ z = y + s => v[p + y].code = f[z]
        /\ f \in Seq(Printed) /\ Len(f) = k
    BY <1>3, InLineBegins
  <1>5. x \in 1..k /\ p + x = a + 1
    BY <1>2
  <1>6. w[p + x].code = f[x]
    BY <1>1, <1>5, LineCodes
  <1>7. v[a + 1].code \in Latin /\ v[a + 1].code # w[a + 1].code
    BY <1>1 DEF Damaged
  <1> HIDE DEF c, k, f, x
  <1>8. q - 1 - p = k
    BY <1>2, <1>3, <1>4
  <1>9. c \in Seq(Printed) /\ Len(c) = k /\ \A y \in 1..k : c[y] = v[p + y].code
    BY <1>4, <1>8 DEF PartHas
  <1>10. c[x] \in Latin /\ c[x] # f[x]
    BY <1>5, <1>6, <1>7, <1>9
  <1>11. \A y \in 1..k : y # x => c[y] = f[y]
    <2> TAKE y \in 1..k
    <2> HAVE y # x
    <2>1. p + y <= a \/ (p + y > a + d /\ y = y + s)
      BY <1>2, <1>3, <1>5
    <2> QED
      BY <1>4, <1>9, <2>1
  <1>12. TextsAreTrue(v)
    BY <1>1, DamagedTexts
  <1>13. CASE script[i] \in Texts
    <2>1. Len(c) <= 1
      BY <1>2, <1>9, <1>13, TextSize DEF k
    <2>2. ~IsValid(c)
      BY <1>9, <2>1, ShortIsInvalid
    <2> QED
      BY <1>1, <1>2, <1>12, <2>2, InvalidIsSaid DEF c
  <1>14. CASE script[i] \notin Texts /\ IsValid(c)
    <2>1. IsSpoken(script[i]) /\ f = Framed(script[i]) /\ f \in Seq(Latin)
      BY <1>2, <1>14, TextSize DEF f
    <2>2. \A y \in 1..Len(c) : c[y] \in Latin
      <3> TAKE y \in 1..Len(c)
      <3>1. y \in 1..k /\ y \in 1..Len(f)
        BY <1>4, <1>9
      <3>2. f[y] \in Latin
        BY <2>1, <3>1
      <3> QED
        BY <1>10, <1>11, <3>1, <3>2
    <2>3. c \in Seq(Latin)
      BY <1>9, <2>2, CodesAmong
    <2>4. Len(c) = Len(f) /\ x \in 1..Len(c) /\ \A y \in 1..Len(c) : y # x => c[y] = f[y]
      BY <1>4, <1>5, <1>9, <1>11
    <2>5. Decode(c) = Meaning(script[i])
      BY <1>10, <1>14, <2>1, <2>3, <2>4, ReplacedIsSaid
    <2>6. Decode(c) \subseteq Meaning(script[v[q].of])
      BY <1>2, <2>5
    <2> QED
      BY <1>2, <2>6, MeantIsSaid DEF c
  <1>15. CASE ~IsValid(c)
    BY <1>1, <1>2, <1>12, <1>15, InvalidIsSaid DEF c
  <1> QED
    BY <1>13, <1>14, <1>15

LEMMA LostInLine ==
  ASSUME NEW w, NEW v, NEW a, NEW s, NEW d, NEW t, NEW q, NEW p, NEW i, EndsLine(w, v, a, s, d, t, q, p, i),
         q > a + d, d = 0, s = 1, p <= a, a < p + Size(i)
  PROVE  PartIsSaid(v, t, q)
  <1> DEFINE c == Codes(SubSeq(v, t + 1, q - 1))
             k == Size(i)
             f == LineOf(script[i])
             x == a + 1 - p
  <1>1. Clean(w) /\ Damaged(w, v, a, s, d) /\ Between(v, t, q) /\ LineAt(w, p, i)
    BY DEF EndsLine
  <1>2. /\ a \in Nat /\ p \in Nat /\ k \in Nat \ {0} /\ Sayable(script[i])
        /\ q \in Nat /\ v \in Seq(Element)
    BY EndsLineIs
  <1>3. d + s = 1
    OBVIOUS
  <1>4. /\ t = p /\ q = p + k + 1 - s
        /\ PartHas(v, p, q, c)
        /\ \A y \in 1..k : p + y <= a => v[p + y].code = f[y]
        /\ \A y, z \in 1..k : p + y > a + d /\ z = y + s => v[p + y].code = f[z]
        /\ f \in Seq(Printed) /\ Len(f) = k
    BY <1>3, InLineBegins
  <1>5. x \in 1..k /\ p + x = a + 1
    BY <1>2
  <1> HIDE DEF c, k, f, x
  <1>6. q - 1 - p = k - 1
    BY <1>2, <1>4
  <1>7. c \in Seq(Printed) /\ Len(c) = k - 1 /\ \A y \in 1..k - 1 : c[y] = v[p + y].code
    BY <1>4, <1>6 DEF PartHas
  <1>8. \A y \in 1..x - 1 : c[y] = f[y]
    <2> TAKE y \in 1..x - 1
    <2>1. p + y <= a /\ y \in 1..k /\ y \in 1..k - 1
      BY <1>2, <1>5
    <2> QED
      BY <1>4, <1>7, <2>1
  <1>9. \A y \in x..k - 1 : c[y] = f[y + 1]
    <2> TAKE y \in x..k - 1
    <2>1. p + y > a + d /\ y \in 1..k /\ y \in 1..k - 1 /\ y + 1 \in 1..k /\ y + 1 = y + s
      BY <1>2, <1>5
    <2>2. v[p + y].code = f[y + 1]
      BY <1>4, <2>1
    <2> QED
      BY <1>7, <2>1, <2>2
  <1>10. ~IsValid(c)
    <2>1. CASE script[i] \in Texts
      <3>1. Len(c) <= 1
        BY <1>2, <1>7, <2>1, TextSize DEF k
      <3> QED
        BY <1>7, <3>1, ShortIsInvalid
    <2>2. CASE script[i] \notin Texts
      <3>1. IsSpoken(script[i]) /\ f = Framed(script[i]) /\ f \in Seq(Latin)
        BY <1>2, <2>2, TextSize DEF f
      <3>2. \A y \in 1..Len(c) : c[y] \in Latin
        <4>1. \A y \in 1..k : f[y] \in Latin
          BY <1>4, <3>1
        <4> TAKE y \in 1..Len(c)
        <4>2. (y \in 1..x - 1 /\ y \in 1..k) \/ (y \in x..k - 1 /\ y + 1 \in 1..k)
          BY <1>2, <1>5, <1>7
        <4> QED
          BY <1>8, <1>9, <4>1, <4>2
      <3>3. c \in Seq(Latin)
        BY <1>7, <3>2, CodesAmong
      <3>4. Len(c) = Len(f) - 1 /\ x \in 1..Len(f) /\ x..Len(c) = x..k - 1
        BY <1>4, <1>5, <1>7
      <3> QED
        BY <1>8, <1>9, <3>1, <3>3, <3>4, LostIsInvalid
    <2> QED
      BY <2>1, <2>2
  <1>11. TextsAreTrue(v)
    BY <1>1, DamagedTexts
  <1> QED
    BY <1>1, <1>2, <1>10, <1>11, InvalidIsSaid DEF c

(* Every code is one of a line of the script.                               *)
Scripted(w) == \A x \in 1..Len(w) : w[x].of \in DOMAIN script

LEMMA CutInLine ==
  ASSUME NEW w, NEW v, NEW a, NEW s, NEW d, NEW t, NEW q, NEW p, NEW i, EndsLine(w, v, a, s, d, t, q, p, i),
         a = 0, d = 0, q > a + d, p < s, s <= p + Size(i), Scripted(w), EchoFree
  PROVE  PartIsSaid(v, t, q)
  <1>1. Clean(w) /\ Damaged(w, v, a, s, d) /\ Between(v, t, q) /\ LineAt(w, p, i) /\ Origin(a, s, q) = p + Size(i) + 1
    BY DEF EndsLine
  <1>2. /\ s \in Nat /\ p \in Nat /\ Size(i) \in Nat \ {0} /\ Sayable(script[i])
        /\ q \in LineEnds(v) /\ q \in Nat /\ v \in Seq(Element)
        /\ (q + 1 <= a /\ q = p + Size(i) + 1) \/ (q > a + d /\ q + s = p + Size(i) + 1)
        /\ Len(v) + s = Len(w) /\ Len(w) \in Nat /\ Len(v) \in Nat /\ q + 1 <= Len(v) /\ v[q].of = i
        /\ p + Size(i) + 2 <= Len(w)
    BY EndsLineIs
  <1>3. q + s = p + Size(i) + 1 /\ 0 < q
    BY <1>2
  <1>4. ASSUME NEW j \in LineEnds(v), 0 <= j PROVE p <= Origin(a, s, j)
    <2>1. /\ j \in Nat /\ j >= 1 /\ s \in Nat
          /\ (j + 1 <= a /\ Origin(a, s, j) = j) \/ (j > a + d /\ j > a /\ Origin(a, s, j) = j + s)
      BY <1>1, EndsMoved
    <2> QED
      BY <1>2, <2>1
  <1>5. t = 0
    <2>1. 0 \in Nat /\ q \in LineEnds(v) /\ 0 < q
      BY <1>2, <1>3
    <2> QED
      BY <1>1, <1>4, <2>1, BetweenHere
  <1> DEFINE c == Codes(SubSeq(v, t + 1, q - 1))
             k == Size(i)
             f == LineOf(script[i])
             b == s - p + 1
  <1>6. PartHas(v, 0, q, c)
    <2>1. 0 \in Nat /\ q \in LineEnds(v) /\ 0 < q /\ v \in Seq(Element)
      BY <1>2, <1>3
    <2> QED
      BY <1>5, <2>1, PartCodes
  <1>7. \A x \in 1..Len(v), z \in 1..Len(w) : x > a + d /\ z = x + s => v[x] = w[z]
    BY <1>1 DEF Damaged
  <1>8. f \in Seq(Printed) /\ Len(f) = k /\ \A y \in 1..k : w[p + y].code = f[y]
    BY <1>1, LineCodes
  <1>9. b \in 2..k + 1 /\ q - 1 = k - b + 1 /\ k \in Nat \ {0}
    BY <1>2, <1>3
  <1>10. \A y \in 1..q - 1 : y \in 1..Len(v) /\ p + (b + y - 1) \in 1..Len(w) /\ b + y - 1 \in 1..k
                             /\ y > a + d /\ p + (b + y - 1) = y + s
    BY <1>2, <1>3
  <1> HIDE DEF c, k, f, b
  <1>11. c \in Seq(Printed) /\ Len(c) = q - 1 /\ \A y \in 1..q - 1 : c[y] = v[y].code
    <2>1. c \in Seq(Printed) /\ Len(c) = q - 1 - 0 /\ \A y \in 1..q - 1 - 0 : c[y] = v[0 + y].code
      BY <1>6 DEF PartHas
    <2>2. q - 1 - 0 = q - 1 /\ \A y \in 1..q - 1 : 0 + y = y
      BY <1>2
    <2> QED
      BY <2>1, <2>2
  <1>12. \A y \in 1..q - 1 : c[y] = f[b + y - 1]
    <2> TAKE y \in 1..q - 1
    <2>1. y \in 1..Len(v) /\ p + (b + y - 1) \in 1..Len(w) /\ b + y - 1 \in 1..k
          /\ y > a + d /\ p + (b + y - 1) = y + s
      BY <1>10
    <2>2. v[y] = w[p + (b + y - 1)]
      BY <1>7, <2>1
    <2>3. w[p + (b + y - 1)].code = f[b + y - 1]
      BY <1>8, <2>1
    <2> QED
      BY <1>11, <2>2, <2>3
  <1>13. c = SubSeq(f, b, k)
    <2>1. b \in Int /\ k \in Int /\ 1 <= b /\ k <= Len(f) /\ b <= k + 1
      BY <1>8, <1>9
    <2>2. /\ SubSeq(f, b, k) \in Seq(Printed) /\ Len(SubSeq(f, b, k)) = k - b + 1
          /\ \A y \in 1..k - b + 1 : SubSeq(f, b, k)[y] = f[b + y - 1]
      BY <1>8, <2>1, PartOf
    <2>3. Len(c) = Len(SubSeq(f, b, k)) /\ \A y \in 1..Len(c) : c[y] = SubSeq(f, b, k)[y]
      BY <1>9, <1>11, <1>12, <2>2
    <2> QED
      BY <1>11, <2>2, <2>3, SameSequence
  <1>14. TextsAreTrue(v)
    BY <1>1, DamagedTexts
  <1>15. CASE ~IsValid(c)
    BY <1>1, <1>2, <1>14, <1>15, InvalidIsSaid DEF c
  <1>16. CASE IsValid(c)
    <2>1. ~(Len(c) <= 1)
      BY <1>11, <1>16, ShortIsInvalid
    <2>2. b \in 2..k
      BY <1>9, <1>11, <2>1
    <2>3. script[i] \notin Texts
      <3> SUFFICES ASSUME script[i] \in Texts PROVE FALSE
        OBVIOUS
      <3>1. k = 1
        BY <1>2, TextSize DEF k
      <3> QED
        BY <2>2, <3>1
    <2>4. IsSpoken(script[i]) /\ f = Framed(script[i])
      BY <1>2, <2>3, TextSize DEF f
    <2>5. k = Len(script[i]) + 2
      <3>1. PICK n \in 4..255 : Len(script[i]) = n /\ Len(Framed(script[i])) = n + 2
        BY <2>4, SpokenBegins
      <3> QED
        BY <1>8, <2>4, <3>1
    <2>6. i \in DOMAIN script
      <3>1. p + Size(i) + 1 \in 1..Len(w)
        BY <1>2
      <3>2. w[p + Size(i) + 1].of = i
        BY <1>1, <1>2, EndOfLineAt
      <3> QED
        BY <3>1, <3>2 DEF Scripted
    <2>7. \A u \in Decode(c) : u.event = "unknown"
      BY <1>13, <2>2, <2>3, <2>4, <2>5, <2>6 DEF EchoFree
    <2> QED
      BY <2>7 DEF PartIsSaid, c
  <1> QED
    BY <1>15, <1>16

(* One trouble with a stream of whole lines leaves parts that mean what one *)
(* of their lines means, or nothing.                                        *)
LEMMA PartsStaySaid ==
  ASSUME NEW w, Clean(w), NEW v, NEW a, NEW s, NEW d, Damaged(w, v, a, s, d), Scripted(w), EchoFree
  PROVE  PartsAreSaid(v)
  <1> SUFFICES ASSUME NEW t, NEW q, Between(v, t, q) PROVE PartIsSaid(v, t, q)
    BY DEF PartsAreSaid
  <1> DEFINE e == Origin(a, s, q)
             i == w[e].of
  <1>1. q \in LineEnds(v)
    BY DEF Between
  <1>2. e \in LineEnds(w)
    BY <1>1, EndsRemain
  <1>3. e \in 1..Len(w) /\ w[e].code = CR
    <2>1. e \in 1..Len(w) - 1 /\ w[e].code = CR /\ Len(w) \in Nat
      BY <1>2 DEF LineEnds, Clean
    <2> QED
      BY <2>1
  <1>4. PICK p \in Nat : LineAt(w, p, i) /\ e = p + Size(i) + 1
    BY <1>3, CleanReturn
  <1>5. EndsLine(w, v, a, s, d, t, q, p, i)
    BY <1>4 DEF EndsLine
  <1> HIDE DEF e, i
  <1>6. /\ a \in Nat /\ s \in Nat /\ d \in {0, 1} /\ (d = 1 => s = 0) /\ (d = 0 => a = 0 \/ s = 1)
        /\ p \in Nat /\ Size(i) \in Nat \ {0} /\ q \in Nat
        /\ (q + 1 <= a /\ q = p + Size(i) + 1) \/ (q > a + d /\ q + s = p + Size(i) + 1)
        /\ p # 0 => p >= 2
    BY <1>5, EndsLineIs
  <1> DEFINE k == Size(i)
  <1>7. \/ q + 1 <= a
        \/ q > a + d /\ ((p # 0 /\ p - 1 > a + d + s) \/ (a = 0 /\ d = 0 /\ s = p))
        \/ q > a + d /\ a = 0 /\ d = 0 /\ p # 0 /\ s = p - 1
        \/ q > a + d /\ p # 0 /\ d + s = 1 /\ (a + 1 = p - 1 \/ a + 1 = p)
        \/ q > a + d /\ d = 1 /\ p <= a /\ a < p + k
        \/ q > a + d /\ d = 0 /\ s = 1 /\ p <= a /\ a < p + k
        \/ q > a + d /\ a = 0 /\ d = 0 /\ p < s /\ s <= p + k
    <2> HIDE DEF k
    <2>1. k \in Nat \ {0} /\ ((q + 1 <= a /\ q = p + k + 1) \/ (q > a + d /\ q + s = p + k + 1))
      BY <1>6 DEF k
    <2>2. CASE q + 1 <= a
      BY <2>2
    <2>3. CASE q > a + d /\ q + s = p + k + 1 /\ d = 1
      BY <1>6, <2>1, <2>3
    <2>4. CASE q > a + d /\ q + s = p + k + 1 /\ d = 0 /\ a = 0
      BY <1>6, <2>1, <2>4
    <2>5. CASE q > a + d /\ q + s = p + k + 1 /\ d = 0 /\ s = 1
      BY <1>6, <2>1, <2>5
    <2> QED
      BY <1>6, <2>1, <2>2, <2>3, <2>4, <2>5
  <1> QED
    BY <1>5, <1>7, IntactBefore, IntactAfter, FeedIsSaid, MergedIsSaid, ReplacedInLine, LostInLine, CutInLine

-----------------------------------------------------------------------------
(* Trouble.                                                                 *)
LEMMA AheadIsScripted ==
  ASSUME TypeInv
  PROVE  Scripted(Ahead)
  <1> DEFINE n == Len(Stream)
             u == NextLine(script, said)
  <1>1. Len(script) \in Nat /\ (\A i \in 1..Len(script) : Sayable(script[i])) /\ said \in 0..Len(script)
    BY DEF TypeInv
  <1>2. /\ Len(Ahead) = n + Len(u) /\ Len(u) \in Nat /\ n \in Nat
        /\ \A j \in 1..n : Ahead[j] = Stream[j]
        /\ \A j \in 1..Len(u) : Ahead[n + j] = u[j]
    BY AheadOfType
  <1>3. DOMAIN script = 1..Len(script)
    <2>1. script \in Seq(ToSet(script))
      BY Assumed DEF TypeInv
    <2> QED
      BY <2>1
  <1>4. \A k \in 1..n : Stream[k].of \in 1..said
    BY StreamType
  <1>5. /\ \A j \in 1..Len(u) : u[j] = [code |-> Bytes(script[said + 1])[j], of |-> said + 1]
        /\ ~(said < Len(script)) => Len(u) = 0
    BY <1>1, NextLineType
  <1> HIDE DEF n, u
  <1> SUFFICES ASSUME NEW x \in 1..Len(Ahead) PROVE Ahead[x].of \in DOMAIN script
    BY DEF Scripted
  <1>6. CASE x <= n
    <2>1. x \in 1..n
      BY <1>2, <1>6
    <2>2. Ahead[x].of \in 1..said
      BY <1>2, <1>4, <2>1
    <2> QED
      BY <1>1, <1>3, <2>2
  <1>7. CASE ~(x <= n)
    <2>1. PICK j \in 1..Len(u) : x = n + j
      <3>1. x - n \in 1..Len(u) /\ x = n + (x - n)
        BY <1>2, <1>7
      <3> QED
        BY <3>1
    <2>2. Ahead[x] = [code |-> Bytes(script[said + 1])[j], of |-> said + 1]
      BY <1>2, <1>5, <2>1
    <2>3. Ahead[x].of = said + 1
      BY <2>2, RecordOf
    <2>4. said < Len(script)
      BY <1>2, <1>5, <2>1
    <2> QED
      BY <1>1, <1>3, <2>3, <2>4
  <1> QED
    BY <1>6, <1>7

(* What happens to the stream happens to it with the next line.             *)
Followed(w, z, u) ==
    /\ Len(z) \in Nat /\ Len(u) \in Nat /\ Len(w) = Len(z) + Len(u)
    /\ \A j \in 1..Len(z) : w[j] = z[j]
    /\ \A j \in 1..Len(u) : w[Len(z) + j] = u[j]

LEMMA DamagedFollowed ==
  ASSUME NEW w, NEW z, NEW v, NEW y, NEW u, Followed(w, z, u), Followed(v, y, u), v \in Seq(Element),
         NEW a, NEW s, NEW d, Damaged(z, y, a, s, d)
  PROVE  Damaged(w, v, a, s, d)
  <1>1. /\ Len(z) \in Nat /\ Len(u) \in Nat /\ Len(w) = Len(z) + Len(u)
        /\ \A j \in 1..Len(z) : w[j] = z[j]
        /\ \A j \in 1..Len(u) : w[Len(z) + j] = u[j]
    BY DEF Followed
  <1>2. /\ Len(y) \in Nat /\ Len(v) = Len(y) + Len(u)
        /\ \A j \in 1..Len(y) : v[j] = y[j]
        /\ \A j \in 1..Len(u) : v[Len(y) + j] = u[j]
    BY DEF Followed
  <1>3. /\ a \in Nat /\ s \in Nat /\ d \in {0, 1}
        /\ Len(y) + s = Len(z) /\ a + d <= Len(y)
        /\ \A x \in 1..a : y[x] = z[x]
        /\ \A x \in 1..Len(y), j \in 1..Len(z) : x > a + d /\ j = x + s => y[x] = z[j]
        /\ d = 1 => /\ s = 0 /\ y[a + 1].of = z[a + 1].of /\ y[a + 1].code \in Latin
                    /\ y[a + 1].code # z[a + 1].code
        /\ d = 0 => a = 0 \/ s = 1
    BY DEF Damaged
  <1>0. /\ Len(z) \in Nat /\ Len(u) \in Nat /\ Len(w) = Len(z) + Len(u)
        /\ Len(y) \in Nat /\ Len(v) = Len(y) + Len(u)
        /\ a \in Nat /\ s \in Nat /\ d \in Nat /\ Len(y) + s = Len(z) /\ a + d <= Len(y)
    BY <1>1, <1>2, <1>3
  <1>4. Len(w) \in Nat /\ Len(v) \in Nat /\ Len(v) + s = Len(w) /\ a + d <= Len(v)
    <2> DEFINE i == Len(z)
               j == Len(y)
               k == Len(u)
    <2>1. i \in Nat /\ j \in Nat /\ k \in Nat /\ Len(w) = i + k /\ Len(v) = j + k /\ j + s = i /\ a + d <= j
          /\ a \in Nat /\ s \in Nat /\ d \in Nat
      BY <1>0
    <2> HIDE DEF i, j, k
    <2> QED
      BY <2>1
  <1>5. \A x \in 1..a : v[x] = w[x]
    <2> TAKE x \in 1..a
    <2>1. x \in 1..Len(y) /\ x \in 1..Len(z)
      BY <1>1, <1>2, <1>3
    <2> QED
      BY <1>1, <1>2, <1>3, <2>1
  <1>6. ASSUME NEW x \in 1..Len(v), NEW j \in 1..Len(w), x > a + d, j = x + s PROVE v[x] = w[j]
    <2>1. CASE x <= Len(y)
      <3>1. x \in 1..Len(y) /\ j \in 1..Len(z)
        BY <1>1, <1>2, <1>3, <1>6, <2>1
      <3>2. y[x] = z[j] /\ v[x] = y[x] /\ w[j] = z[j]
        BY <1>1, <1>2, <1>3, <1>6, <3>1
      <3> QED
        BY <3>2
    <2>2. CASE ~(x <= Len(y))
      <3>1. PICK r \in 1..Len(u) : x = Len(y) + r
        <4>1. x - Len(y) \in 1..Len(u) /\ x = Len(y) + (x - Len(y))
          BY <1>1, <1>2, <2>2
        <4> QED
          BY <4>1
      <3>2. j = Len(z) + r
        <4>1. j = Len(y) + r + s /\ Len(z) = Len(y) + s /\ r \in Nat /\ s \in Nat /\ Len(y) \in Nat
          BY <1>0, <1>6, <3>1
        <4> QED
          BY <4>1
      <3>3. v[x] = u[r] /\ w[j] = u[r]
        BY <1>1, <1>2, <3>1, <3>2
      <3> QED
        BY <3>3
    <2> QED
      BY <2>1, <2>2
  <1>7. d = 1 => /\ s = 0 /\ v[a + 1].of = w[a + 1].of /\ v[a + 1].code \in Latin
                 /\ v[a + 1].code # w[a + 1].code
    <2> HAVE d = 1
    <2>1. a + 1 \in 1..Len(y) /\ a + 1 \in 1..Len(z)
      BY <1>1, <1>2, <1>3
    <2>2. v[a + 1] = y[a + 1] /\ w[a + 1] = z[a + 1]
      BY <1>1, <1>2, <2>1
    <2> QED
      BY <1>3, <2>2
  <1> QED
    BY <1>3, <1>4, <1>5, <1>6, <1>7 DEF Damaged

LEMMA AheadFollows ==
  ASSUME TypeInv
  PROVE  Followed(Ahead, Stream, NextLine(script, said)) /\ Ahead \in Seq(Element)
  BY AheadOfType DEF Followed

LEMMA AheadFollowsNext ==
  ASSUME TypeInv'
  PROVE  Followed(Ahead', Stream', NextLine(script', said')) /\ Ahead' \in Seq(Element)
  <1>1. Len(script') \in Nat /\ (\A i \in 1..Len(script') : Sayable(script'[i])) /\ said' \in 0..Len(script')
    BY DEF TypeInv
  <1>2. Stream' \in Seq(Tagged(said')) /\ Ahead' = Stream' \o NextLine(script', said')
    BY StreamTypeNext DEF Ahead, NextLine
  <1>3. Len(NextLine(script', said')) \in Nat
    BY <1>1, NextLineType
  <1> DEFINE t == Stream'
             c == script'
             n == said'
             w == Ahead'
  <1>4. /\ Len(c) \in Nat /\ (\A i \in 1..Len(c) : Sayable(c[i])) /\ n \in 0..Len(c)
        /\ t \in Seq(Tagged(n)) /\ w = t \o NextLine(c, n) /\ Len(NextLine(c, n)) \in Nat
    BY <1>1, <1>2, <1>3
  <1> HIDE DEF t, c, n, w
  <1>5. /\ w \in Seq(Element) /\ Len(t) \in Nat
        /\ Len(w) = Len(t) + Len(NextLine(c, n))
        /\ \A j \in 1..Len(t) : w[j] = t[j]
        /\ \A j \in 1..Len(NextLine(c, n)) : w[Len(t) + j] = NextLine(c, n)[j]
    BY <1>4, AheadIs
  <1>6. Followed(w, t, NextLine(c, n)) /\ w \in Seq(Element)
    BY <1>4, <1>5 DEF Followed
  <1> QED
    BY <1>6 DEF t, c, n, w

LEMMA StreamIsElement ==
  ASSUME TypeInv'
  PROVE  Stream' \in Seq(Element)
  <1>1. Stream' \in Seq(Tagged(said')) /\ said' \in Nat
    <2>1. said' \in 0..Len(script') /\ Len(script') \in Nat
      BY DEF TypeInv
    <2>2. said' \in Nat
      BY <2>1
    <2> QED
      BY <2>2, StreamTypeNext
  <1> QED
    BY <1>1, TaggedIsElement

(* What happens to the stream is such a damage.                             *)
LEMMA StreamReplaced ==
  ASSUME TypeInv, TypeInv', NEW i \in DOMAIN pipe, NEW c \in Noise, Replace(i, c)
  PROVE  Damaged(Stream, Stream', Len(read_buffer) + i - 1, 0, 1)
  <1> DEFINE k == Len(read_buffer) + i
  <1>0. /\ UNCHANGED read_buffer /\ pipe[i].code # c
        /\ pipe' = [pipe EXCEPT ![i] = [pipe[i] EXCEPT !.code = c]]
    <2>1. UNCHANGED read_buffer /\ pipe[i].code # c
      BY SMT DEF Replace
    <2> QED
      BY <2>1, Replaced
  <1>1. /\ i \in 1..Len(pipe) /\ Len(pipe) \in Nat /\ Len(pipe') = Len(pipe)
        /\ \A q \in 1..Len(pipe) : q # i => pipe'[q] = pipe[q]
        /\ pipe'[i] = [pipe[i] EXCEPT !.code = c] /\ pipe[i] \in Tagged(said)
    <2>1. pipe \in Seq(Tagged(said))
      BY DEF TypeInv
    <2> QED
      BY <1>0, <2>1
  <1>2. k \in 1..Len(Stream) /\ Stream[k] = pipe[i]
    <2>1. k \in 1..Len(Stream) /\ ~(k <= Len(read_buffer)) /\ k - Len(read_buffer) = i
      BY <1>1, StreamType
    <2> QED
      BY <2>1, StreamType
  <1>3. Len(Stream') = Len(Stream) /\ Len(Stream) \in Nat /\ Len(read_buffer) \in Nat
    BY <1>0, <1>1, StreamType, StreamTypeNext
  <1>4. ASSUME NEW q \in 1..Len(Stream), q # k PROVE Stream'[q] = Stream[q]
    <2>1. Stream'[q] = IF q <= Len(read_buffer) THEN read_buffer[q] ELSE pipe'[q - Len(read_buffer)]
      BY <1>0, <1>3, StreamTypeNext
    <2>2. ~(q <= Len(read_buffer)) => q - Len(read_buffer) \in 1..Len(pipe) /\ q - Len(read_buffer) # i
      BY <1>1, <1>4, StreamType
    <2> QED
      BY <1>1, <2>1, <2>2, StreamType
  <1>5. Stream'[k] = pipe'[i]
    <2>1. k \in 1..Len(Stream') /\ ~(k <= Len(read_buffer)) /\ k - Len(read_buffer) = i
      BY <1>1, <1>2, <1>3
    <2>2. Stream'[k] = IF k <= Len(read_buffer) THEN read_buffer[k] ELSE pipe'[k - Len(read_buffer)]
      BY <1>0, <2>1, StreamTypeNext
    <2> QED
      BY <2>1, <2>2
  <1>6. pipe'[i].code = c /\ pipe'[i].of = pipe[i].of
    <2>1. pipe[i] \in [code : Printed, of : 1..said]
      BY <1>1 DEF Tagged
    <2>2. \A x \in [code : Printed, of : 1..said] : [x EXCEPT !.code = c].code = c /\ [x EXCEPT !.code = c].of = x.of
      OBVIOUS
    <2> QED
      BY <1>1, <2>1, <2>2
  <1>7. c \in Latin
    BY Assumed
  <1>8. Stream' \in Seq(Element)
    BY StreamIsElement
  <1> DEFINE a == k - 1
  <1>9. a \in Nat /\ a + 1 = k /\ a + 1 <= Len(Stream)
    BY <1>1, <1>2, <1>3
  <1>10. Stream'[a + 1].of = Stream[a + 1].of /\ Stream'[a + 1].code \in Latin /\ Stream'[a + 1].code # Stream[a + 1].code
    BY <1>0, <1>2, <1>5, <1>6, <1>7, <1>9
  <1>11. Len(read_buffer) + i - 1 = a
    BY <1>1, <1>3
  <1> HIDE DEF k, a
  <1>12. \A x \in 1..a : Stream'[x] = Stream[x]
    <2> TAKE x \in 1..a
    <2>1. x \in 1..Len(Stream) /\ x # k
      BY <1>3, <1>9
    <2> QED
      BY <1>4, <2>1
  <1>13. ASSUME NEW x \in 1..Len(Stream'), NEW y \in 1..Len(Stream), x > a + 1, y = x + 0 PROVE Stream'[x] = Stream[y]
    <2>1. x \in 1..Len(Stream) /\ x # k /\ y = x
      BY <1>3, <1>9, <1>13
    <2> QED
      BY <1>4, <2>1
  <1>14. /\ 0 \in Nat /\ 1 \in {0, 1} /\ Len(Stream') + 0 = Len(Stream) /\ a + 1 <= Len(Stream') /\ Len(Stream') \in Nat
         /\ (1 = 0 => a = 0 \/ 0 = 1)
    BY <1>3, <1>9
  <1>15. Damaged(Stream, Stream', a, 0, 1)
    BY <1>3, <1>8, <1>9, <1>10, <1>12, <1>13, <1>14 DEF Damaged
  <1> QED
    BY <1>11, <1>15

LEMMA StreamLost ==
  ASSUME TypeInv, TypeInv', NEW i \in DOMAIN pipe, Lose(i)
  PROVE  Damaged(Stream, Stream', Len(read_buffer) + i - 1, 1, 0)
  <1> DEFINE k == Len(read_buffer) + i
  <1>0. UNCHANGED read_buffer /\ pipe' = RemoveAt(pipe, i)
    BY DEF Lose
  <1>1. /\ i \in 1..Len(pipe) /\ Len(pipe) \in Nat /\ Len(pipe') = Len(pipe) - 1
        /\ \A q \in 1..i - 1 : pipe'[q] = pipe[q]
        /\ \A q \in i..Len(pipe) - 1 : pipe'[q] = pipe[q + 1]
    <2>1. pipe \in Seq(Tagged(said)) /\ i \in 1..Len(pipe) /\ Len(pipe) \in Nat
      BY DEF TypeInv
    <2> QED
      BY <1>0, <2>1, WithoutOne
  <1>2. k \in 1..Len(Stream)
    BY <1>1, StreamType
  <1>3. Len(Stream') = Len(Stream) - 1 /\ Len(Stream') \in Nat /\ Len(Stream) \in Nat /\ Len(read_buffer) \in Nat
    BY <1>0, <1>1, StreamType, StreamTypeNext
  <1>4. ASSUME NEW q \in 1..k - 1 PROVE Stream'[q] = Stream[q]
    <2>1. q \in 1..Len(Stream) /\ q \in 1..Len(Stream')
      BY <1>2, <1>3
    <2>2. /\ Stream'[q] = IF q <= Len(read_buffer) THEN read_buffer[q] ELSE pipe'[q - Len(read_buffer)]
          /\ Stream[q] = IF q <= Len(read_buffer) THEN read_buffer[q] ELSE pipe[q - Len(read_buffer)]
      BY <1>0, <2>1, StreamType, StreamTypeNext
    <2>3. ~(q <= Len(read_buffer)) => q - Len(read_buffer) \in 1..i - 1
      BY <1>1, StreamType
    <2> QED
      BY <1>1, <2>2, <2>3
  <1>5. ASSUME NEW q \in k..Len(Stream) - 1 PROVE Stream'[q] = Stream[q + 1]
    <2>1. q + 1 \in 1..Len(Stream) /\ q \in 1..Len(Stream') /\ q \in Int
      BY <1>2, <1>3
    <2>2. /\ ~(q <= Len(read_buffer)) /\ ~(q + 1 <= Len(read_buffer))
          /\ q - Len(read_buffer) \in i..Len(pipe) - 1
          /\ q + 1 - Len(read_buffer) = q - Len(read_buffer) + 1
      BY <1>1, <1>2, StreamType
    <2>3. Stream'[q] = pipe'[q - Len(read_buffer)] /\ Stream[q + 1] = pipe[q + 1 - Len(read_buffer)]
      BY <1>0, <2>1, <2>2, StreamType, StreamTypeNext
    <2> QED
      BY <1>1, <2>2, <2>3
  <1>6. Stream' \in Seq(Element)
    BY StreamIsElement
  <1> DEFINE a == k - 1
  <1>7. a \in Nat /\ a + 1 = k /\ a <= Len(Stream') /\ Len(read_buffer) + i - 1 = a
    BY <1>1, <1>2, <1>3
  <1> HIDE DEF k, a
  <1>8. \A x \in 1..a : Stream'[x] = Stream[x]
    <2>1. k - 1 = a
      BY <1>7
    <2> QED
      BY <1>4, <2>1
  <1>9. ASSUME NEW x \in 1..Len(Stream'), NEW y \in 1..Len(Stream), x > a + 0, y = x + 1 PROVE Stream'[x] = Stream[y]
    <2>1. x \in k..Len(Stream) - 1
      BY <1>3, <1>7, <1>9
    <2> QED
      BY <1>5, <1>9, <2>1
  <1>10. /\ 1 \in Nat /\ 0 \in {0, 1} /\ Len(Stream') + 1 = Len(Stream) /\ a + 0 <= Len(Stream')
         /\ 0 # 1 /\ (0 = 0 => a = 0 \/ 1 = 1)
    BY <1>3, <1>7
  <1>11. Damaged(Stream, Stream', a, 1, 0)
    BY <1>3, <1>6, <1>7, <1>8, <1>9, <1>10 DEF Damaged
  <1> QED
    BY <1>7, <1>11

LEMMA StreamRenewed ==
  ASSUME TypeInv, TypeInv', NEW n \in 0..Len(pipe), NewSession(n)
  PROVE  Damaged(Stream, Stream', 0, Len(read_buffer) + n, 0)
  <1> DEFINE g == Len(read_buffer) + n
  <1>0. pipe' = SubSeq(pipe, n + 1, Len(pipe)) /\ read_buffer' = <<>>
    BY DEF NewSession, Fresh
  <1>1. /\ g \in 0..Len(Stream) /\ Len(pipe') = Len(pipe) - n /\ Len(Stream) = Len(read_buffer) + Len(pipe)
        /\ \A j \in 1..Len(pipe) - n : pipe'[j] = Stream[g + j]
    BY <1>0, StreamIsCut, StreamType
  <1>2. Len(read_buffer') = 0
    BY <1>0
  <1>3. /\ Len(pipe) - n = Len(Stream) - g /\ Len(pipe') \in Nat /\ Len(Stream') = Len(pipe') /\ Len(Stream) \in Nat
        /\ g \in Nat
    <2>1. Len(pipe) \in Nat /\ Len(read_buffer) \in Nat /\ Len(pipe') \in Nat /\ Len(Stream) \in Nat
      BY StreamType, StreamTypeNext
    <2>2. Len(Stream') = 0 + Len(pipe')
      BY <1>2, StreamTypeNext
    <2> QED
      BY <1>1, <2>1, <2>2
  <1>4. ASSUME NEW j \in 1..Len(pipe') PROVE Stream'[j] = pipe'[j]
    <2>1. j \in 1..Len(Stream') /\ ~(j <= 0) /\ j - 0 = j
      BY <1>3
    <2> QED
      BY <1>2, <2>1, StreamTypeNext
  <1>5. Stream' \in Seq(Element)
    BY StreamIsElement
  <1> HIDE DEF g
  <1>6. ASSUME NEW x \in 1..Len(Stream'), NEW y \in 1..Len(Stream), x > 0 + 0, y = x + g PROVE Stream'[x] = Stream[y]
    <2>1. x \in 1..Len(pipe') /\ x \in 1..Len(pipe) - n /\ y = g + x
      BY <1>1, <1>3, <1>6
    <2> QED
      BY <1>1, <1>4, <2>1
  <1>7. /\ 0 \in Nat /\ 0 \in {0, 1} /\ Len(Stream') + g = Len(Stream) /\ 0 + 0 <= Len(Stream') /\ Len(Stream') \in Nat
        /\ 0 # 1 /\ (0 = 0 => 0 = 0 \/ g = 1) /\ \A x \in 1..0 : Stream'[x] = Stream[x]
    BY <1>1, <1>3
  <1>8. Damaged(Stream, Stream', 0, g, 0)
    BY <1>3, <1>5, <1>6, <1>7 DEF Damaged
  <1> QED
    BY <1>8 DEF g

-----------------------------------------------------------------------------
(* After one trouble, what the panel says and what is read.                 *)

(* Each event has a line that means it, before all that is on its way; and  *)
(* what holds after one trouble: what is still to be read is fine as well.  *)
KnownFrom(at) ==
    /\ at \in [Known -> 1..said]
    /\ \A k \in Known : handled[k] \in Meaning(script[at[k]])
    /\ \A k, m \in Known : k < m => at[k] < at[m]
    /\ \A k \in Known : \A x \in 1..Len(Ahead) : at[k] < Ahead[x].of

NoisyInv == Fine(Ahead) /\ \E at : KnownFrom(at)

LEMMA QuietKnown ==
  ASSUME TypeInv, QuietInv
  PROVE  \E at : KnownFrom(at)
  <1>1. PICK at : HandledFrom(at)
    BY DEF QuietInv
  <1>2. Known \subseteq 1..Len(handled)
    BY DEF Known, TypeInv
  <1> DEFINE to == [k \in Known |-> at[k]]
  <1>3. to \in [Known -> 1..said] /\ \A k \in Known : to[k] = at[k]
    BY <1>1, <1>2 DEF HandledFrom
  <1> HIDE DEF to
  <1>4. /\ \A k \in Known : handled[k] \in Meaning(script[to[k]])
        /\ \A k, m \in Known : k < m => to[k] < to[m]
        /\ \A k \in Known : \A x \in 1..Len(Stream) : to[k] < Stream[x].of
    BY <1>1, <1>2, <1>3 DEF HandledFrom
  <1>5. /\ Len(Ahead) \in Nat /\ Len(Stream) \in Nat /\ said \in Nat
        /\ Len(Ahead) = Len(Stream) + Len(NextLine(script, said))
        /\ Len(NextLine(script, said)) \in Nat
        /\ \A j \in 1..Len(Stream) : Ahead[j] = Stream[j]
        /\ \A j \in 1..Len(NextLine(script, said)) : Ahead[Len(Stream) + j] = NextLine(script, said)[j]
    BY AheadOfType
  <1>6. \A j \in 1..Len(NextLine(script, said)) :
           NextLine(script, said)[j] = [code |-> Bytes(script[said + 1])[j], of |-> said + 1]
    <2>1. Len(script) \in Nat /\ (\A i \in 1..Len(script) : Sayable(script[i])) /\ said \in 0..Len(script)
      BY DEF TypeInv
    <2> QED
      BY <2>1, NextLineType
  <1>7. ASSUME NEW k \in Known, NEW x \in 1..Len(Ahead) PROVE to[k] < Ahead[x].of
    <2>1. CASE x <= Len(Stream)
      <3>1. x \in 1..Len(Stream)
        BY <1>5, <2>1
      <3> QED
        BY <1>4, <1>5, <3>1
    <2>2. CASE ~(x <= Len(Stream))
      <3>1. x - Len(Stream) \in 1..Len(NextLine(script, said)) /\ x = Len(Stream) + (x - Len(Stream))
        BY <1>5, <2>2
      <3>2. Ahead[x] = [code |-> Bytes(script[said + 1])[x - Len(Stream)], of |-> said + 1]
        BY <1>5, <1>6, <3>1
      <3>3. Ahead[x].of = said + 1 /\ to[k] \in 1..said
        BY <1>3, <3>2, RecordOf
      <3> QED
        BY <1>5, <3>3
    <2> QED
      BY <2>1, <2>2
  <1> QED
    BY <1>3, <1>4, <1>7 DEF KnownFrom

(* So it is when the trouble happens.                                       *)
LEMMA DamageIsNoisy ==
  ASSUME TypeInv, SoundInv, QuietInv, TypeInv', UNCHANGED <<script, said, handled>>,
         NEW a, NEW s, NEW d, Damaged(Stream, Stream', a, s, d), EchoFree
  PROVE  NoisyInv'
  <1>0. Known' = Known
    BY DEF Known
  <1>1. Followed(Ahead, Stream, NextLine(script, said))
    BY AheadFollows
  <1>2. Followed(Ahead', Stream', NextLine(script, said)) /\ Ahead' \in Seq(Element)
    BY AheadFollowsNext
  <1>3. Damaged(Ahead, Ahead', a, s, d)
    BY <1>1, <1>2, DamagedFollowed
  <1>4. Clean(Ahead)
    BY AheadIsClean
  <1>5. Separated(Ahead')
    BY <1>3, <1>4, StaysSeparated
  <1>6. PartsAreSaid(Ahead')
    BY <1>3, <1>4, AheadIsScripted, PartsStaySaid
  <1>7. PICK at : KnownFrom(at)
    BY QuietKnown
  <1>8. /\ at \in [Known -> 1..said]
        /\ \A k \in Known : handled[k] \in Meaning(script[at[k]])
        /\ \A k, m \in Known : k < m => at[k] < at[m]
        /\ \A k \in Known : \A x \in 1..Len(Ahead) : at[k] < Ahead[x].of
    BY <1>7 DEF KnownFrom
  <1>9. ASSUME NEW k \in Known, NEW x \in 1..Len(Ahead') PROVE at[k] < Ahead'[x].of
    <2>1. Origin(a, s, x) \in 1..Len(Ahead) /\ Ahead'[x].of = Ahead[Origin(a, s, x)].of
      BY <1>3, OriginIs
    <2> QED
      BY <1>8, <2>1
  <1>10. KnownFrom(at)'
    BY <1>0, <1>8, <1>9 DEF KnownFrom
  <1>11. PartsAreSaid(Ahead)'
    BY <1>6 DEF PartsAreSaid, PartIsSaid
  <1>12. Separated(Ahead)'
    BY <1>5 DEF Separated
  <1> QED
    BY <1>10, <1>11, <1>12 DEF NoisyInv, Fine

(* A part is said wherever it stands.                                       *)
LEMMA PartMoves ==
  ASSUME NEW w \in Seq(Element), NEW v \in Seq(Element), NEW g \in Nat,
         NEW p \in Nat, NEW q \in LineEnds(v), p < q,
         NEW r \in Nat, NEW t \in LineEnds(w), r = g + p, t = g + q,
         \A x \in p + 1..q : v[x] = w[g + x], PartIsSaid(w, r, t)
  PROVE  PartIsSaid(v, p, q)
  <1>1. q \in 1..Len(v) - 1 /\ Len(v) \in Nat /\ r < t /\ q \in Nat /\ t \in Nat
    BY DEF LineEnds
  <1> DEFINE c == Codes(SubSeq(v, p + 1, q - 1))
             e == Codes(SubSeq(w, r + 1, t - 1))
             n == q - 1 - p
  <1>2. PartHas(v, p, q, c)
    BY <1>1, PartCodes
  <1>3. PartHas(w, r, t, e)
    BY <1>1, PartCodes
  <1>4. \A u \in Decode(e) : u.event # "unknown" => \E x \in r + 1..t : u \in Meaning(script[w[x].of])
    BY DEF PartIsSaid
  <1>5. PartIsSaid(v, p, q) <=>
            \A u \in Decode(c) : u.event # "unknown" => \E x \in p + 1..q : u \in Meaning(script[v[x].of])
    BY DEF PartIsSaid
  <1>6. t - 1 - r = n
    BY <1>1
  <1> HIDE DEF c, e, n
  <1>7. c \in Seq(Printed) /\ Len(c) = n /\ \A y \in 1..n : c[y] = v[p + y].code
    BY <1>2 DEF PartHas, n
  <1>8. e \in Seq(Printed) /\ Len(e) = n /\ \A y \in 1..n : e[y] = w[r + y].code
    BY <1>3, <1>6 DEF PartHas
  <1>9. \A y \in 1..n : p + y \in p + 1..q /\ r + y = g + (p + y)
    BY <1>1 DEF n
  <1>10. \A y \in 1..n : c[y] = e[y]
    BY <1>7, <1>8, <1>9
  <1>11. c = e
    BY <1>7, <1>8, <1>10, SameSequence
  <1>12. ASSUME NEW u, NEW x \in r + 1..t, u \in Meaning(script[w[x].of])
         PROVE  \E y \in p + 1..q : u \in Meaning(script[v[y].of])
    <2>1. PICK y \in p + 1..q : x = g + y
      <3>1. x - g \in p + 1..q /\ x = g + (x - g)
        BY <1>1
      <3> QED
        BY <3>1
    <2>2. v[y] = w[x]
      BY <2>1
    <2> QED
      BY <1>12, <2>2
  <1> QED
    BY <1>4, <1>5, <1>11, <1>12

(* The line after the one that is said.                                     *)
LEMMA EndsOfMore ==
  ASSUME NEW w, NEW v, NEW u, NEW i, Followed(v, w, u), LineAt(v, Len(w), i),
         Len(v) = Len(w) + Size(i) + 2, NEW j \in LineEnds(v)
  PROVE  (j \in LineEnds(w) /\ j + 1 <= Len(w)) \/ j = Len(w) + Size(i) + 1
  <1>1. /\ Len(w) \in Nat /\ Size(i) \in Nat
        /\ \A x \in 1..Len(w) : v[x] = w[x]
    BY DEF Followed, LineAt
  <1>2. j \in 1..Len(v) - 1 /\ v[j].code = CR /\ v[j + 1].code = LF
    BY DEF LineEnds
  <1>3. CASE j + 1 <= Len(w)
    <2>1. j \in 1..Len(w) /\ j + 1 \in 1..Len(w) /\ j \in 1..Len(w) - 1
      BY <1>1, <1>2, <1>3
    <2> QED
      BY <1>1, <1>2, <1>3, <2>1 DEF LineEnds
  <1>4. CASE ~(j + 1 <= Len(w))
    <2>1. Len(w) <= j /\ j \in Int /\ j < Len(w) + Size(i) + 2
      BY <1>1, <1>2, <1>4
    <2>2. ~(j < Len(w) + Size(i) + 1)
      BY <2>1, NoEndInLine
    <2> QED
      BY <1>1, <2>1, <2>2
  <1> QED
    BY <1>3, <1>4

LEMMA FineExtends ==
  ASSUME NEW w \in Seq(Element), Fine(w), NEW v \in Seq(Element), NEW u, NEW i, Followed(v, w, u),
         LineAt(v, Len(w), i), Len(v) = Len(w) + Size(i) + 2,
         \A x \in 1..Len(w) : w[x].of < i,
         \A x \in 1..Len(u) : u[x].of = i
  PROVE  Fine(v)
  <1> DEFINE n == Len(w)
             k == Size(i)
  <1>1. /\ n \in Nat /\ k \in Nat \ {0} /\ Len(v) \in Nat /\ Sayable(script[i])
    BY DEF Followed, LineAt
  <1>2. /\ Len(v) = n + k + 2 /\ Len(v) = n + Len(u) /\ Len(u) \in Nat
        /\ \A x \in 1..n : v[x] = w[x]
        /\ \A x \in 1..Len(u) : v[n + x] = u[x]
        /\ \A x \in 1..n : w[x].of < i
    BY DEF Followed
  <1>3. \A j \in LineEnds(v) : (j \in LineEnds(w) /\ j + 1 <= n) \/ j = n + k + 1
    BY EndsOfMore
  <1>4. n + k + 1 \in LineEnds(v) /\ v[n + k + 1].of = i /\ (n # 0 => n >= 2 /\ n - 1 \in LineEnds(v))
    BY <1>1, EndOfLineAt
  <1>5. \A j \in LineEnds(w) : j \in 1..n - 1 /\ j \in LineEnds(v)
    <2> TAKE j \in LineEnds(w)
    <2>1. j \in 1..n - 1 /\ w[j].code = CR /\ w[j + 1].code = LF
      BY DEF LineEnds
    <2>2. j \in 1..n /\ j + 1 \in 1..n /\ j \in 1..Len(v) - 1
      BY <1>1, <1>2, <2>1
    <2> QED
      BY <1>2, <2>1, <2>2 DEF LineEnds
  <1>6. \A y \in 1..Len(v) : ~(y <= n) => v[y].of = i
    <2> TAKE y \in 1..Len(v)
    <2> HAVE ~(y <= n)
    <2>1. y - n \in 1..Len(u) /\ n + (y - n) = y
      BY <1>1, <1>2
    <2> QED
      BY <1>2, <2>1
  <1> HIDE DEF n, k
  <1>7. Separated(v)
    <2> SUFFICES ASSUME NEW q \in LineEnds(v), NEW x \in 1..q + 1, NEW y \in q + 2..Len(v)
                 PROVE  v[x].of < v[y].of
      BY DEF Separated
    <2>1. q \in LineEnds(w) /\ q + 1 <= n /\ q \in 1..n - 1
      <3>1. q # n + k + 1
        BY <1>1, <1>2
      <3> QED
        BY <1>3, <1>5, <3>1
    <2>2. x \in 1..n /\ y \in 1..Len(v) /\ y \in Int
      BY <1>1, <1>2, <2>1
    <2>3. CASE y <= n
      <3>1. y \in q + 2..Len(w) /\ y \in 1..n
        BY <1>1, <2>1, <2>2, <2>3 DEF n
      <3>2. w[x].of < w[y].of
        BY <2>1, <3>1 DEF Fine, Separated
      <3> QED
        BY <1>2, <2>2, <3>1, <3>2
    <2>4. CASE ~(y <= n)
      BY <1>2, <1>6, <2>2, <2>4
    <2> QED
      BY <2>3, <2>4
  <1>8. PartsAreSaid(v)
    <2> SUFFICES ASSUME NEW p, NEW q, Between(v, p, q) PROVE PartIsSaid(v, p, q)
      BY DEF PartsAreSaid
    <2>1. /\ p \in 0..Len(v) /\ q \in LineEnds(v) /\ p < q
          /\ p # 0 => p - 1 \in LineEnds(v)
          /\ \A j \in LineEnds(v) : ~(p <= j /\ j < q)
      BY DEF Between
    <2>2. p \in Nat
      BY <2>1
    <2>3. CASE q \in LineEnds(w) /\ q + 1 <= n
      <3>1. q \in 1..n - 1 /\ p \in 0..Len(w)
        BY <1>1, <1>5, <2>1, <2>3 DEF n
      <3>2. p # 0 => p - 1 \in LineEnds(w)
        <4> HAVE p # 0
        <4>1. p - 1 # n + k + 1
          BY <1>1, <2>1, <2>2, <3>1
        <4> QED
          BY <1>3, <2>1, <4>1
      <3>3. Between(w, p, q)
        BY <1>5, <2>1, <2>3, <3>1, <3>2 DEF Between
      <3>4. PartIsSaid(w, p, q)
        BY <3>3 DEF Fine, PartsAreSaid
      <3>5. 0 + p = p /\ 0 + q = q /\ 0 \in Nat
        BY <2>2, <3>1
      <3>6. \A x \in p + 1..q : v[x] = w[0 + x]
        <4> TAKE x \in p + 1..q
        <4>1. x \in 1..n /\ 0 + x = x
          BY <1>1, <2>2, <3>1
        <4> QED
          BY <1>2, <4>1
      <3> QED
        BY <2>1, <2>2, <2>3, <3>4, <3>5, <3>6, PartMoves
    <2>4. CASE q = n + k + 1
      <3>1. p <= n
        <4> SUFFICES ASSUME ~(p <= n) PROVE FALSE
          OBVIOUS
        <4>1. p # 0 /\ p - 1 # n + k + 1 /\ ~(p - 1 + 1 <= n)
          BY <1>1, <2>1, <2>2, <2>4
        <4> QED
          BY <1>3, <2>1, <4>1
      <3>2. ~(p < n)
        <4> SUFFICES ASSUME p < n PROVE FALSE
          OBVIOUS
        <4>1. n # 0 /\ p <= n - 1 /\ n - 1 < q
          BY <1>1, <2>2, <2>4
        <4> QED
          BY <1>4, <2>1, <4>1
      <3>3. p = n
        BY <1>1, <2>2, <3>1, <3>2
      <3> DEFINE l == LineOf(script[i])
      <3>4. /\ l \in Seq(Printed) /\ Len(l) = k
            /\ \A y \in 1..k : v[n + y].code = l[y]
        BY LineCodes DEF n, k
      <3>5. Decode(l) = Meaning(script[i])
        BY <1>1, LineIsDecoded
      <3> HIDE DEF l
      <3>6. p + Len(l) <= Len(v) /\ p + Len(l) = q - 1
        BY <1>1, <1>2, <2>4, <3>3, <3>4
      <3>7. \A y \in 1..Len(l) : v[p + y].code = l[y]
        BY <3>3, <3>4
      <3>8. Codes(SubSeq(v, p + 1, p + Len(l))) = l
        BY <2>2, <3>4, <3>6, <3>7, CodesOfPart
      <3>9. Decode(Codes(SubSeq(v, p + 1, q - 1))) \subseteq Meaning(script[v[q].of])
        BY <1>4, <2>4, <3>5, <3>6, <3>8
      <3>10. q \in Int /\ p \in Int
        BY <1>1, <2>2, <2>4
      <3> QED
        BY <2>1, <3>9, <3>10, MeantIsSaid
    <2> QED
      BY <1>3, <2>1, <2>3, <2>4
  <1> QED
    BY <1>7, <1>8 DEF Fine

LEMMA BytesEnd ==
  ASSUME NEW l, Sayable(l)
  PROVE  /\ Len(Bytes(l)) \in Nat /\ Len(Bytes(l)) >= 2
         /\ Bytes(l)[Len(Bytes(l)) - 1] = CR /\ Bytes(l)[Len(Bytes(l))] = LF
  <1> DEFINE b == Bytes(l)
             k == Len(LineOf(l))
  <1>1. k \in Nat /\ Len(b) = k + 2 /\ b[k + 1] = CR /\ b[k + 2] = LF
    BY LineType
  <1> HIDE DEF b, k
  <1>2. Len(b) - 1 = k + 1 /\ Len(b) \in Nat /\ Len(b) >= 2
    BY <1>1
  <1> QED
    BY <1>1, <1>2 DEF b

LEMMA AheadIsStream ==
  ASSUME TypeInv, TypeInv', Say
  PROVE  /\ Stream' = Ahead /\ Len(Ahead) >= 2
         /\ Ahead[Len(Ahead) - 1] = [code |-> CR, of |-> said + 1]
         /\ Ahead[Len(Ahead)] = [code |-> LF, of |-> said + 1]
  <1> DEFINE l == script[said + 1]
             t == Sent(l, said + 1)
             n == Len(Stream)
  <1>1. /\ Sayable(l) /\ Len(t) = Len(Bytes(l)) /\ Len(t) \in Nat
        /\ \A j \in 1..Len(t) : t[j] = [code |-> Bytes(l)[j], of |-> said + 1]
        /\ Len(Stream') = n + Len(t)
        /\ \A j \in 1..n : Stream'[j] = Stream[j]
        /\ \A j \in 1..Len(t) : Stream'[n + j] = t[j]
    BY StreamIsSaid
  <1>2. NextLine(script, said) = t
    BY DEF NextLine, Say
  <1>3. /\ Ahead \in Seq(Element) /\ Len(Ahead) \in Nat /\ n \in Nat
        /\ Len(Ahead) = n + Len(NextLine(script, said))
        /\ \A j \in 1..n : Ahead[j] = Stream[j]
        /\ \A j \in 1..Len(NextLine(script, said)) : Ahead[n + j] = NextLine(script, said)[j]
    BY AheadOfType
  <1>4. Stream' \in Seq(Element)
    BY StreamIsElement
  <1>5. Len(Bytes(l)) >= 2 /\ Bytes(l)[Len(Bytes(l)) - 1] = CR /\ Bytes(l)[Len(Bytes(l))] = LF
    BY <1>1, BytesEnd
  <1> HIDE DEF t, n, l
  <1>6. Len(Ahead) = Len(Stream') /\ Len(Ahead) = n + Len(t)
    BY <1>1, <1>2, <1>3
  <1>7. ASSUME NEW j \in 1..Len(Ahead) PROVE Ahead[j] = Stream'[j]
    <2>1. CASE j <= n
      <3>1. j \in 1..n
        BY <1>3, <2>1
      <3> QED
        BY <1>1, <1>3, <3>1
    <2>2. CASE ~(j <= n)
      <3>1. j - n \in 1..Len(t) /\ n + (j - n) = j
        BY <1>1, <1>3, <1>6, <2>2
      <3> QED
        BY <1>1, <1>2, <1>3, <3>1
    <2> QED
      BY <2>1, <2>2
  <1>8. Stream' = Ahead
    BY <1>3, <1>4, <1>6, <1>7, SameSequence
  <1>9. /\ Len(t) \in 1..Len(t) /\ Len(t) - 1 \in 1..Len(t)
        /\ n + Len(t) = Len(Ahead) /\ n + (Len(t) - 1) = Len(Ahead) - 1 /\ Len(Ahead) >= 2
    <2> DEFINE k == Len(t)
               m == Len(Ahead)
    <2>1. k \in Nat /\ k >= 2 /\ n \in Nat /\ m = n + k
      BY <1>1, <1>3, <1>5, <1>6
    <2> HIDE DEF k, m
    <2>2. k \in 1..k /\ k - 1 \in 1..k /\ n + k = m /\ n + (k - 1) = m - 1 /\ m >= 2
      BY <2>1
    <2> QED
      BY <2>2 DEF k, m
  <1>10. Ahead[Len(Ahead) - 1] = t[Len(t) - 1] /\ Ahead[Len(Ahead)] = t[Len(t)]
    BY <1>2, <1>3, <1>9
  <1>11. t[Len(t) - 1] = [code |-> CR, of |-> said + 1] /\ t[Len(t)] = [code |-> LF, of |-> said + 1]
    BY <1>1, <1>5, <1>9
  <1> QED
    BY <1>8, <1>9, <1>10, <1>11

LEMMA NextIsAt ==
  ASSUME TypeInv, TypeInv', Say, said + 1 < Len(script)
  PROVE  LineAt(Ahead', Len(Ahead), said + 2) /\ Len(Ahead') = Len(Ahead) + Size(said + 2) + 2
  <1> DEFINE n == said + 2
             w == Ahead'
             t == Ahead
             b == Bytes(script[n])
             u == NextLine(script, said + 1)
  <1>1. /\ said \in Nat /\ said + 1 \in 0..Len(script) /\ Len(script) \in Nat
        /\ \A i \in 1..Len(script) : Sayable(script[i])
    BY DEF TypeInv, Say
  <1>2. said' = said + 1 /\ script' = script
    BY DEF Say
  <1>3. /\ Stream' = t /\ Len(t) >= 2
        /\ t[Len(t) - 1] = [code |-> CR, of |-> said + 1]
        /\ t[Len(t)] = [code |-> LF, of |-> said + 1]
    BY AheadIsStream
  <1>4. Followed(w, t, u) /\ w \in Seq(Element)
    BY <1>2, <1>3, AheadFollowsNext
  <1>5. said + 1 + 1 = n /\ n - 1 = said + 1 /\ n \in Nat
    BY <1>1
  <1>6. /\ Sayable(script[n]) /\ Len(u) = Len(b) /\ Len(u) \in Nat
        /\ \A j \in 1..Len(u) : u[j] = [code |-> b[j], of |-> n]
    <2> DEFINE m == said + 1
    <2>1. m \in 0..Len(script) /\ m < Len(script) /\ m + 1 = n
      BY <1>1, <1>5
    <2> HIDE DEF m
    <2>2. /\ Len(NextLine(script, m)) \in Nat
          /\ \A j \in 1..Len(NextLine(script, m)) :
                NextLine(script, m)[j] = [code |-> Bytes(script[m + 1])[j], of |-> m + 1]
          /\ Sayable(script[m + 1]) /\ Len(NextLine(script, m)) = Len(Bytes(script[m + 1]))
      BY <1>1, <2>1, NextLineType
    <2> QED
      BY <2>1, <2>2 DEF m
  <1> HIDE DEF n, w, t, b, u
  <1>7. /\ Len(t) \in Nat /\ Len(w) = Len(t) + Len(u)
        /\ \A j \in 1..Len(t) : w[j] = t[j]
        /\ \A j \in 1..Len(u) : w[Len(t) + j] = u[j]
    BY <1>4 DEF Followed
  <1>8. Len(w) \in Nat /\ Len(t) \in 0..Len(w) /\ Len(t) + Len(b) <= Len(w)
    BY <1>6, <1>7
  <1>9. /\ w[Len(t) - 1] = [code |-> CR, of |-> n - 1]
        /\ w[Len(t)] = [code |-> LF, of |-> n - 1]
    <2>1. Len(t) - 1 \in 1..Len(t) /\ Len(t) \in 1..Len(t)
      BY <1>3, <1>7
    <2> QED
      BY <1>3, <1>5, <1>7, <2>1
  <1>10. Whole(w, b, n, Len(t))
    BY <1>3, <1>6, <1>7, <1>8, <1>9 DEF Whole
  <1>11. LineAt(w, Len(t), n) /\ Len(b) = Size(n) + 2
    BY <1>6, <1>8, <1>10, WholeIsAt DEF b
  <1>12. Size(n) \in Nat
    BY <1>11 DEF LineAt
  <1>13. Len(w) = Len(t) + Size(n) + 2
    BY <1>6, <1>7, <1>11, <1>12
  <1> QED
    BY <1>11, <1>13 DEF w, t, n

(* The line after the next one is fine, and there is an end before it       *)
(* unless the trouble broke it.                                             *)
LEMMA NoisySay ==
  ASSUME TypeInv, TypeInv', NoisyInv, Say
  PROVE  NoisyInv'
  <1>1. said' = said + 1 /\ UNCHANGED <<script, handled>> /\ said < Len(script)
    BY DEF Say
  <1>2. /\ said \in Nat /\ said + 1 \in 0..Len(script) /\ Len(script) \in Nat
        /\ \A i \in 1..Len(script) : Sayable(script[i])
    BY DEF TypeInv, Say
  <1>3. /\ Ahead \in Seq(Element) /\ Len(Ahead) \in Nat
        /\ \A j \in 1..Len(Ahead) : Ahead[j].of \in 1..said + 1
    BY AheadOfType
  <1> DEFINE u == NextLine(script, said + 1)
             w == Ahead'
             t == Ahead
  <1>4. Followed(w, t, u) /\ w \in Seq(Element)
    BY <1>1, AheadFollowsNext, AheadIsStream
  <1>5. /\ Len(u) \in Nat /\ \A j \in 1..Len(u) : u[j].of = said + 2
        /\ ~(said + 1 < Len(script)) => Len(u) = 0
    <2> DEFINE m == said + 1
    <2>1. m \in 0..Len(script) /\ m + 1 = said + 2
      BY <1>2
    <2> HIDE DEF m
    <2>2. /\ Len(NextLine(script, m)) \in Nat
          /\ \A j \in 1..Len(NextLine(script, m)) :
                NextLine(script, m)[j] = [code |-> Bytes(script[m + 1])[j], of |-> m + 1]
          /\ ~(m < Len(script)) => Len(NextLine(script, m)) = 0
      BY <1>2, <2>1, NextLineType
    <2>3. \A j \in 1..Len(NextLine(script, m)) : NextLine(script, m)[j].of = m + 1
      <3> DEFINE y == NextLine(script, m)
      <3> TAKE j \in 1..Len(y)
      <3>1. y[j] = [code |-> Bytes(script[m + 1])[j], of |-> m + 1]
        BY <2>2
      <3> HIDE DEF y
      <3>2. y[j].of = m + 1
        BY <3>1, RecordOf
      <3> QED
        BY <3>2 DEF y
    <2> QED
      BY <2>1, <2>2, <2>3 DEF m
  <1>6. Fine(t)
    BY DEF NoisyInv
  <1>7. Fine(w)
    <2>1. CASE said + 1 < Len(script)
      <3>1. LineAt(w, Len(t), said + 2) /\ Len(w) = Len(t) + Size(said + 2) + 2
        BY <2>1, NextIsAt
      <3>2. \A x \in 1..Len(t) : t[x].of < said + 2
        <4> TAKE x \in 1..Len(t)
        <4>1. t[x].of \in 1..said + 1
          BY <1>3
        <4> QED
          BY <1>2, <4>1
      <3> HIDE DEF t, u, w
      <3>3. t \in Seq(Element)
        BY <1>3 DEF t
      <3> QED
        BY <1>4, <1>5, <1>6, <3>1, <3>2, <3>3, FineExtends
    <2>2. CASE ~(said + 1 < Len(script))
      <3>1. t \in Seq(Element) /\ Len(u) = 0
        BY <1>3, <1>5, <2>2
      <3> HIDE DEF t, u, w
      <3>2. Len(w) = Len(t) /\ \A j \in 1..Len(t) : w[j] = t[j]
        BY <1>4, <3>1 DEF Followed
      <3>3. w = t
        BY <1>4, <3>1, <3>2, SameSequence
      <3> QED
        BY <1>6, <3>3
    <2> QED
      BY <2>1, <2>2
  <1>8. Fine(Ahead)'
    BY <1>1, <1>7 DEF Fine, Separated, PartsAreSaid, PartIsSaid
  <1>9. PICK at : KnownFrom(at)
    BY DEF NoisyInv
  <1>10. Known' = Known
    BY <1>1 DEF Known
  <1>11. /\ at \in [Known -> 1..said]
         /\ \A k \in Known : handled[k] \in Meaning(script[at[k]])
         /\ \A k, m \in Known : k < m => at[k] < at[m]
         /\ \A k \in Known : \A x \in 1..Len(Ahead) : at[k] < Ahead[x].of
    BY <1>9 DEF KnownFrom
  <1>12. at \in [Known -> 1..said + 1]
    <2>1. 1..said \subseteq 1..said + 1
      BY <1>2
    <2> QED
      BY <1>11, <2>1
  <1>13. ASSUME NEW k \in Known, NEW x \in 1..Len(w) PROVE at[k] < w[x].of
    <2>1. /\ Len(w) = Len(t) + Len(u)
          /\ \A j \in 1..Len(t) : w[j] = t[j]
          /\ \A j \in 1..Len(u) : w[Len(t) + j] = u[j]
      BY <1>4 DEF Followed
    <2>2. at[k] \in 1..said
      BY <1>11
    <2>3. CASE x <= Len(t)
      <3>1. x \in 1..Len(t)
        BY <1>3, <1>5, <2>1, <2>3
      <3> QED
        BY <1>11, <2>1, <3>1
    <2>4. CASE ~(x <= Len(t))
      <3>1. x - Len(t) \in 1..Len(u) /\ Len(t) + (x - Len(t)) = x
        BY <1>3, <1>5, <2>1, <2>4
      <3>2. w[x].of = said + 2
        BY <1>5, <2>1, <3>1
      <3> QED
        BY <1>2, <2>2, <3>2
    <2> QED
      BY <2>3, <2>4
  <1>14. KnownFrom(at)'
    BY <1>1, <1>10, <1>11, <1>12, <1>13 DEF KnownFrom
  <1> QED
    BY <1>8, <1>14 DEF NoisyInv

(* What is read of a stream, and what is left of it.                        *)
LEMMA FinePrefix ==
  ASSUME NEW w \in Seq(Element), Fine(w), NEW b \in Seq(Element), Len(b) <= Len(w),
         \A j \in 1..Len(b) : b[j] = w[j]
  PROVE  Fine(b)
  <1>1. Len(b) \in Nat /\ Len(w) \in Nat
    OBVIOUS
  <1>2. \A j \in LineEnds(b) : j \in 1..Len(b) - 1 /\ j \in LineEnds(w)
    <2> TAKE j \in LineEnds(b)
    <2>1. j \in 1..Len(b) - 1 /\ b[j].code = CR /\ b[j + 1].code = LF
      BY DEF LineEnds
    <2>2. j \in 1..Len(b) /\ j + 1 \in 1..Len(b) /\ j \in 1..Len(w) - 1
      BY <1>1, <2>1
    <2> QED
      BY <2>1, <2>2 DEF LineEnds
  <1>3. \A j \in LineEnds(w) : j + 1 <= Len(b) => j \in LineEnds(b)
    <2> TAKE j \in LineEnds(w)
    <2> HAVE j + 1 <= Len(b)
    <2>1. j \in 1..Len(w) - 1 /\ w[j].code = CR /\ w[j + 1].code = LF
      BY DEF LineEnds
    <2>2. j \in 1..Len(b) /\ j + 1 \in 1..Len(b) /\ j \in 1..Len(b) - 1
      BY <1>1, <2>1
    <2> QED
      BY <2>1, <2>2 DEF LineEnds
  <1>4. Separated(b)
    <2> SUFFICES ASSUME NEW q \in LineEnds(b), NEW x \in 1..q + 1, NEW y \in q + 2..Len(b)
                 PROVE  b[x].of < b[y].of
      BY DEF Separated
    <2>1. q \in 1..Len(b) - 1 /\ q \in LineEnds(w)
      BY <1>2
    <2>2. x \in 1..Len(b) /\ y \in 1..Len(b) /\ y \in q + 2..Len(w)
      BY <1>1, <2>1
    <2>3. w[x].of < w[y].of
      BY <2>1, <2>2 DEF Fine, Separated
    <2> QED
      BY <2>2, <2>3
  <1>5. PartsAreSaid(b)
    <2> SUFFICES ASSUME NEW p, NEW q, Between(b, p, q) PROVE PartIsSaid(b, p, q)
      BY DEF PartsAreSaid
    <2>1. /\ p \in 0..Len(b) /\ q \in LineEnds(b) /\ p < q
          /\ p # 0 => p - 1 \in LineEnds(b)
          /\ \A j \in LineEnds(b) : ~(p <= j /\ j < q)
      BY DEF Between
    <2>2. q \in 1..Len(b) - 1 /\ p \in Nat /\ p \in 0..Len(w)
      BY <1>1, <1>2, <2>1
    <2>3. ASSUME NEW j \in LineEnds(w), p <= j, j < q PROVE FALSE
      <3>1. j \in Int
        BY DEF LineEnds
      <3>2. j + 1 <= Len(b)
        BY <1>1, <2>2, <2>3, <3>1
      <3> QED
        BY <1>3, <2>1, <2>3, <3>2
    <2>4. Between(w, p, q)
      BY <1>2, <2>1, <2>2, <2>3 DEF Between
    <2>5. PartIsSaid(w, p, q)
      BY <2>4 DEF Fine, PartsAreSaid
    <2>6. 0 + p = p /\ 0 + q = q /\ 0 \in Nat
      BY <2>2
    <2>7. \A x \in p + 1..q : b[x] = w[0 + x]
      <3> TAKE x \in p + 1..q
      <3>1. x \in 1..Len(b) /\ 0 + x = x
        BY <1>1, <2>2
      <3> QED
        BY <3>1
    <2>8. q \in LineEnds(w)
      BY <1>2, <2>1
    <2> QED
      BY <2>1, <2>2, <2>5, <2>6, <2>7, <2>8, PartMoves
  <1> QED
    BY <1>4, <1>5 DEF Fine

LEMMA FineLeft ==
  ASSUME NEW w \in Seq(Element), Fine(w), NEW v \in Seq(Element), NEW a \in Nat,
         a # 0 => a - 1 \in LineEnds(w), Len(v) = Len(w) - a,
         \A x \in 1..Len(v) : v[x] = w[a + x]
  PROVE  Fine(v)
  <1>1. Len(v) \in Nat /\ Len(w) \in Nat /\ Len(w) = Len(v) + a
    OBVIOUS
  <1>2. \A j \in LineEnds(v) : j \in 1..Len(v) - 1 /\ a + j \in LineEnds(w)
    <2> TAKE j \in LineEnds(v)
    <2>1. j \in 1..Len(v) - 1 /\ v[j].code = CR /\ v[j + 1].code = LF
      BY DEF LineEnds
    <2>2. j \in 1..Len(v) /\ j + 1 \in 1..Len(v) /\ a + j \in 1..Len(w) - 1 /\ a + (j + 1) = a + j + 1
      BY <1>1, <2>1
    <2>3. v[j] = w[a + j] /\ v[j + 1] = w[a + j + 1]
      BY <2>2
    <2> QED
      BY <2>1, <2>2, <2>3 DEF LineEnds
  <1>3. \A j \in LineEnds(w) : j >= a => j - a \in LineEnds(v)
    <2> TAKE j \in LineEnds(w)
    <2> HAVE j >= a
    <2>1. j \in 1..Len(w) - 1 /\ w[j].code = CR /\ w[j + 1].code = LF
      BY DEF LineEnds
    <2>2. j # a
      <3> SUFFICES ASSUME j = a PROVE FALSE
        OBVIOUS
      <3>1. a # 0
        BY <1>1, <2>1
      <3>2. w[a - 1 + 1].code = LF /\ a - 1 + 1 = a
        BY <3>1 DEF LineEnds
      <3> QED
        BY <2>1, <3>2, ReturnAndFeed
    <2>3. PICK y \in 1..Len(v) - 1 : y = j - a /\ j = a + y /\ j + 1 = a + (y + 1)
      <3>1. j - a \in 1..Len(v) - 1 /\ j = a + (j - a) /\ j + 1 = a + (j - a + 1)
        BY <1>1, <2>1, <2>2
      <3> QED
        BY <3>1
    <2>4. y \in 1..Len(v) /\ y + 1 \in 1..Len(v)
      BY <1>1, <2>3
    <2>5. v[y] = w[j] /\ v[y + 1] = w[j + 1]
      BY <2>3, <2>4
    <2>6. y \in LineEnds(v)
      BY <2>1, <2>3, <2>5 DEF LineEnds
    <2> QED
      BY <2>3, <2>6
  <1>4. Separated(v)
    <2> SUFFICES ASSUME NEW q \in LineEnds(v), NEW x \in 1..q + 1, NEW y \in q + 2..Len(v)
                 PROVE  v[x].of < v[y].of
      BY DEF Separated
    <2>1. q \in 1..Len(v) - 1 /\ a + q \in LineEnds(w)
      BY <1>2
    <2>2. /\ x \in 1..Len(v) /\ y \in 1..Len(v)
          /\ a + x \in 1..a + q + 1 /\ a + y \in a + q + 2..Len(w)
      BY <1>1, <2>1
    <2>3. w[a + x].of < w[a + y].of
      BY <2>1, <2>2 DEF Fine, Separated
    <2> QED
      BY <2>2, <2>3
  <1>5. PartsAreSaid(v)
    <2> SUFFICES ASSUME NEW p, NEW q, Between(v, p, q) PROVE PartIsSaid(v, p, q)
      BY DEF PartsAreSaid
    <2>1. /\ p \in 0..Len(v) /\ q \in LineEnds(v) /\ p < q
          /\ p # 0 => p - 1 \in LineEnds(v)
          /\ \A j \in LineEnds(v) : ~(p <= j /\ j < q)
      BY DEF Between
    <2>2. q \in 1..Len(v) - 1 /\ p \in Nat
      BY <1>1, <1>2, <2>1
    <2>3. PICK r \in Nat, t \in LineEnds(w) : r = a + p /\ t = a + q
      <3>1. a + p \in Nat /\ a + q \in LineEnds(w)
        BY <1>2, <2>1, <2>2
      <3> QED
        BY <3>1
    <2>4. r \in 0..Len(w) /\ r < t
      BY <1>1, <2>1, <2>2, <2>3
    <2>5. r # 0 => r - 1 \in LineEnds(w)
      <3> HAVE r # 0
      <3>1. CASE p # 0
        <4>1. a + (p - 1) \in LineEnds(w)
          BY <1>2, <2>1, <3>1
        <4>2. a + (p - 1) = r - 1
          BY <2>2, <2>3
        <4> QED
          BY <4>1, <4>2
      <3>2. CASE p = 0
        <4>1. r = a
          BY <2>3, <3>2
        <4> QED
          BY <4>1
      <3> QED
        BY <3>1, <3>2
    <2>6. ASSUME NEW j \in LineEnds(w), r <= j, j < t PROVE FALSE
      <3>1. j \in Int
        BY DEF LineEnds
      <3>2. j >= a /\ p <= j - a /\ j - a < q
        BY <2>2, <2>3, <2>6, <3>1
      <3> QED
        BY <1>3, <2>1, <3>2
    <2>7. Between(w, r, t)
      BY <2>4, <2>5, <2>6 DEF Between
    <2>8. PartIsSaid(w, r, t)
      BY <2>7 DEF Fine, PartsAreSaid
    <2>9. \A x \in p + 1..q : v[x] = w[a + x]
      <3> TAKE x \in p + 1..q
      <3>1. x \in 1..Len(v)
        BY <1>1, <2>2
      <3> QED
        BY <3>1
    <2> QED
      BY <2>1, <2>2, <2>3, <2>8, <2>9, PartMoves
  <1> QED
    BY <1>4, <1>5 DEF Fine

(* The lines that _read_stream takes from a buffer are such parts.          *)
LEMMA LinesAreParts ==
  ASSUME NEW b \in Seq(Element), NEW e, InOrder(e, b), NEW k \in 1..Cardinality(LineEnds(b))
  PROVE  /\ Between(b, e[k - 1] + 1, e[k])
         /\ e[k] \in LineEnds(b) /\ e[k] \in Int /\ e[k - 1] \in Int
  <1>1. /\ e[k - 1] \in LineEnds(b) \cup {-1} /\ e[k] > e[k - 1] /\ e[k] \in LineEnds(b)
        /\ \A j \in LineEnds(b) : j > e[k - 1] => e[k] <= j
    BY DEF InOrder
  <1>2. \A j \in LineEnds(b) : j \in 1..Len(b) - 1 /\ j \in Int /\ b[j].code = CR /\ b[j + 1].code = LF
    BY DEF LineEnds
  <1>3. Len(b) \in Nat
    OBVIOUS
  <1> DEFINE r == e[k - 1]
             q == e[k]
             p == r + 1
  <1> HIDE DEF r, q
  <1>4. /\ r \in LineEnds(b) \/ r = -1
        /\ q > r /\ q \in LineEnds(b) /\ q \in Int
        /\ \A j \in LineEnds(b) : j > r => q <= j
    BY <1>1, <1>2 DEF r, q
  <1>5. r \in Int /\ p - 1 = r /\ p \in 0..Len(b)
    <2>1. r \in LineEnds(b) => r \in 1..Len(b) - 1
      BY <1>2
    <2>2. r \in 1..Len(b) - 1 \/ r = -1
      BY <1>4, <2>1
    <2> QED
      BY <1>3, <2>2
  <1>6. p # 0 => p - 1 \in LineEnds(b)
    BY <1>4, <1>5
  <1>7. p # q
    <2>1. CASE r \in LineEnds(b)
      BY <1>2, <1>4, <2>1, ReturnAndFeed
    <2>2. CASE r = -1
      BY <1>2, <1>4, <2>2
    <2> QED
      BY <1>4, <2>1, <2>2
  <1>8. p < q
    BY <1>4, <1>5, <1>7
  <1>9. ASSUME NEW j \in LineEnds(b), p <= j, j < q PROVE FALSE
    <2>1. j > r /\ j \in Int
      BY <1>2, <1>5, <1>9
    <2> QED
      BY <1>4, <1>9, <2>1
  <1>10. Between(b, p, q)
    BY <1>4, <1>5, <1>6, <1>8, <1>9 DEF Between
  <1> QED
    BY <1>4, <1>5, <1>10 DEF r, q

(* The events of what is read, each with the number of a line that means    *)
(* it.                                                                     *)
New(b) == {x \in 1..Len(Events(Lines(b))) : Events(Lines(b))[x].event # "unknown"}

AreSaid(b, at) ==
    /\ \A x \in New(b) :
          \E y \in 1..Len(b), q \in LineEnds(b) :
             y <= q /\ at[x] = b[y].of /\ Events(Lines(b))[x] \in Meaning(script[at[x]])
    /\ \A x, z \in New(b) : x < z => at[x] < at[z]

LEMMA ReadIsSaid ==
  ASSUME NEW b \in Seq(Element), Fine(b)
  PROVE  \E at : AreSaid(b, at)
  <1> DEFINE C == Cardinality(LineEnds(b))
             ev == Events(Lines(b))
  <1>1. PICK e : /\ InOrder(e, b)
                 /\ Lines(b) = [k \in 1..C |-> Codes(SubSeq(b, e[k - 1] + 2, e[k] - 1))]
    BY LinesAreBetween
  <1>2. C \in Nat /\ DOMAIN Lines(b) = 1..C
    BY LinesAreBetween, EndsAreInside
  <1>3. PICK f \in [1..Len(ev) -> 1..C] :
            /\ \A x \in 1..Len(ev) : ev[x] \in Decode(Lines(b)[f[x]])
            /\ \A x, y \in 1..Len(ev) : x < y => f[x] < f[y]
    BY <1>2, EventsInOrder
  <1>4. ASSUME NEW k \in 1..C
        PROVE  /\ e[k] \in LineEnds(b) /\ e[k] \in 1..Len(b) - 1 /\ e[k - 1] \in Int /\ e[k - 1] >= -1
               /\ \A u \in Decode(Lines(b)[k]) : u.event # "unknown" =>
                     \E y \in e[k - 1] + 2..e[k] : u \in Meaning(script[b[y].of])
    <2>1. Between(b, e[k - 1] + 1, e[k]) /\ e[k] \in LineEnds(b) /\ e[k - 1] \in Int
      BY <1>1, LinesAreParts
    <2>2. PICK p \in Int : p = e[k - 1] + 1 /\ p + 1 = e[k - 1] + 2
      BY <2>1
    <2>3. PartIsSaid(b, p, e[k]) /\ p \in 0..Len(b)
      BY <2>1, <2>2 DEF Fine, PartsAreSaid, Between
    <2>4. Lines(b)[k] = Codes(SubSeq(b, p + 1, e[k] - 1))
      BY <1>1, <2>2
    <2>5. e[k] \in 1..Len(b) - 1
      BY <2>1 DEF LineEnds
    <2>6. e[k - 1] >= -1
      BY <2>1, <2>2, <2>3
    <2>7. \A u \in Decode(Lines(b)[k]) : u.event # "unknown" =>
             \E y \in p + 1..e[k] : u \in Meaning(script[b[y].of])
      BY <2>3, <2>4 DEF PartIsSaid
    <2> QED
      BY <2>1, <2>2, <2>5, <2>6, <2>7
  <1>5. \A x \in New(b) : x \in 1..Len(ev) /\ ev[x].event # "unknown" /\ x \in Int
    BY DEF New
  <1> DEFINE Place(x, y) == y \in e[f[x] - 1] + 2..e[f[x]] /\ ev[x] \in Meaning(script[b[y].of])
             pl == [x \in New(b) |-> CHOOSE y : Place(x, y)]
  <1>6. ASSUME NEW x \in New(b)
        PROVE  /\ f[x] \in 1..C /\ pl[x] \in e[f[x] - 1] + 2..e[f[x]]
               /\ ev[x] \in Meaning(script[b[pl[x]].of])
    <2>1. f[x] \in 1..C /\ ev[x] \in Decode(Lines(b)[f[x]]) /\ ev[x].event # "unknown"
      BY <1>3, <1>5
    <2>2. \E y : Place(x, y)
      BY <1>4, <2>1
    <2> HIDE DEF Place
    <2>3. pl[x] = CHOOSE y : Place(x, y)
      OBVIOUS
    <2>4. Place(x, pl[x])
      BY <2>2, <2>3
    <2> QED
      BY <2>1, <2>4 DEF Place
  <1> HIDE DEF pl, C
  <1> DEFINE at == [x \in New(b) |-> b[pl[x]].of]
  <1>7. \A x \in New(b) : at[x] = b[pl[x]].of
    OBVIOUS
  <1> HIDE DEF at
  <1>8. ASSUME NEW x \in New(b)
        PROVE  \E y \in 1..Len(b), q \in LineEnds(b) :
                  y <= q /\ at[x] = b[y].of /\ ev[x] \in Meaning(script[at[x]])
    <2> DEFINE q == e[f[x]]
               y == pl[x]
               r == e[f[x] - 1]
    <2>1. q \in LineEnds(b) /\ q \in 1..Len(b) - 1 /\ r \in Int /\ r >= -1 /\ y \in r + 2..q
      BY <1>4, <1>6
    <2>2. at[x] = b[y].of /\ ev[x] \in Meaning(script[at[x]])
      BY <1>6, <1>7
    <2> HIDE DEF q, y, r
    <2>3. y \in 1..Len(b) /\ y <= q
      BY <2>1
    <2> QED
      BY <2>1, <2>2, <2>3
  <1>9. ASSUME NEW x \in New(b), NEW z \in New(b), x < z PROVE at[x] < at[z]
    <2>1. f[x] \in 1..C /\ f[z] \in 1..C /\ f[x] < f[z]
      BY <1>3, <1>5, <1>6, <1>9
    <2> DEFINE q == e[f[x]]
               r == e[f[z] - 1]
               t == e[f[z]]
    <2>2. q \in LineEnds(b) /\ q \in 1..Len(b) - 1 /\ r \in Int /\ t \in 1..Len(b) - 1 /\ e[f[x] - 1] \in Int
          /\ e[f[x] - 1] >= -1
      BY <1>4, <2>1
    <2>3. pl[x] \in e[f[x] - 1] + 2..q /\ pl[z] \in r + 2..t
      BY <1>6
    <2>4. q <= r
      <3>1. CASE f[x] = f[z] - 1
        BY <2>2, <3>1
      <3>2. CASE f[x] # f[z] - 1
        <4>1. f[z] - 1 \in 1..C /\ f[x] < f[z] - 1
          BY <1>2, <2>1, <3>2 DEF C
        <4>2. e[f[x]] < e[f[z] - 1]
          BY <1>1, <2>1, <4>1, EndsIncrease DEF C
        <4> QED
          BY <2>2, <4>2
      <3> QED
        BY <3>1, <3>2
    <2> HIDE DEF q, r, t
    <2>5. pl[x] \in 1..q + 1 /\ pl[z] \in q + 2..Len(b)
      BY <2>2, <2>3, <2>4
    <2>6. b[pl[x]].of < b[pl[z]].of
      BY <2>2, <2>5 DEF Fine, Separated
    <2> QED
      BY <1>7, <2>6
  <1>10. AreSaid(b, at)
    BY <1>8, <1>9 DEF AreSaid
  <1> QED
    BY <1>10

LEMMA AheadIsRead ==
  ASSUME TypeInv, TypeInv', NEW n, NEW b \in Seq(Element), NEW a \in Nat, IsRead(n, b, a)
  PROVE  /\ Ahead \in Seq(Element) /\ Ahead' \in Seq(Element)
         /\ Len(b) <= Len(Ahead) /\ \A j \in 1..Len(b) : b[j] = Ahead[j]
         /\ \A j \in LineEnds(b) : j <= a - 1
         /\ a # 0 => a - 1 \in LineEnds(Ahead)
         /\ Len(Ahead') = Len(Ahead) - a /\ \A x \in 1..Len(Ahead') : Ahead'[x] = Ahead[a + x]
  <1> DEFINE u == NextLine(script, said)
             z == Stream
             y == Stream'
             w == Ahead
             v == Ahead'
  <1>1. /\ UNCHANGED <<script, said>> /\ Len(b) <= Len(z) /\ a <= Len(b)
        /\ \A j \in 1..Len(b) : b[j] = z[j]
        /\ \A j \in LineEnds(b) : j <= a - 1
        /\ a # 0 => a - 1 \in LineEnds(b) /\ a - 1 \in 1..Len(b) - 1
        /\ Len(y) = Len(z) - a /\ \A j \in 1..Len(z) - a : y[j] = z[a + j]
    BY DEF IsRead
  <1>2. Followed(w, z, u) /\ w \in Seq(Element)
    BY AheadFollows
  <1>3. Followed(v, y, u) /\ v \in Seq(Element)
    BY <1>1, AheadFollowsNext
  <1> HIDE DEF u, z, y, w, v
  <1>4. /\ Len(z) \in Nat /\ Len(u) \in Nat /\ Len(w) = Len(z) + Len(u)
        /\ \A j \in 1..Len(z) : w[j] = z[j]
        /\ \A j \in 1..Len(u) : w[Len(z) + j] = u[j]
    BY <1>2 DEF Followed
  <1>5. /\ Len(y) \in Nat /\ Len(v) = Len(y) + Len(u)
        /\ \A j \in 1..Len(y) : v[j] = y[j]
        /\ \A j \in 1..Len(u) : v[Len(y) + j] = u[j]
    BY <1>3 DEF Followed
  <1>6. Len(b) \in Nat /\ Len(b) <= Len(w) /\ \A j \in 1..Len(b) : b[j] = w[j]
    <2>1. Len(b) \in Nat
      OBVIOUS
    <2>2. Len(b) <= Len(w) /\ \A j \in 1..Len(b) : j \in 1..Len(z)
      BY <1>1, <1>4, <2>1
    <2> QED
      BY <1>1, <1>4, <2>1, <2>2
  <1>7. a # 0 => a - 1 \in LineEnds(w)
    <2> HAVE a # 0
    <2>1. a - 1 \in 1..Len(b) - 1 /\ b[a - 1].code = CR /\ b[a - 1 + 1].code = LF
      BY <1>1 DEF LineEnds
    <2>2. a - 1 \in 1..Len(b) /\ a - 1 + 1 \in 1..Len(b) /\ a - 1 \in 1..Len(w) - 1
      BY <1>4, <1>6, <2>1
    <2> QED
      BY <1>6, <2>1, <2>2 DEF LineEnds
  <1>8. Len(v) = Len(w) - a
    <2> DEFINE i == Len(z)
               k == Len(u)
    <2>1. i \in Nat /\ k \in Nat /\ Len(w) = i + k /\ Len(v) = i - a + k
      BY <1>1, <1>4, <1>5
    <2> HIDE DEF i, k
    <2> QED
      BY <2>1
  <1>9. ASSUME NEW x \in 1..Len(v) PROVE v[x] = w[a + x]
    <2>1. CASE x <= Len(y)
      <3>1. x \in 1..Len(y) /\ x \in 1..Len(z) - a /\ a + x \in 1..Len(z)
        BY <1>1, <1>4, <1>5, <2>1
      <3> QED
        BY <1>1, <1>4, <1>5, <3>1
    <2>2. CASE ~(x <= Len(y))
      <3>1. PICK r \in 1..Len(u) : x = Len(y) + r
        <4>1. x - Len(y) \in 1..Len(u) /\ x = Len(y) + (x - Len(y))
          BY <1>4, <1>5, <2>2
        <4> QED
          BY <4>1
      <3>2. a + x = Len(z) + r
        <4>1. Len(y) = Len(z) - a /\ Len(z) \in Nat /\ r \in Nat
          BY <1>1, <1>4
        <4> QED
          BY <3>1, <4>1
      <3> QED
        BY <1>4, <1>5, <3>1, <3>2
    <2> QED
      BY <2>1, <2>2
  <1> QED
    BY <1>1, <1>2, <1>3, <1>6, <1>7, <1>8, <1>9 DEF w, v

(* What is read is added to what was handled, from lines that come later.   *)
LEMMA NoisyRead ==
  ASSUME TypeInv, TypeInv', NoisyInv, NEW n \in 1..Len(pipe), Read(n)
  PROVE  NoisyInv'
  <1>1. PICK b \in Seq(Element), a \in Nat : IsRead(n, b, a)
    BY StreamIsRead
  <1> DEFINE ev == Events(Lines(b))
             h == Len(handled)
             w == Ahead
             v == Ahead'
  <1>2. /\ handled' = handled \o ev /\ UNCHANGED <<script, said>>
        /\ Len(b) <= Len(Stream) /\ \A j \in 1..Len(b) : b[j] = Stream[j]
    BY <1>1 DEF IsRead
  <1>3. /\ w \in Seq(Element) /\ v \in Seq(Element)
        /\ Len(b) <= Len(w) /\ \A j \in 1..Len(b) : b[j] = w[j]
        /\ \A j \in LineEnds(b) : j <= a - 1
        /\ a # 0 => a - 1 \in LineEnds(w)
        /\ Len(v) = Len(w) - a /\ \A x \in 1..Len(v) : v[x] = w[a + x]
    BY <1>1, AheadIsRead
  <1>4. /\ h \in Nat /\ Len(ev) \in Nat /\ Len(handled') = h + Len(ev)
        /\ \A j \in 1..h : handled'[j] = handled[j]
        /\ \A j \in 1..Len(ev) : handled'[h + j] = ev[j]
    BY <1>2, MoreIsHandled
  <1>5. Fine(w) /\ \E at : KnownFrom(at)
    BY DEF NoisyInv
  <1>6. PICK at : KnownFrom(at)
    BY <1>5
  <1>7. /\ at \in [Known -> 1..said]
        /\ \A k \in Known : handled[k] \in Meaning(script[at[k]])
        /\ \A k, m \in Known : k < m => at[k] < at[m]
        /\ \A k \in Known : \A x \in 1..Len(w) : at[k] < w[x].of
    BY <1>6 DEF KnownFrom
  <1>8. DOMAIN handled = 1..h /\ DOMAIN handled' = 1..Len(handled')
    BY DEF TypeInv
  <1>9. \A x \in New(b) : x \in 1..Len(ev) /\ ev[x].event # "unknown"
    BY DEF New
  <1>10. \A k \in Known' : (k \in Known /\ k \in 1..h) \/ (k - h \in New(b) /\ k \in Int /\ k > h /\ k = h + (k - h))
    <2> TAKE k \in Known'
    <2>1. k \in 1..h + Len(ev) /\ handled'[k].event # "unknown"
      BY <1>4, <1>8 DEF Known
    <2>2. CASE k <= h
      <3>1. k \in 1..h
        BY <1>4, <2>1, <2>2
      <3>2. handled[k].event # "unknown"
        BY <1>4, <2>1, <3>1
      <3> QED
        BY <1>8, <3>1, <3>2 DEF Known
    <2>3. CASE ~(k <= h)
      <3>1. PICK x \in 1..Len(ev) : x = k - h /\ k = h + x
        <4>1. k - h \in 1..Len(ev) /\ k = h + (k - h)
          BY <1>4, <2>1, <2>3
        <4> QED
          BY <4>1
      <3>2. ev[x].event # "unknown"
        BY <1>4, <2>1, <3>1
      <3>3. x \in New(b)
        BY <3>2 DEF New
      <3> QED
        BY <1>4, <2>1, <2>3, <3>1, <3>3
    <2> QED
      BY <2>2, <2>3
  <1>11. Fine(b)
    BY <1>3, <1>5, FinePrefix
  <1>12. PICK on : AreSaid(b, on)
    BY <1>11, ReadIsSaid
  <1>13. /\ \A x \in New(b) :
               \E y \in 1..Len(b), q \in LineEnds(b) :
                  y <= q /\ on[x] = b[y].of /\ ev[x] \in Meaning(script[on[x]])
         /\ \A x, z \in New(b) : x < z => on[x] < on[z]
    BY <1>12 DEF AreSaid
  <1>14. Fine(v)
    BY <1>3, <1>5, FineLeft
  <1> HIDE DEF ev, h, w, v
  <1>15. ASSUME NEW x \in New(b)
         PROVE  /\ on[x] \in 1..said /\ ev[x] \in Meaning(script[on[x]])
                /\ \A k \in Known : at[k] < on[x]
                /\ \A z \in 1..Len(v) : on[x] < v[z].of
    <2>1. PICK y \in 1..Len(b), q \in LineEnds(b) :
             y <= q /\ on[x] = b[y].of /\ ev[x] \in Meaning(script[on[x]])
      BY <1>13
    <2>2. Len(b) \in Nat /\ Len(w) \in Nat /\ Len(Stream) \in Nat
      BY <1>3, StreamType
    <2>3. q \in 1..Len(b) - 1 /\ q <= a - 1
      BY <1>3 DEF LineEnds
    <2>4. y \in 1..Len(Stream) /\ y \in 1..Len(w)
      BY <1>2, <1>3, <2>2
    <2>5. on[x] \in 1..said
      BY <1>2, <2>1, <2>4, StreamType
    <2>6. on[x] = w[y].of
      BY <1>3, <2>1
    <2>7. \A k \in Known : at[k] < on[x]
      BY <1>7, <2>4, <2>6
    <2>8. ASSUME NEW z \in 1..Len(v) PROVE on[x] < v[z].of
      <3>1. a # 0 /\ a - 1 \in LineEnds(w)
        BY <1>3, <2>3
      <3>2. y \in 1..a - 1 + 1 /\ a + z \in a - 1 + 2..Len(w)
        BY <1>3, <2>1, <2>2, <2>3
      <3>3. w[y].of < w[a + z].of
        BY <1>5, <3>1, <3>2 DEF Fine, Separated
      <3> QED
        BY <1>3, <2>6, <3>3
    <2> QED
      BY <2>1, <2>5, <2>7, <2>8
  <1>16. ASSUME NEW k \in Known, NEW z \in 1..Len(v) PROVE at[k] < v[z].of
    <2>1. a + z \in 1..Len(w)
      BY <1>3
    <2> QED
      BY <1>3, <1>7, <2>1
  <1>0. PICK to : to = [k \in Known' |-> IF k <= h THEN at[k] ELSE on[k - h]]
    OBVIOUS
  <1>17. to = [k \in Known' |-> to[k]] /\ \A k \in Known' : to[k] = IF k <= h THEN at[k] ELSE on[k - h]
    BY <1>0
  <1> DEFINE Earlier(k) == k \in Known /\ k \in 1..h /\ to[k] = at[k] /\ handled'[k] = handled[k]
             Later(k, x) == /\ x \in New(b) /\ k \in Int /\ k > h /\ k = h + x
                            /\ to[k] = on[x] /\ handled'[k] = ev[x]
  <1>18. ASSUME NEW k \in Known' PROVE Earlier(k) \/ \E x : Later(k, x)
    <2>1. CASE k \in Known /\ k \in 1..h
      <3>1. k <= h
        BY <1>4, <2>1
      <3> QED
        BY <1>4, <1>17, <2>1, <3>1
    <2>2. CASE k - h \in New(b) /\ k \in Int /\ k > h /\ k = h + (k - h)
      <3>1. PICK x : x = k - h /\ k = h + x /\ x \in New(b)
        BY <2>2
      <3>2. ~(k <= h)
        BY <1>4, <2>2
      <3>3. handled'[k] = ev[x]
        BY <1>4, <1>9, <3>1
      <3> QED
        BY <1>17, <2>2, <3>1, <3>2, <3>3
    <2> QED
      BY <1>10, <2>1, <2>2
  <1>19. ASSUME NEW k \in Known'
         PROVE  /\ to[k] \in 1..said /\ handled'[k] \in Meaning(script[to[k]])
                /\ \A z \in 1..Len(v) : to[k] < v[z].of
    <2>1. CASE Earlier(k)
      BY <1>7, <1>16, <2>1
    <2>2. CASE \E x : Later(k, x)
      BY <1>15, <2>2
    <2> QED
      BY <1>18, <2>1, <2>2
  <1>20. ASSUME NEW k \in Known', NEW m \in Known', k < m PROVE to[k] < to[m]
    <2>1. CASE Earlier(m)
      <3>1. Earlier(k)
        <4>1. ~(k > h)
          BY <1>4, <1>10, <1>20, <2>1
        <4> QED
          BY <1>18, <4>1
      <3> QED
        BY <1>7, <1>20, <2>1, <3>1
    <2>2. CASE \E x : Later(m, x)
      <3>1. PICK x : Later(m, x)
        BY <2>2
      <3>2. CASE Earlier(k)
        BY <1>15, <3>1, <3>2
      <3>3. CASE \E z : Later(k, z)
        <4>1. PICK z : Later(k, z)
          BY <3>3
        <4>2. z \in Int /\ x \in Int
          BY <1>9, <3>1, <4>1
        <4>3. z < x
          BY <1>4, <1>20, <3>1, <4>1, <4>2
        <4> QED
          BY <1>13, <3>1, <4>1, <4>3
      <3> QED
        BY <1>18, <3>2, <3>3
    <2> QED
      BY <1>18, <2>1, <2>2
  <1> HIDE DEF Earlier, Later
  <1>21. KnownFrom(to)'
    <2>1. to \in [Known' -> 1..said']
      BY <1>2, <1>17, <1>19
    <2>2. \A k \in Known' : handled'[k] \in Meaning(script'[to[k]])
      BY <1>2, <1>19
    <2>3. \A k \in Known' : \A z \in 1..Len(Ahead') : to[k] < Ahead'[z].of
      BY <1>19 DEF v
    <2>4. \A k, m \in Known' : k < m => to[k] < to[m]
      BY <1>20
    <2> QED
      BY <2>1, <2>2, <2>3, <2>4 DEF KnownFrom
  <1>22. Fine(Ahead)'
    BY <1>2, <1>14 DEF Fine, Separated, PartsAreSaid, PartIsSaid, v
  <1> QED
    BY <1>21, <1>22 DEF NoisyInv

-----------------------------------------------------------------------------
(* What is handled.                                                         *)

(* Every step keeps what holds after one trouble, and the first trouble     *)
(* begins it.                                                               *)
LEMMA NoisyStep ==
  ASSUME NoEchoes, TypeInv, SoundInv, troubles = 0 => QuietInv, troubles = 1 => NoisyInv,
         TypeInv', [Next]_vars
  PROVE  troubles' = 1 => NoisyInv'
  <1> SUFFICES ASSUME troubles' = 1 PROVE NoisyInv'
    OBVIOUS
  <1>1. CASE Say
    <2>1. troubles = 1
      BY <1>1 DEF Say
    <2> QED
      BY <1>1, <2>1, NoisySay
  <1>2. CASE \E n \in 1..Len(pipe) : Read(n)
    <2>1. PICK n \in 1..Len(pipe) : Read(n)
      BY <1>2
    <2>2. troubles = 1
      BY <2>1 DEF Read
    <2> QED
      BY <2>1, <2>2, NoisyRead
  <1>3. CASE Trouble /\ \E a, s, d : Damaged(Stream, Stream', a, s, d)
    <2>1. troubles' = troubles + 1 /\ troubles \in Nat /\ UNCHANGED <<script, said, handled>>
      BY <1>3, Assumed DEF Trouble, TypeInv
    <2>2. troubles = 0
      BY <2>1
    <2>3. script \in Scripts
      BY DEF TypeInv
    <2>4. EchoFree
      BY <2>3 DEF EchoFree, NoEchoes
    <2> QED
      BY <1>3, <2>1, <2>2, <2>4, DamageIsNoisy
  <1>4. CASE \E i \in DOMAIN pipe : Lose(i) \/ \E c \in Noise : Replace(i, c)
    <2>1. PICK i \in DOMAIN pipe : Lose(i) \/ \E c \in Noise : Replace(i, c)
      BY <1>4
    <2>2. Trouble /\ \E a, s, d : Damaged(Stream, Stream', a, s, d)
      BY <2>1, StreamLost, StreamReplaced DEF Lose, Replace
    <2> QED
      BY <1>3, <2>2
  <1>5. CASE \E n \in 0..Len(pipe) : NewSession(n)
    <2>1. Trouble /\ \E a, s, d : Damaged(Stream, Stream', a, s, d)
      BY <1>5, StreamRenewed DEF NewSession
    <2> QED
      BY <1>3, <2>1
  <1>6. CASE CallAny \/ UNCHANGED vars
    <2>1. UNCHANGED <<script, said, pipe, read_buffer, handled, unsound, troubles>>
      BY <1>6 DEF CallAny, Call, vars
    <2>2. NoisyInv
      BY <2>1
    <2>3. Ahead' = Ahead /\ Known' = Known
      BY <2>1 DEF Ahead, Stream, NextLine, Known
    <2>4. Fine(Ahead)'
      BY <2>1, <2>2, <2>3 DEF NoisyInv, Fine, Separated, PartsAreSaid, PartIsSaid
    <2>5. PICK at : KnownFrom(at)
      BY <2>2 DEF NoisyInv
    <2>6. KnownFrom(at)'
      BY <2>1, <2>3, <2>5 DEF KnownFrom
    <2> QED
      BY <2>4, <2>6 DEF NoisyInv
  <1> QED
    BY <1>1, <1>2, <1>4, <1>5, <1>6 DEF Next

Letter == 65..90 \cup 97..122

(* A line with its reserved 00, and no two letters after its command but    *)
(* what the checksum may have.                                             *)
LettersApart(m) ==
    /\ m[Len(m) - 1] = 48 /\ m[Len(m)] = 48
    /\ \A j \in 4..Len(m) - 1 : m[j] \notin Letter \/ m[j + 1] \notin Letter

(* A command that has a decoder is two letters.                             *)
LEMMA DecoderLetters ==
  ASSUME NEW d \in Decoders
  PROVE  DOMAIN d = 1..2 /\ d[1] \in 97..122 /\ d[2] \in 97..122
  <1> DEFINE used == {"a", "b", "c", "d", "e", "f", "i", "k", "l", "m", "p", "r", "s", "t", "u", "v", "w", "x", "z", "n"}
  <1>1. PICK x, y : x \in used /\ y \in used /\ d = Lower(<<x, y>>)
    BY Zenon DEF Decoders
  <1>2. \A z \in used : \E i \in 1..26 : z = Alphabet[i]
    BY DEF Alphabet
  <1> HIDE DEF used
  <1>3. (\E i \in 1..26 : x = Alphabet[i]) /\ \E j \in 1..26 : y = Alphabet[j]
    BY <1>1, <1>2
  <1>6. PICK i \in 1..26 : x = Alphabet[i]
    BY <1>3
  <1>7. PICK j \in 1..26 : y = Alphabet[j]
    BY <1>3
  <1>4. d = <<Ord(x), Ord(y)>>
    BY <1>1 DEF Lower
  <1>5. Ord(x) = 96 + i /\ Ord(y) = 96 + j
    BY <1>6, <1>7, Letters
  <1> QED
    BY <1>4, <1>5

LEMMA CommandIsLetters ==
  ASSUME NEW S, NEW c \in Seq(S), Small(GetElkCommand(c)) \in Decoders
  PROVE  Len(c) >= 4 /\ c[3] \in Letter /\ c[4] \in Letter
  <1> DEFINE g == GetElkCommand(c)
  <1>1. DOMAIN Small(g) = 1..2 /\ Small(g)[1] \in 97..122 /\ Small(g)[2] \in 97..122
    BY DecoderLetters
  <1>3. DOMAIN g = 1..2
    BY <1>1 DEF Small
  <1>4. Len(c) >= 4
    <2> SUFFICES ASSUME Len(c) < 4 PROVE FALSE
      OBVIOUS
    <2>1. g = <<>>
      BY DEF GetElkCommand
    <2>2. 1 \in DOMAIN g
      BY <1>3
    <2> QED
      BY <2>1, <2>2
  <1>5. g = SubSeq(c, 3, 4)
    BY <1>4 DEF GetElkCommand
  <1>6. g[1] = c[3] /\ g[2] = c[4]
    <2>1. 4 <= Len(c) /\ Len(c) \in Nat
      BY <1>4
    <2>2. \A x \in 1..2 : SubSeq(c, 3, 4)[x] = c[3 + x - 1]
      BY <2>1, PartOf
    <2> QED
      BY <1>5, <2>2
  <1>7. \A x \in 1..2 : Small(g)[x] = IF g[x] \in 65..90 THEN g[x] + 32 ELSE g[x]
    BY <1>3 DEF Small
  <1>8. \A x \in 1..2 : Small(g)[x] \in 97..122
    BY <1>1
  <1>9. \A x \in 1..2 : g[x] \in Letter
    BY <1>7, <1>8 DEF Letter
  <1> QED
    BY <1>4, <1>6, <1>9

(* What such a line ends with is no message.                                *)
LEMMA CutIsUnknown ==
  ASSUME NEW m, IsSpoken(m), LettersApart(m), NEW k \in 2..Len(m) + 2,
         NEW v \in Decode(SubSeq(Framed(m), k, Len(m) + 2))
  PROVE  v.event = "unknown"
  <1> DEFINE f == Framed(m)
  <1>1. PICK n \in 4..255 : /\ Len(m) = n /\ f \in Seq(Latin) /\ Len(f) = n + 2
                            /\ \A i \in 1..n : f[i] = m[i]
    BY FrameIs
  <1> DEFINE c == SubSeq(f, k, n + 2)
             l == n + 3 - k
  <1>2. k \in 2..n + 2 /\ v \in Decode(c)
    BY <1>1
  <1>3. c \in Seq(Latin) /\ Len(c) = l /\ \A i \in 1..l : c[i] = f[k + i - 1]
    <2>1. 1 <= k /\ k \in Int /\ n + 2 \in Int /\ n + 2 <= Len(f) /\ k <= n + 2 + 1 /\ n + 2 - k + 1 = l
      BY <1>1, <1>2
    <2> QED
      BY <1>1, <2>1, PartOf
  <1> HIDE DEF f, c
  <1>4. IsValid(c)
    <2> SUFFICES ASSUME ~IsValid(c) PROVE FALSE
      OBVIOUS
    <2>1. PICK j \in 1..Len(c) : c[j] \in {Granted, Refused}
      BY <1>2, <1>3, InvalidIsText
    <2>2. c[j] \in Latin
      BY <1>3
    <2>3. Granted \in {Prompt, Granted, Refused} /\ Refused \in {Prompt, Granted, Refused}
      OBVIOUS
    <2>4. c[j] > 255
      BY <2>1, <2>3, NoText, Zenon
    <2>5. c[j] \in 0..255
      BY <2>2 DEF Latin
    <2>6. \A z \in 0..255 : ~(z > 255)
      OBVIOUS
    <2> QED
      BY <2>4, <2>5, <2>6, Zenon
  <1>5. v = Message(c)
    BY <1>2, <1>4 DEF Decode
  <1>6. Small(GetElkCommand(c)) \notin Decoders
    <2> SUFFICES ASSUME Small(GetElkCommand(c)) \in Decoders PROVE FALSE
      OBVIOUS
    <2>1. l >= 4 /\ c[3] \in Letter /\ c[4] \in Letter
      BY <1>3, CommandIsLetters
    <2>2. k + 3 <= n + 2 /\ k + 2 \in Int
      BY <1>1, <1>2, <2>1
    <2>3. c[3] = f[k + 2] /\ c[4] = f[k + 3]
      BY <1>2, <1>3, <2>1
    <2>4. m[n - 1] = 48 /\ m[n] = 48 /\ \A j \in 4..n - 1 : m[j] \notin Letter \/ m[j + 1] \notin Letter
      BY <1>1 DEF LettersApart
    <2>5. CASE k + 3 <= n
      <3>1. k + 2 \in 4..n - 1 /\ k + 2 + 1 = k + 3 /\ k + 2 \in 1..n /\ k + 3 \in 1..n
        BY <1>1, <1>2, <2>5
      <3> QED
        BY <1>1, <2>1, <2>3, <2>4, <3>1
    <2>6. CASE k + 3 = n + 1
      <3>1. k + 2 = n /\ n \in 1..n
        BY <1>1, <1>2, <2>6
      <3>2. c[3] = 48
        BY <1>1, <2>3, <2>4, <3>1
      <3> QED
        BY <2>1, <3>2 DEF Letter
    <2>7. CASE k + 3 = n + 2
      <3>1. k = n - 1 /\ l = 4 /\ n - 1 \in 1..n /\ n \in 1..n /\ k + 1 = n
        BY <1>1, <1>2, <2>7
      <3>2. c[1] = 48 /\ c[2] = 48
        BY <1>1, <1>2, <1>3, <2>4, <3>1
      <3>3. First(c, 2) = <<48, 48>>
        <4>1. Len(c) >= 2 /\ c \in Seq(Latin)
          BY <1>3, <3>1
        <4>2. First(c, 2) = <<c[1], c[2]>>
          BY <4>1, FirstTwo
        <4> QED
          BY <3>2, <4>2
      <3>4. HexValue(<<48, 48>>) = {0}
        <4>1. HexByte(0) = <<48, 48>>
          BY DEF HexByte, HexChar
        <4>2. 0 \in 0..255
          OBVIOUS
        <4>3. HexValue(HexByte(0)) = {0}
          BY <4>2, HexBytes
        <4> QED
          BY <4>1, <4>3, Zenon
      <3>5. 2 \in HexValue(First(c, 2))
        BY <1>3, <1>4, <3>1 DEF IsValid
      <3> QED
        BY <3>3, <3>4, <3>5
    <2> QED
      BY <1>1, <1>2, <2>2, <2>5, <2>6, <2>7
  <1> QED
    BY <1>5, <1>6 DEF Message

(* Lines of figures, with no two letters in a row after the command, have   *)
(* no echoes: nothing that such a line ends with is taken for a message     *)
(* (message.py:51-90).                                                      *)
THEOREM LettersApartHaveNoEchoes ==
  ASSUME \A s \in Scripts : \A i \in DOMAIN s : s[i] \in Texts \/ LettersApart(s[i])
  PROVE  NoEchoes
  <1> SUFFICES ASSUME NEW s \in Scripts, NEW i \in DOMAIN s, s[i] \notin Texts,
                      NEW k \in 2..Len(s[i]) + 2,
                      NEW v \in Decode(SubSeq(Framed(s[i]), k, Len(s[i]) + 2))
               PROVE  v.event = "unknown"
    BY DEF NoEchoes
  <1>1. IsSpoken(s[i]) /\ LettersApart(s[i])
    BY WireAssumption
  <1> QED
    BY <1>1, CutIsUnknown

(* Lines of which none ends like a line, of any number and length, cut by   *)
(* read() anywhere, of which one byte is lost or replaced by any other one, *)
(* or a session ends and the next begins anywhere: what is handled is what  *)
(* the panel said, once and in its order (connection.py:83-101,             *)
(* message.py:51-90).                                                       *)
THEOREM OneTroubleIsHarmless ==
  ASSUME NoEchoes
  PROVE  Spec => [](troubles <= 1 => HandledWasSaid)
  <1> DEFINE Q == troubles = 0 => QuietInv
             N == troubles = 1 => NoisyInv
             H == troubles <= 1 => HandledWasSaid
  <1>1. TypeInv /\ Q /\ N => H
    <2> SUFFICES ASSUME TypeInv, Q, N, troubles <= 1 PROVE HandledWasSaid
      OBVIOUS
    <2>1. troubles = 0 \/ troubles = 1
      <3>1. troubles \in Nat
        BY Assumed DEF TypeInv
      <3> QED
        BY <3>1
    <2>2. PICK at : KnownFrom(at)
      BY <2>1, QuietKnown DEF NoisyInv
    <2> QED
      BY <2>2 DEF KnownFrom, HandledWasSaid
  <1>2. Init /\ TypeInv => Q /\ N
    <2>1. Init => troubles = 0
      BY DEF Init
    <2> QED
      BY <2>1, QuietStart
  <1>3. TypeInv /\ SoundInv /\ Q /\ TypeInv' /\ [Next]_vars => Q'
    BY QuietStep
  <1>4. TypeInv /\ SoundInv /\ Q /\ N /\ TypeInv' /\ [Next]_vars => N'
    BY NoisyStep
  <1> HIDE DEF Q, N, H
  <1>5. Spec => []H
    BY <1>1, <1>2, <1>3, <1>4, TypeAlways, SoundStart, SoundStep, PTL DEF Spec
  <1> QED
    BY <1>5 DEF H

(* And so always, where nothing else happens.                               *)
COROLLARY HandledWasSaidAlways ==
  ASSUME NoEchoes, MaxTrouble = 1
  PROVE  Spec => []HandledWasSaid
  <1>1. TypeInv => troubles <= 1
    BY DEF TypeInv
  <1>2. Spec => [](troubles <= 1 => HandledWasSaid)
    BY OneTroubleIsHarmless
  <1> QED
    BY <1>1, <1>2, TypeAlways, PTL
=============================================================================
