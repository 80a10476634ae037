------------------------------- MODULE Codecs -------------------------------
(***************************************************************************)
(* message.py of elkm1_lib: the frame of a line, with its length and its    *)
(* checksum, and the layout of the messages that the client writes. A line  *)
(* that arrives is a sequence of ISO-8859-1 codes without its line end; the *)
(* texts of a secure panel are one code each, beyond those. A message that  *)
(* is to be written is a sequence of Unicode characters, on the wire one of *)
(* bytes.                                                                  *)
(***************************************************************************)
EXTENDS Integers, Sequences, SequencesExt

CR == 13
LF == 10
Prompt == 256       \* "Username: ", "Password: "
Granted == 257      \* "Login successful"
Refused == 258      \* "Username/Password not found", "Disabled"

Alphabet == <<"a", "b", "c", "d", "e", "f", "g", "h", "i", "j", "k", "l", "m",
              "n", "o", "p", "q", "r", "s", "t", "u", "v", "w", "x", "y", "z">>
Ord(letter) == 96 + CHOOSE i \in DOMAIN Alphabet : Alphabet[i] = letter
Lower(cmd) == [i \in DOMAIN cmd |-> Ord(cmd[i])]
Upper(cmd) == [i \in DOMAIN cmd |-> Ord(cmd[i]) - 32]

-----------------------------------------------------------------------------
(* Numbers. Digits is str(), Padded a format with a width, which a number   *)
(* that needs more digits exceeds, HexByte the format 02X.                  *)

Digits(n) ==
    LET width == CHOOSE w \in 1..9 : n < 10 ^ w /\ (w = 1 \/ n >= 10 ^ (w - 1))
    IN  [i \in 1..width |-> 48 + ((n \div (10 ^ (width - i))) % 10)]

ZeroPadded(s, w) == [i \in 1..w - Len(s) |-> 48] \o s
Padded(n, w) ==
    IF n < 0 THEN <<45>> \o ZeroPadded(Digits(-n), w - 1) ELSE ZeroPadded(Digits(n), w)

HexChar(d) == IF d < 10 THEN 48 + d ELSE 55 + d
HexByte(n) ==
    (IF n > 255 THEN <<HexChar(n \div 256)>> ELSE <<>>) \o <<HexChar((n \div 16) % 16), HexChar(n % 16)>>

HexDigit(c) ==
    CASE c \in 48..57 -> {c - 48}
      [] c \in 65..70 -> {c - 55}
      [] c \in 97..102 -> {c - 87}
      [] OTHER -> {}

(* int(s, 16) of one or two characters takes white space, a sign and small  *)
(* letters as well; empty if it raises a ValueError.                        *)
Space(c) == c \in 9..13 \cup 28..32 \cup {133, 160}
Stripped(s) ==
    IF Len(s) = 2 /\ Space(s[1]) THEN <<s[2]>>
    ELSE IF Len(s) = 2 /\ Space(s[2]) THEN <<s[1]>> ELSE s
HexValue(s) ==
    LET t == Stripped(s)
    IN  CASE Len(t) = 1 -> HexDigit(t[1])
          [] Len(t) = 2 /\ t[1] = 43 -> HexDigit(t[2])
          [] Len(t) = 2 /\ t[1] = 45 -> {-d : d \in HexDigit(t[2])}
          [] Len(t) = 2 /\ t[1] \notin {43, 45} ->
                {16 * pair[1] + pair[2] : pair \in HexDigit(t[1]) \X HexDigit(t[2])}
          [] OTHER -> {}

-----------------------------------------------------------------------------
(* The frame.                                                              *)

Sum(s) ==
    LET total[i \in 0..Len(s)] == IF i = 0 THEN 0 ELSE total[i - 1] + s[i]
    IN  total[Len(s)]

(* write_msg: the checksum that makes the sum a multiple of 256.            *)
NotReduced(s) == 256 - (Sum(s) % 256)     \* slip: 256 when the sum is one already
Checksum(s) == (256 - Sum(s)) % 256
Framed(msg) == msg \o HexByte(Checksum(msg))

(* encode(): what is written of the characters. The checksum is of the      *)
(* characters, not of these bytes.                                         *)
Six(c, n) == 128 + ((c \div n) % 64)
Utf8Char(c) ==
    CASE c < 128 -> <<c>>
      [] 128 <= c /\ c < 2048 -> <<192 + c \div 64, Six(c, 1)>>
      [] 2048 <= c /\ c < 65536 -> <<224 + c \div 4096, Six(c, 64), Six(c, 1)>>
      [] 65536 <= c -> <<240 + c \div 262144, Six(c, 4096), Six(c, 64), Six(c, 1)>>
Utf8(s) == FlattenSeq([i \in DOMAIN s |-> Utf8Char(s[i])])
Written(msg) == Utf8(Framed(msg))

First(s, n) == SubSeq(s, 1, IF Len(s) < n THEN Len(s) ELSE n)
Last2(s) == IF Len(s) < 2 THEN s ELSE SubSeq(s, Len(s) - 1, Len(s))
But2(s) == SubSeq(s, 1, Len(s) - 2)

(* _is_valid_length_and_checksum                                           *)
AnyChecksum(line) == TRUE       \* slip: only the length
ChecksumIsGood(line) == \E c \in HexValue(Last2(line)) : (c + Sum(But2(line))) % 256 = 0
IsValid(line) == Len(line) - 2 \in HexValue(First(line, 2)) /\ ChecksumIsGood(line)

GetElkCommand(line) == IF Len(line) < 4 THEN <<>> ELSE SubSeq(line, 3, 4)

(* decode: the event that is notified, if any. A ValueError and None are    *)
(* the same here. A decoder is looked up by the name of the command.        *)
Small(cmd) == [i \in DOMAIN cmd |-> IF cmd[i] \in 65..90 THEN cmd[i] + 32 ELSE cmd[i]]
Decoders ==
    {Lower(c) : c \in {<<"a", "m">>, <<"a", "s">>, <<"a", "z">>, <<"c", "c">>, <<"c", "r">>,
        <<"c", "s">>, <<"c", "v">>, <<"e", "e">>, <<"i", "c">>, <<"i", "e">>, <<"k", "a">>,
        <<"k", "c">>, <<"k", "f">>, <<"l", "d">>, <<"l", "w">>, <<"p", "c">>, <<"p", "s">>,
        <<"r", "p">>, <<"r", "r">>, <<"s", "d">>, <<"s", "s">>, <<"s", "t">>, <<"t", "c">>,
        <<"t", "r">>, <<"u", "a">>, <<"v", "n">>, <<"x", "k">>, <<"z", "b">>, <<"z", "c">>,
        <<"z", "d">>, <<"z", "p">>, <<"z", "s">>, <<"z", "v">>}}

Message(line) ==
    [event |-> IF Small(GetElkCommand(line)) \in Decoders THEN "message" ELSE "unknown",
     data |-> SubSeq(line, 3, Len(line) - 2)]
Login(text) == [event |-> "login", data |-> <<text>>]

Decode(line) ==
    IF IsValid(line) THEN {Message(line)}
    ELSE IF line = <<>> \/ First(line, 1) = <<Prompt>> THEN {}
    ELSE IF Granted \in ToSet(line) THEN {Login(Granted)}
    ELSE {Login(t) : t \in {Refused} \cap {line[1]}}

-----------------------------------------------------------------------------
(* The encoders. A message is its length, its command, its arguments in     *)
(* fields of a width, and 00. A field holds a number, the number of an      *)
(* element, one more than its index, a housecode, a letter and a number, or *)
(* a text of the client, cut or filled to its width. Fixed stands for ASCII *)
(* codes of just that width: a function key, a time.                        *)

Number(w) == [as |-> "number", width |-> w]
NumberOf(w) == [as |-> "index", width |-> w]
House == [as |-> "house", width |-> 3]
Fixed(w) == [as |-> "fixed", width |-> w]
Text(w) == [as |-> "text", width |-> w]

Layout(length, cmd, fields) == [length |-> length, cmd |-> cmd, fields |-> fields]

DisplayFields == <<NumberOf(1), Number(1), Number(1), Number(5), Text(16), Text(16)>>

EncodersToKf ==
    {Layout(13, <<"a">>, <<Number(1), NumberOf(1), Number(6)>>),
     Layout(6, <<"a", "s">>, <<>>), Layout(6, <<"a", "z">>, <<>>),
     Layout(9, <<"c", "f">>, <<NumberOf(3)>>), Layout(9, <<"c", "t">>, <<NumberOf(3)>>),
     Layout(14, <<"c", "n">>, <<NumberOf(3), Number(5)>>),
     Layout(6, <<"c", "s">>, <<>>), Layout(6, <<"c", "p">>, <<>>),
     Layout(8, <<"c", "r">>, <<NumberOf(2)>>),
     Layout(13, <<"c", "w">>, <<NumberOf(2), Number(5)>>),
     Layout(8, <<"c", "v">>, <<NumberOf(2)>>),
     Layout(13, <<"c", "x">>, <<NumberOf(2), Number(5)>>),
     Layout(46, <<"d", "m">>, DisplayFields),
     Layout(6, <<"k", "a">>, <<>>), Layout(9, <<"k", "f">>, <<NumberOf(2), Fixed(1)>>)}

EncodersFromLw ==
    {Layout(6, <<"l", "w">>, <<>>),
     Layout(17, <<"p", "c">>, <<House, Number(2), Number(2), Number(4)>>),
     Layout(9, <<"p", "f">>, <<House>>), Layout(9, <<"p", "n">>, <<House>>),
     Layout(7, <<"p", "s">>, <<Number(1)>>), Layout(9, <<"p", "t">>, <<House>>),
     Layout(11, <<"s", "d">>, <<Number(2), NumberOf(3)>>),
     Layout(9, <<"s", "p">>, <<Number(3)>>), Layout(6, <<"s", "s">>, <<>>),
     Layout(9, <<"s", "w">>, <<Number(3)>>), Layout(19, <<"r", "w">>, <<Fixed(13)>>),
     Layout(9, <<"t", "n">>, <<NumberOf(3)>>), Layout(8, <<"t", "r">>, <<NumberOf(2)>>),
     Layout(11, <<"t", "s">>, <<NumberOf(2), Number(2), Number(1)>>),
     Layout(12, <<"u", "a">>, <<Number(6)>>), Layout(6, <<"v", "n">>, <<>>),
     Layout(16, <<"z", "b">>, <<Number(3), NumberOf(1), Number(6)>>),
     Layout(6, <<"z", "d">>, <<>>), Layout(6, <<"z", "p">>, <<>>), Layout(6, <<"z", "s">>, <<>>),
     Layout(9, <<"z", "t">>, <<NumberOf(3)>>), Layout(9, <<"z", "v">>, <<NumberOf(3)>>)}

Encoders == EncodersToKf \cup EncodersFromLw

IndexToHousecode(index) == <<65 + index \div 16>> \o Padded((index % 16) + 1, 2)

(* The index of a housecode, empty if it raises a ValueError.               *)
HousecodeToIndex(s) ==
    {(s[1] - 65) * 16 + n - 1 :
        n \in {m \in 1..16 : s[1] \in 65..80 /\ Tail(s) \in {Digits(m), Padded(m, 2)}}}

Zeros(w) == [i \in 1..w |-> 48]

(* The format ^<w.w: no more than w characters, and ^ in the place of those *)
(* that are missing.                                                       *)
Shown(text, w) == [i \in 1..w |-> IF i <= Len(text) THEN text[i] ELSE 94]

Encoded(field, arg) ==
    CASE field.as = "number" -> Padded(arg, field.width)
      [] field.as = "index" -> Padded(arg + 1, field.width)
      [] field.as = "house" -> IndexToHousecode(arg)
      [] field.as = "fixed" -> Zeros(field.width)
      [] field.as = "text" -> Shown(arg, field.width)

Encode(e, args) ==
    HexByte(e.length) \o Lower(e.cmd)
        \o FlattenSeq([i \in DOMAIN e.fields |-> Encoded(e.fields[i], args[i])]) \o Zeros(2)

(* index_to_housecode raises a ValueError beyond the last light.            *)
CanEncode(e, args) ==
    \A i \in DOMAIN e.fields : e.fields[i].as = "house" => args[i] \in 0..255
=============================================================================
