-------------------------------- MODULE Wire --------------------------------
(***************************************************************************)
(* The bytes between an ElkM1 panel and the client: Connection._read_stream *)
(* and write_msg of elkm1_lib. Lines arrive cut anywhere by read(), a byte  *)
(* may be lost or replaced, and a session may end and be followed by one    *)
(* that begins anywhere in a line. In the other direction a message is      *)
(* formatted and encoded, and the panel obeys it if it can read it.         *)
(*                                                                         *)
(* The two directions share nothing: a behaviour with lines to say has no   *)
(* calls.                                                                  *)
(***************************************************************************)
EXTENDS Codecs, FiniteSets

CONSTANTS
    Scripts,        \* what the panel may say: sequences of messages or texts
    Noise,          \* codes that a byte may be replaced by
    Arg,            \* arguments of the calls
    Words,          \* texts of the calls
    None,           \* no call yet
    MaxTrouble      \* bound: bytes lost or replaced, sessions ended

Texts == {<<Prompt>>, <<Granted>>, <<Refused>>}
Latin == 0..255

(* The panel writes the length of a line in two digits, and says what the   *)
(* client has a decoder for.                                               *)
IsSpoken(line) ==
    /\ line \in Seq(Latin \ {CR, LF}) /\ Len(line) \in 4..255
    /\ First(line, 2) = HexByte(Len(line))
    /\ Small(GetElkCommand(line)) \in Decoders

ASSUME WireAssumption ==
    /\ \A s \in Scripts : s \in Seq(ToSet(s))
    /\ \A s \in Scripts : \A i \in DOMAIN s : s[i] \in Texts \/ IsSpoken(s[i])
    /\ Noise \subseteq Latin
    /\ MaxTrouble \in Nat

ASSUME ArgAssumption == Arg \subseteq -(10 ^ 8)..10 ^ 8

(* What encode() has bytes for, without the ends of a line.                 *)
IsCharacter(c) == c \in Nat /\ (c < 55296 \/ 57344 <= c) /\ c <= 1114111 /\ c \notin {CR, LF}
Ascii == 0..127

ASSUME WordsAssumption ==
    \A w \in Words : w \in Seq(ToSet(w)) /\ \A c \in ToSet(w) : IsCharacter(c)

VARIABLES
    script,         \* what the panel has to say
    said,           \* how much of it was said
    pipe,           \* codes on their way, each with the number of its line
    read_buffer,    \* codes of an incomplete line that were read, in the same form
    handled,        \* the events that were notified
    unsound,        \* history: lines of which a code was touched, or their start
    asked, obeyed,  \* history: the call of the client, and what the panel understood
    troubles        \* bound

vars == <<script, said, pipe, read_buffer, handled, unsound, asked, obeyed, troubles>>

Codes(s) == [i \in DOMAIN s |-> s[i].code]

Init ==
    /\ script \in Scripts
    /\ said = 0
    /\ pipe = <<>> /\ read_buffer = <<>> /\ handled = <<>>
    /\ unsound = {} /\ troubles = 0
    /\ asked = None /\ obeyed = {}

-----------------------------------------------------------------------------
(* The panel says a line; the frame is the one the client checks.           *)
Bytes(line) == (IF line \in Texts THEN line ELSE Framed(line)) \o <<CR, LF>>

Say ==
    /\ said < Len(script)
    /\ said' = said + 1
    /\ LET b == Bytes(script[said + 1])
       IN  pipe' = pipe \o [i \in DOMAIN b |-> [code |-> b[i], of |-> said + 1]]
    /\ UNCHANGED <<script, read_buffer, handled, unsound, asked, obeyed, troubles>>

(* What can happen to the stream. Without its line end a line takes the     *)
(* next one with it.                                                       *)
Trouble ==
    /\ troubles < MaxTrouble
    /\ troubles' = troubles + 1
    /\ UNCHANGED <<script, said, handled, asked, obeyed>>

Touched(x) == IF x.code \in {CR, LF} THEN {x.of, x.of + 1} ELSE {x.of}

Replace(i, c) ==
    /\ Trouble
    /\ pipe[i].code # c
    /\ pipe' = [pipe EXCEPT ![i].code = c]
    /\ unsound' = unsound \cup Touched(pipe[i])
    /\ UNCHANGED read_buffer

Lose(i) ==
    /\ Trouble
    /\ pipe' = RemoveAt(pipe, i)
    /\ unsound' = unsound \cup Touched(pipe[i])
    /\ UNCHANGED read_buffer

(* A new session has a new reader: what is in the buffer is gone, and of    *)
(* what is on its way any beginning. One that begins with the LF of a line  *)
(* takes it for the first code of the next.                                *)
Kept == read_buffer     \* slip: the buffer is the connection's
Fresh == <<>>

NewSession(n) ==
    /\ Trouble
    /\ pipe' = SubSeq(pipe, n + 1, Len(pipe))
    /\ read_buffer' = Fresh
    /\ LET gone == read_buffer \o SubSeq(pipe, 1, n)
           between == gone # <<>> /\ Last(gone).code = CR
       IN  unsound' = unsound \cup {x.of : x \in ToSet(gone)}
                        \cup (IF between THEN {Last(gone).of + 1} ELSE {})

-----------------------------------------------------------------------------
(* _read_stream: what one read() delivers is appended to the buffer, and    *)
(* every complete line is taken from it and decoded.                        *)

LineEnds(s) == {i \in 1..Len(s) - 1 : s[i].code = CR /\ s[i + 1].code = LF}
LastEnd(s) == CHOOSE i \in LineEnds(s) : \A j \in LineEnds(s) : j <= i

OneLine(s) == SubSeq(s, 2 + (CHOOSE i \in LineEnds(s) : \A j \in LineEnds(s) : i <= j), Len(s))
Rest(s) == SubSeq(s, LastEnd(s) + 2, Len(s))

(* The lines of a buffer, each from after an end to the next one.           *)
Lines(s) ==
    LET end[k \in 0..Cardinality(LineEnds(s))] ==
            IF k = 0 THEN -1
            ELSE CHOOSE i \in LineEnds(s) :
                    i > end[k - 1] /\ \A j \in LineEnds(s) : j > end[k - 1] => i <= j
    IN  [k \in 1..Cardinality(LineEnds(s)) |-> Codes(SubSeq(s, end[k - 1] + 2, end[k] - 1))]

Events(lines) == FlattenSeq([k \in DOMAIN lines |-> SetToSeq(Decode(lines[k]))])

Read(n) ==
    LET buffer == read_buffer \o SubSeq(pipe, 1, n)
    IN  /\ pipe' = SubSeq(pipe, n + 1, Len(pipe))
        /\ handled' = handled \o Events(Lines(buffer))
        /\ read_buffer' = IF LineEnds(buffer) = {} THEN buffer ELSE Rest(buffer)
        /\ UNCHANGED <<script, said, unsound, asked, obeyed, troubles>>

-----------------------------------------------------------------------------
(* The calls. The panel reads what has the length and the checksum that it  *)
(* says, and digits where it expects a number.                              *)

Decimal(s) == Sum([i \in DOMAIN s |-> (s[i] - 48) * 10 ^ (Len(s) - i)])
IsNumber(s) == \A i \in DOMAIN s : s[i] \in 48..57

ReadField(field, s) ==
    CASE field.as = "fixed" -> {0}
      [] field.as = "text" -> {s}
      [] field.as = "house" -> HousecodeToIndex(s)
      [] OTHER -> IF IsNumber(s) THEN {Decimal(s) - (IF field.as = "index" THEN 1 ELSE 0)} ELSE {}

Understood(e, msg) ==
    LET width == [i \in DOMAIN e.fields |-> e.fields[i].width]
        start(i) == 2 + Len(e.cmd) + Sum(SubSeq(width, 1, i - 1))
        part(i) == SubSeq(msg, start(i) + 1, start(i) + width[i])
    IN  IF /\ IsValid(msg)
           /\ Len(msg) = start(Len(e.fields) + 1) + 4
           /\ SubSeq(msg, 3, 2 + Len(e.cmd)) = Lower(e.cmd)
           /\ \A i \in DOMAIN e.fields : ReadField(e.fields[i], part(i)) # {}
        THEN {[cmd |-> e.cmd,
               args |-> [i \in DOMAIN e.fields |-> CHOOSE v \in ReadField(e.fields[i], part(i)) : TRUE]]}
        ELSE {}

(* What is asked for: of a text, what its field has room for.               *)
Meant(e, args) ==
    [i \in DOMAIN e.fields |->
        IF e.fields[i].as = "text" THEN Shown(args[i], e.fields[i].width) ELSE args[i]]

Call(e, args) ==
    /\ CanEncode(e, args)
    /\ asked' = [cmd |-> e.cmd, args |-> Meant(e, args)]
    /\ obeyed' = UNION {Understood(x, Written(Encode(e, args))) : x \in Encoders}
    /\ UNCHANGED <<script, said, pipe, read_buffer, handled, unsound, troubles>>

FieldsAs(e, kinds) == {i \in DOMAIN e.fields : e.fields[i].as \in kinds}

CallAny ==
    /\ script = <<>> /\ asked = None
    /\ \E e \in Encoders :
       \E number \in [FieldsAs(e, {"number", "index", "house"}) -> Arg] :
       \E text \in [FieldsAs(e, {"text"}) -> Words] :
          Call(e, [i \in DOMAIN e.fields |->
                      CASE e.fields[i].as = "text" -> text[i]
                        [] e.fields[i].as = "fixed" -> 0
                        [] OTHER -> number[i]])

Next ==
    \/ Say
    \/ \E n \in 1..Len(pipe) : Read(n)
    \/ \E i \in DOMAIN pipe : Lose(i) \/ \E c \in Noise : Replace(i, c)
    \/ \E n \in 0..Len(pipe) : NewSession(n)
    \/ CallAny

Spec == Init /\ [][Next]_vars

-----------------------------------------------------------------------------
Element == [code : Latin \cup {Prompt, Granted, Refused}, of : Nat \ {0}]

(* No complete line stays in the buffer.                                    *)
TypeOK ==
    /\ script \in Scripts /\ said \in 0..Len(script)
    /\ pipe \in Seq(Element) /\ read_buffer \in Seq(Element)
    /\ LineEnds(read_buffer) = {}
    /\ \A i \in DOMAIN handled : handled[i].event \in {"message", "unknown", "login"}
    /\ unsound \subseteq 1..Len(script) + 1
    /\ troubles \in 0..MaxTrouble

(* What a line of the script means; nothing for a prompt.                   *)
Meaning(line) ==
    IF line \in Texts THEN {Login(line[1])} \ {Login(Prompt)}
    ELSE {[event |-> "message", data |-> SubSeq(line, 3, Len(line))]}

Known == {k \in DOMAIN handled : handled[k].event # "unknown"}

(* Whatever read() cuts, and although a byte was lost or replaced or a      *)
(* session began in the middle of a line, what is handled is what the panel *)
(* said, once and in its order (connection.py:83-101, message.py:51-90).    *)
HandledWasSaid ==
    \E at \in [Known -> 1..said] :
        /\ \A k \in Known : handled[k] \in Meaning(script[at[k]])
        /\ \A k, m \in Known : k < m => at[k] < at[m]

(* No line ends like a whole one that has a decoder. A session that begins  *)
(* inside a line takes its end for a line, and would handle it.             *)
NoEchoes ==
    \A s \in Scripts : \A i \in DOMAIN s : s[i] \notin Texts =>
        \A k \in 2..Len(s[i]) + 2 :
            \A v \in Decode(SubSeq(Framed(s[i]), k, Len(s[i]) + 2)) : v.event = "unknown"

(* Once everything was read, every line that was not touched is handled.    *)
SoundIsHandled ==
    pipe = <<>> => \A i \in (1..said) \ unsound : Meaning(script[i]) \subseteq ToSet(handled)

(* What the panel understands of a message is what the client asked for;    *)
(* it does understand it when every number fits into its field and every    *)
(* text is ASCII. With other texts the length and the checksum, which count *)
(* characters, are not those of what is written, and the panel must not     *)
(* take it for something else (connection.py:104-111, message.py:382-629).  *)
Fits(field, arg) ==
    CASE field.as = "index" -> arg + 1 \in 0..10 ^ field.width - 1
      [] field.as = "number" -> arg \in 0..10 ^ field.width - 1
      [] field.as = "text" -> \A i \in DOMAIN arg : arg[i] \in Ascii
      [] OTHER -> TRUE

AskedIsObeyed ==
    asked # None =>
        /\ obeyed \subseteq {asked}
        /\ (\A e \in Encoders : e.cmd = asked.cmd
              => \A i \in DOMAIN e.fields : Fits(e.fields[i], asked.args[i])) => obeyed = {asked}
=============================================================================
