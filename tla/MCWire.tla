------------------------------- MODULE MCWire -------------------------------
(***************************************************************************)
(* A small instance of Wire for TLC: three lines, one of them with the      *)
(* checksum 00, or a login; or one call.                                    *)
(***************************************************************************)
EXTENDS Wire, TLC

Msg(cmd, data) == HexByte(Len(data) + 6) \o Upper(cmd) \o data \o <<48, 48>>
SumIsWhole(m) == Sum(m) % 256 = 0
Zero == CHOOSE m \in {Msg(<<"t", "c">>, <<a, b, c>>) : a, b, c \in 48..57 \cup 65..90} : SumIsWhole(m)

MCScripts ==
    {<<>>,
     <<Zero, Msg(<<"i", "e">>, <<>>), Msg(<<"v", "n">>, <<>>)>>,
     <<<<Prompt>>, <<Granted>>, Msg(<<"i", "e">>, <<>>)>>}

(* Line ends, white space, a sign, digits and letters of either case.       *)
MCNoise == {10, 13, 32, 43, 48, 54, 65, 97}

MCArg == {-1, 0, 9, 99, 255, 100000}

(* "Hi", "Tur" with a diaeresis, and more ASCII than a display line holds.  *)
MCWords == {<<72, 105>>, <<84, 252, 114>>, [i \in 1..20 |-> 64 + i]}

ASSUME MCScriptsHaveNoEchoes == NoEchoes
=============================================================================
