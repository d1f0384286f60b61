------------------------------- MODULE Versions -------------------------------
(***************************************************************************)
(* The text the driver makes of a version.  utils.cc.                      *)
(*                                                                         *)
(* Text is a sequence of characters.                                       *)
(***************************************************************************)
EXTENDS Integers, SequencesExt

Digits == <<"0", "1", "2", "3", "4", "5", "6", "7", "8", "9">>
Zeros(n) == [i \in 1..n |-> "0"]

(* ConvertToDBMSVer: ##.##.#### and what the server has to add. *)

IsDigit(c) == c \in ToSet(Digits)
Number(text) == FoldLeft(LAMBDA n, c : 10 * n + SelectInSeq(Digits, LAMBDA d : d = c) - 1, 0, text)

(* stoi: its value and the position behind it; a sign may stand in front. *)
Stoi(token) ==
    LET signed == token[1] \in {"-", "+"}
        first  == IF signed THEN 2 ELSE 1
        stop   == SelectInSubSeq(token, first, Len(token), LAMBDA c : ~IsDigit(c))
        last   == IF stop = 0 THEN Len(token) ELSE stop - 1
        n      == Number(SubSeq(token, first, last))
    IN [fails |-> last < first, value |-> IF token[1] = "-" THEN -n ELSE n, next |-> last]

PadRemainingTokens(position) ==
    (IF position = 0 THEN <<"0", "0">> ELSE <<>>)
        \o (IF position <= 1 THEN <<".", "0", "0">> ELSE <<>>)
        \o (IF position <= 2 THEN <<".", "0", "0", "0", "0">> ELSE <<>>)

PaddedTo(n, width) == [i \in 1..width |-> Digits[((n \div 10^(width - i)) % 10) + 1]]

DotTokens(text) ==
    SelectSeq(FoldLeft(LAMBDA ts, c : IF c = "." THEN Append(ts, <<>>)
                                       ELSE Front(ts) \o <<Append(Last(ts), c)>>,
                       <<<<>>>>, text),
              LAMBDA t : t # <<>>)

VersionToken(s, token) ==
    LET n     == Stoi(token)
        whole == n.next = Len(token)
        fits  == ~n.fails /\ n.value >= 0 /\ n.value <= (IF s.position = 2 THEN 9999 ELSE 99)
        dot   == IF s.position = 0 THEN <<>> ELSE <<".">>
        told  == s.result \o dot \o PaddedTo(n.value, IF s.position = 2 THEN 4 ELSE 2)
        asIs  == <<".">> \o token
    IN CASE s.custom \/ s.position >= 3 ->
              [s EXCEPT !.result = @ \o asIs, !.position = @ + 1]
         [] fits /\ whole -> [s EXCEPT !.result = told, !.position = @ + 1]
         [] fits /\ ~whole ->
              [result |-> told \o PadRemainingTokens(s.position + 1)
                               \o SubSeq(token, n.next + 1, Len(token)),
               position |-> 4, custom |-> TRUE]
         [] OTHER ->
              [result |-> s.result \o PadRemainingTokens(s.position)
                            \o (IF n.fails \/ whole THEN <<>> ELSE token) \o asIs,
               position |-> s.position + 2, custom |-> TRUE]

ConvertToDBMSVer(text) ==
    LET s == FoldLeft(VersionToken, [result |-> <<>>, position |-> 0, custom |-> FALSE],
                      DotTokens(text))
    IN s.result \o PadRemainingTokens(s.position)

(* However the server words its version, SQL_DBMS_VER begins ##.##.####; and a
   version of up to three numbers that fit is those numbers.
   (ConvertToDBMSVer) *)
VersionIsWellFormedOn(text) ==
    LET version == ConvertToDBMSVer(text)
        tokens  == DotTokens(text)
        plain   == /\ Len(tokens) <= 3
                   /\ \A i \in DOMAIN tokens :
                        Len(tokens[i]) <= 2 /\ \A j \in DOMAIN tokens[i] : IsDigit(tokens[i][j])
    IN /\ Len(version) >= 10
       /\ \A i \in 1..10 : IF i \in {3, 6} THEN version[i] = "." ELSE IsDigit(version[i])
       /\ plain => [i \in 1..3 |-> Number(DotTokens(version)[i])]
                      = [i \in 1..3 |-> IF i \in DOMAIN tokens THEN Number(tokens[i]) ELSE 0]
=============================================================================
