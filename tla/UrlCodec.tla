------------------------------- MODULE UrlCodec -------------------------------
(***************************************************************************)
(* How the name of a file becomes a link of a listing and a link becomes a *)
(* name again: htmlEscape (src/core/static_file.cpp) and Url::encode and   *)
(* Url::decode (src/include/utils/url.h).  A string is a sequence of       *)
(* one-character strings; Alphabet has the characters that are treated     *)
(* differently, and those the conversions make.                            *)
(***************************************************************************)
EXTENDS Integers, Sequences, SequencesExt

Codes == {<<" ", 32>>, <<"\"", 34>>, <<"#", 35>>, <<"%", 37>>, <<"&", 38>>, <<"'", 39>>,
          <<"+", 43>>, <<"-", 45>>, <<"0", 48>>, <<"2", 50>>, <<"3", 51>>, <<"5", 53>>,
          <<"6", 54>>, <<"7", 55>>, <<"9", 57>>, <<";", 59>>, <<"<", 60>>, <<">", 62>>,
          <<"B", 66>>, <<"a", 97>>, <<"g", 103>>, <<"l", 108>>, <<"m", 109>>,
          <<"o", 111>>, <<"p", 112>>, <<"q", 113>>, <<"t", 116>>, <<"u", 117>>}

Alphabet == {p[1] : p \in Codes}
Ascii(c) == (CHOOSE p \in Codes : p[1] = c)[2]

\* The characters that Alphabet leaves out stand for each other.
Other == "other"

CharOf(v) == IF \E p \in Codes : p[2] = v
             THEN (CHOOSE p \in Codes : p[2] = v)[1]
             ELSE Other

HexDigits == <<"0", "1", "2", "3", "4", "5", "6", "7",
               "8", "9", "A", "B", "C", "D", "E", "F">>

IsHex(c) == c \in Range(HexDigits) \cup {"a"}
HexValue(c) == IF c = "a" THEN 10 ELSE (CHOOSE i \in 1..16 : HexDigits[i] = c) - 1

Entity == [c \in {"&", "<", ">", "\"", "'"} |->
              CASE c = "&"  -> <<"&", "a", "m", "p", ";">>
                [] c = "<"  -> <<"&", "l", "t", ";">>
                [] c = ">"  -> <<"&", "g", "t", ";">>
                [] c = "\"" -> <<"&", "q", "u", "o", "t", ";">>
                [] c = "'"  -> <<"&", "#", "3", "9", ";">>]

HtmlEscape(s) ==
    FlattenSeq([i \in 1..Len(s) |->
                   IF s[i] \in DOMAIN Entity THEN Entity[s[i]] ELSE <<s[i]>>])

\* The letters and digits of Alphabet, and "-"; encode leaves them alone.
Unreserved == {c \in Alphabet : Ascii(c) \in (48..57) \cup (65..90) \cup (97..122)} \cup {"-"}

Escaped(c) == <<"%", HexDigits[(Ascii(c) \div 16) + 1], HexDigits[(Ascii(c) % 16) + 1]>>

Encode(s) ==
    FlattenSeq([i \in 1..Len(s) |->
                   IF s[i] \in Unreserved THEN <<s[i]>> ELSE Escaped(s[i])])

\* What std::stoi makes of two characters in base 16, and when it throws nothing:
\* a space or a sign may come first, and it stops at what is no digit.
HasValue(a, b) == IsHex(a) \/ (a \in {" ", "+", "-"} /\ IsHex(b))

PairValue(a, b) ==
    CASE IsHex(a) /\ IsHex(b)  -> 16 * HexValue(a) + HexValue(b)
      [] IsHex(a) /\ ~IsHex(b) -> HexValue(a)
      [] a = "-"               -> (256 - HexValue(b)) % 256
      [] OTHER                 -> HexValue(b)

Decode(s) ==
    LET from[i \in 1..(Len(s) + 3)] ==
        CASE i > Len(s) -> <<>>
          [] i <= Len(s) /\ s[i] = "+" -> <<" ">> \o from[i + 1]
          [] /\ i + 2 <= Len(s) /\ s[i] = "%"
             /\ HasValue(s[i + 1], s[i + 2]) ->
                <<CharOf(PairValue(s[i + 1], s[i + 2]))>> \o from[i + 3]
          [] OTHER -> <<s[i]>> \o from[i + 1]
    IN from[1]
=============================================================================
