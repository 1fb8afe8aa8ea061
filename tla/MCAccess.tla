------------------------------ MODULE MCAccess ------------------------------
(* Every pattern of up to four characters against every string of up to      *)
(* three; lists of both colours; credentials of up to five bytes, short and  *)
(* long for the buffer, with what may follow them in the request.            *)
EXTENDS Access, FiniteSets

Strings(C, n) == UNION {[1..k -> C] : k \in 0..n}

Lists(w, b) == [white |-> w, black |-> b]
NoLists == Lists(<<>>, <<>>)
Case(ip, url, li, lu, auth, ls, g, r) ==
    [ip |-> ip, url |-> url, lists |-> [ip |-> li, url |-> lu],
     auth |-> auth, lines |-> ls, given |-> g, rest |-> r]

PatternCases ==
    {Case(<<"a">>, y, NoLists, Lists(<<>>, <<x>>), FALSE, <<>>, <<>>, <<>>) :
        x \in Strings({"a", "b", "*", "?"}, 4), y \in Strings({"a", "b"}, 3)}

SomeLists == {<<>>, <<<<"a">>>>, <<<<"b">>, <<"a", "*">>>>, <<<<"*", "b">>, <<"?", "?">>>>}
ListCases ==
    {Case(y, y, Lists(v, b), Lists(w, b), FALSE, <<>>, <<>>, <<>>) :
        v \in SomeLists, w \in SomeLists, b \in SomeLists, y \in Strings({"a", "b"}, 2)}

\* Bytes: 97 and 98 are letters, 58 is the colon, 255 has all bits set.
Users == <<<<97, 58, 98>>, <<Hash, 97, Colon, 98>>, <<97>>, <<97, 98, 58, 255>>, <<97, 58, 97, 58, 98>>,
           <<98, 58, 98, 98, 98, 97>>, <<>>>>
Given == UNION {[1..k -> {97, 98, Colon, 255}] : k \in 1..4}
           \cup {<<97, 58, 97, 58, 98>>, <<97, 58, 98, 0, 97>>, <<98, 58, 98, 98, 98>>,
                 <<97, 58, 98, 98, 98, 98>>, <<97, 58, 98, 98, 98, 98, 98>>,
                 [n \in 1..9 |-> IF n = 2 THEN Colon ELSE 98]}
Rests == {<<>>, <<Skipped, Skipped>>, <<Skipped, 7, 40, 51, 51>>}
AuthCases ==
    {Case(<<"a">>, <<"b">>, NoLists, NoLists, TRUE, f, g, r) :
        f \in {NoFile, Users}, g \in Given \cup {<<>>}, r \in Rests}

MCCases == PatternCases \cup ListCases \cup AuthCases
MCDefaultUser == <<<<98>>, <<98>>>>
=============================================================================
