------------------------------ MODULE MCMarshal ------------------------------
EXTENDS Marshal, SequencesExt

y == Number(1)
q == Number(2)
u == Number(4)
x == Number(8)

MCMethods == {
    <<>>, <<u>>, <<y>>, <<x, u>>, <<y, u>>,
    <<String>>, <<u, String>>, <<String, u>>, <<x, String, u, y>>, <<String, x>>, <<y, String>>,
    <<Vector(y)>>, <<Vector(q), u>>, <<Vector(u)>>, <<Vector(x)>>,
    <<Vector(String)>>, <<Vector(Vector(u))>>, <<Vector(Vector(String))>>,
    <<Vector(Vector(x))>>, <<Struct(<<4, 4>>)>>, <<Vector(Struct(<<4, 1>>))>>,
    <<Vector(Struct(<<1, 4>>))>>, <<Vector(Struct(<<8, 4>>)), u>>}
MCStrings == {<<>>, <<5>>, <<5, 6, 7>>, <<5, 6, 7, 8>>}
MCNumbers == {0, 1, 4}

\* Up to four words, each of which may be a number, a count or characters.
Words == {<<0, 0, 0, 0>>, <<1, 0, 0, 0>>, <<2, 0, 0, 0>>, <<4, 0, 0, 0>>, <<12, 0, 0, 0>>, <<7, 7, 0, 0>>}
MCForeign == {FlattenSeq(ws) : ws \in UNION {[1..n -> Words] : n \in {0, 2, 4}}}
=============================================================================
