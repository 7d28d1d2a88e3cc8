---------------------------- MODULE MCVHDLStream ----------------------------
(***************************************************************************)
(* The statements that FloPoCo's constructors write, in small.             *)
(***************************************************************************)
EXTENDS VHDLStream, TLC

CONSTANTS MaxCycle, MaxStatements

Read(x, y) == Name(x, "read", y)
Lhs(y) == Name(y, "text", y)
T(kinds) == [i \in DOMAIN kinds |-> Lexeme(kinds[i])]
Label(l) == [Lexeme("label") EXCEPT !.name = l]

\* Y <= A + unsigned(B);
Sum(y, a, b) == <<Lhs(y), Lexeme("<="), Read(a, y), Lexeme("other"), Read("unsigned", y), Read(b, y), Lexeme(";")>>
\* Y <= A when B <= A else '0';
Conditional(y, a, b) == <<Lhs(y), Lexeme("<="), Read(a, y), Lexeme("when"), Read(b, y), Lexeme("<="),
                          Read(a, y), Lexeme("keyword"), Lexeme("literal"), Lexeme(";")>>
\* with S select Y <= A when "0", '1' when others;
Selected(y, s, a) == <<Lexeme("with"), Read(s, y), Lexeme("select"), Lhs(y), Lexeme("<="), Read(a, y)>>
                       \o T(<<"when", "literal", ",", "literal", "when", "keyword", ";">>)
\* with S select Y <= '0' when "0", '1' when others;
Table(y, s) == <<Lexeme("with"), Read(s, y), Lexeme("select"), Lhs(y)>>
                 \o T(<<"<=", "literal", "when", "literal", ",", "literal", "when", "keyword", ";">>)
\* R <= A^1;
RegisteredCopy(r, a) == <<Lhs(r), Lexeme("<="), [Read(a, r) EXCEPT !.delay = 1], Lexeme(";")>>
\* Y <= "00";
Constant(y) == <<Lhs(y)>> \o T(<<"<=", "literal", ";">>)
\* l: Op generic map (n => 8) port map (I => A, C => '1', O => Y, P => open);
Instance(l, generics, a, y) ==
  <<Label(l), Name("Op", "text", "")>>
    \o (IF generics THEN <<Lexeme("generic map"), Name("n", "text", "")>> \o T(<<"=>", "literal">>) ELSE <<>>)
    \o <<Lexeme("port map"), Name("I", "text", ""), Lexeme("=>"), Name(a, "input", l), Lexeme(",")>>
    \o <<Name("C", "text", "")>> \o T(<<"=>", "literal", ",">>)
    \o <<Name("O", "text", ""), Lexeme("=>"), Name(y, "output", l), Lexeme(","), Name("P", "text", "")>>
    \o T(<<"=>", "keyword", ";">>)
\* v(0) := A;
Variable(a) == <<Name("v", "text", ""), Lexeme("other"), Lexeme(":="), Name(a, "text", ""), Lexeme(";")>>
\* end case;
EndCase == T(<<"keyword", "case", ";">>)

\* -- ... , A
Comment(kind) == <<Lexeme(kind), Lexeme(","), Name("A", "text", ""), Lexeme("newline")>>
\* The statement with a comment behind its first i lexemes.
Commented(s, i) == SubSeq(s, 1, i) \o Comment("comment") \o SubSeq(s, i + 1, Len(s))

SomeStatements ==
  { Sum("Y", "A", "B"), Sum("B", "A", "A"), Conditional("Y", "A", "B"), Constant("Y"),
    Selected("Y", "A", "B"), Table("B", "A"), RegisteredCopy("R", "A"), Variable("A"), EndCase,
    Instance("unique", TRUE, "A", "Y"), Instance("shared", FALSE, "A", "Y"),
    Comment("comment;") }
  \cup {Commented(Sum("Y", "A", "R"), i) : i \in {1, 2, 5}}
  \cup {Commented(Selected("Y", "B", "A"), i) : i \in {1, 3}}

SomePrograms == UNION {[1..n -> SomeStatements] : n \in 1..MaxStatements}

Port(formal, out, actual) == [formal |-> formal, out |-> out, actual |-> actual]
Ports == <<Port("I", FALSE, "A"), Port("C", FALSE, ""), Port("O", TRUE, "Y"), Port("P", TRUE, "")>>
SomeInstances == "unique" :> [shared |-> FALSE, io |-> Ports] @@ "shared" :> [shared |-> TRUE, io |-> Ports]

\* A registered copy stays at cycle 0.
SomeTimings == {c \in [{"A", "B", "Y", "R"} -> 0..MaxCycle] : c["R"] = 0}
=============================================================================
