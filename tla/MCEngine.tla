------------------------------ MODULE MCEngine ------------------------------
(***************************************************************************)
(* Engine on small programs: every way to nest ifs, loops and calls to the *)
(* depth below, and every short sequence of tokens at all.  They are kept  *)
(* in sequences, so that a state names its program by a number.            *)
(***************************************************************************)
EXTENDS Engine

MCNames == {"f", "x"}

\* The sequence of all F(s, t), for s in S and t in T.
Cross(S, T, F(_, _)) ==
    [i \in 1..(Len(S) * Len(T)) |->
        F(S[1 + ((i - 1) \div Len(T))], T[1 + ((i - 1) % Len(T))])]

Map(S, F(_)) == [i \in DOMAIN S |-> F(S[i])]

Braces(b) == <<"LBRACE", "NEWLINE">> \o b \o <<"NEWLINE", "RBRACE">>
CallF == <<"f", "LPAREN", "LIT", "RPAREN">>
AssignX == <<"x", "ASSIGN", "LIT">>

Leaves == <<AssignX, <<"RETURN", "x">>, <<"BREAK">>, <<"CONTINUE">>, CallF>>

If1(a) == <<"IF", "LIT">> \o Braces(a)
IfElse(a, b) == If1(a) \o <<"NEWLINE", "ELSE">> \o Braces(b)
IfElif(a, b) == If1(a) \o <<"ELIF", "LIT">> \o Braces(b)

Ifs == Map(Leaves, If1) \o Cross(Leaves, Leaves, IfElse) \o Cross(Leaves, Leaves, IfElif)

WhileLoop(s) == <<"WHILE", "LIT">> \o Braces(s \o <<"NEWLINE">> \o AssignX)
ForLoop(s) == <<"FOR", "x", "IN", "LIT">> \o Braces(s)

Bodies == Leaves \o Ifs
Loops == Map(Bodies, WhileLoop) \o Map(Bodies, ForLoop)
Statements == Ifs \o Loops

\* A function with the statement in its body, called twice by the program.
Program1(s) ==
    <<"FN", "f", "LPAREN", "x", "RPAREN">>
        \o Braces(s \o <<"NEWLINE", "RETURN", "LIT">>)
        \o <<"NEWLINE">> \o AssignX \o <<"NEWLINE", "PRINT">>
        \o CallF \o <<"COMMA">> \o CallF \o <<"OP", "x">>

File(ok, l) == [repl |-> FALSE, wellFormed |-> ok, lines |-> <<l>>]
WellFormedFile(s) == File(TRUE, Program1(s))

\* Any tokens, alone or in a block.
Alphabet == <<"LIT", "x", "LET", "IF", "ELIF", "ELSE", "WHILE", "FOR", "IN", "FN",
              "RETURN", "BREAK", "PRINT", "ALERT", "TIMELINE", "OP", "ASSIGN", "LPAREN",
              "RPAREN", "LBRACE", "RBRACE", "COMMA", "NEWLINE">>

Pair(a, b) == <<a, b>>
Triple(ab, c) == ab \o <<c>>
Noise(l) == File(FALSE, l)
NoiseInBlock(l) == File(FALSE, <<"IF", "LIT", "LBRACE">> \o l)

Pairs == Cross(Alphabet, Alphabet, Pair)
Triples == Cross(Pairs, Alphabet, Triple)

\* Lines at the prompt.
Prompt(ok, ls) == [repl |-> TRUE, wellFormed |-> ok, lines |-> ls]

TwoLines == Prompt(TRUE, <<AssignX \o <<"NEWLINE">> \o AssignX, <<"PRINT", "x">>>>)

\* A function is defined at the prompt and called on the next line, which
\* is long enough to overwrite its body.
CalledLater ==
    <<Prompt(TRUE, <<<<"FN", "f", "LPAREN", "x", "RPAREN", "LBRACE", "RETURN", "x",
                       "RBRACE">>,
                     <<"PRINT">> \o CallF \o <<"COMMA">> \o CallF>>)>>

\* More tokens than the array holds.
TooLong(s) == Noise(Program1(s) \o <<"NEWLINE">> \o Program1(s))

AllSessions == Map(Statements, WellFormedFile) \o Map(Pairs, Noise)
                   \o Map(Triples, NoiseInBlock) \o <<TwoLines>> \o Map(Ifs, TooLong)
MCSessions == AllSessions

\* What the theorem about calls asks of a program, these have.
ASSUME WellFormedAssumption ==
    \A i \in DOMAIN AllSessions : AllSessions[i].wellFormed =>
        \A j \in DOMAIN AllSessions[i].lines : Bracketed(AllSessions[i].lines[j])
=============================================================================
