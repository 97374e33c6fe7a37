------------------------------- MODULE Lexer -------------------------------
(***************************************************************************)
(* lexer.c: from the characters of a text to tokens.  A lexer is the       *)
(* record of lexer.h; positions count from 1.  Lines and columns, which    *)
(* only error reports use, are left out.  A lexeme is a token with the     *)
(* first and the last position of its text.  The value of a float is left  *)
(* out, and integers do not wrap: the texts have no number near 2^63.      *)
(***************************************************************************)
EXTENDS Syntax

NUL == "NUL"        \* the character 0, which ends a text wherever it is

Digit == CharsOf("0123456789")
Alpha == CharsOf("abcdefghijklmnopqrstuvwxyzABCDEFGHIJKLMNOPQRSTUVWXYZ_")
Alnum == Alpha \cup Digit
HexDigit == Digit \cup CharsOf("abcdefABCDEF")
Blank == {" ", "\t", "\r", "\n"}

LexerInit(text) == [text |-> text, cursor |-> 1, start |-> 1]

IsAtEnd(lx) == lx.cursor > Len(lx.text) \/ lx.text[lx.cursor] = NUL
PeekChar(lx) == IF IsAtEnd(lx) THEN NUL ELSE lx.text[lx.cursor]
PeekNextChar(lx) == IF lx.cursor + 1 > Len(lx.text) THEN NUL ELSE lx.text[lx.cursor + 1]

AdvanceChar(lx) == IF IsAtEnd(lx) THEN lx ELSE [lx EXCEPT !.cursor = @ + 1]
MatchChar(lx, c) == IF PeekChar(lx) = c THEN AdvanceChar(lx) ELSE lx

\* Over the characters of a set, up to those of a set.
RECURSIVE Over(_, _), UpTo(_, _)
Over(lx, chars) == IF PeekChar(lx) \in chars THEN Over(AdvanceChar(lx), chars) ELSE lx
UpTo(lx, chars) ==
    IF IsAtEnd(lx) \/ PeekChar(lx) \in chars THEN lx ELSE UpTo(AdvanceChar(lx), chars)

-----------------------------------------------------------------------------
\* A comment that is not closed goes on to the end of the text.
RECURSIVE CommentEnd(_)
CommentEnd(lx) ==
    IF IsAtEnd(lx) THEN lx
    ELSE IF PeekChar(lx) = "*" /\ PeekNextChar(lx) = "/" THEN AdvanceChar(AdvanceChar(lx))
    ELSE CommentEnd(AdvanceChar(lx))

RECURSIVE SkipWhitespaceAndComments(_)
SkipWhitespaceAndComments(lx) ==
    LET c == PeekChar(lx)
        next == PeekNextChar(lx)
    IN  CASE c \in Blank -> SkipWhitespaceAndComments(Over(lx, Blank))
          [] c = "#" \/ (c = "/" /\ next = "/") -> SkipWhitespaceAndComments(UpTo(lx, {"\n"}))
          [] c = "/" /\ next = "*" ->
               SkipWhitespaceAndComments(CommentEnd(AdvanceChar(AdvanceChar(lx))))
          [] OTHER -> lx

-----------------------------------------------------------------------------
\* make_token, on a lexer whose start and cursor delimit the token.
Lexeme(lx, tok) == [tok |-> tok, from |-> lx.start, to |-> lx.cursor - 1]

Scanned(lx, tok) == [lx |-> lx, lexeme |-> Lexeme(lx, tok)]
ScanError(lx) == Scanned(lx, Tok("ERROR"))

Concat(chars) == FoldLeft(LAMBDA s, c : s \o c, "", chars)
CharsBetween(lx, left, right) == SubSeq(lx.text, lx.start + left, lx.cursor - 1 - right)

\* identifier_type.
Keyword ==
    {"and", "asm", "bool", "break", "byte", "cap", "capability", "comptime", "continue",
     "elif", "else", "extern", "false", "fix", "float", "fn", "for", "f32", "f64", "if",
     "impl", "in", "int", "isize", "isr", "i8", "i16", "i32", "i64", "let", "load", "loop",
     "mut", "nil", "not", "or", "packed", "print", "pub", "reg", "return", "self", "shape",
     "spawn", "str", "struct", "true", "u8", "u16", "u32", "u64", "usize", "void",
     "volatile", "while", "yield"}

WordTok(word) ==
    IF word \in Keyword THEN Tok(word)
    ELSE IF word \in DOMAIN Alias THEN AliasTok(word)
    ELSE IdentTok(word)

ScanIdentifier(lx) ==
    LET q == Over(lx, Alnum) IN Scanned(q, WordTok(Concat(CharsBetween(q, 0, 0))))

DigitVal(d) ==
    CHOOSE n \in 0..15 : d \in {Characters("0123456789abcdef")[n + 1], Characters("0123456789ABCDEF")[n + 1]}
NumberVal(digits, base) == FoldLeft(LAMBDA n, d : base * n + DigitVal(d), 0, digits)

\* Mutant: a point needs no digit behind it.
FractionWithoutDigit(lx) ==
    IF PeekChar(lx) = "." THEN Over(AdvanceChar(lx), Digit) ELSE lx

Fraction(lx) ==
    IF PeekChar(lx) = "." /\ PeekNextChar(lx) \in Digit THEN Over(AdvanceChar(lx), Digit) ELSE lx

\* An exponent needs no digits, and does not count for the value.
Exponent(lx) ==
    IF PeekChar(lx) \notin {"e", "E"} THEN lx
    ELSE LET e == AdvanceChar(lx)
         IN  Over(IF PeekChar(e) \in {"+", "-"} THEN AdvanceChar(e) ELSE e, Digit)

\* 0x and 0b need no digits either.
ScanBased(lx, base, digits) ==
    LET q == Over(AdvanceChar(lx), digits)
    IN  Scanned(q, IntTok(NumberVal(CharsBetween(q, 2, 0), base)))

ScanDecimal(lx) ==
    LET whole == Over(lx, Digit)
        q == Exponent(Fraction(whole))
    IN  Scanned(q, IF q = whole THEN IntTok(NumberVal(CharsBetween(q, 0, 0), 10))
                   ELSE Tok("FLOAT_LIT"))

ScanNumber(lx) ==
    LET zero == lx.text[lx.start] = "0"
    IN  CASE zero /\ PeekChar(lx) \in {"x", "X"} -> ScanBased(lx, 16, HexDigit)
          [] zero /\ PeekChar(lx) \in {"b", "B"} -> ScanBased(lx, 2, {"0", "1"})
          [] OTHER -> ScanDecimal(lx)

\* The token keeps the characters between the quotes as they are.
RECURSIVE StringEnd(_)
StringEnd(lx) ==
    IF PeekChar(lx) \in {NUL, "\""} THEN lx
    ELSE StringEnd(AdvanceChar(MatchChar(lx, "\\")))

ScanString(lx) ==
    LET q == AdvanceChar(StringEnd(lx))
    IN  IF IsAtEnd(StringEnd(lx)) THEN ScanError(StringEnd(lx))
        ELSE Scanned(q, StrTok(Concat(CharsBetween(q, 1, 1))))

ScanChar(lx) ==
    LET val == AdvanceChar(MatchChar(lx, "\\"))
    IN  CASE PeekChar(lx) \in {NUL, "'"} -> ScanError(lx)
          [] PeekChar(val) = "'" -> Scanned(AdvanceChar(val), Tok("CHAR_LIT"))
          [] OTHER -> ScanError(val)

OperatorChar == CharsOf("(){}[],;:?@~^.+-*/%!=<>&|")
OperatorPair == {"..", "+=", "->", "-=", "*=", "/=", "!=", "==", "=>", "<<", "<=", ">>", ">=", "&&", "||"}
OperatorTok(op) ==
    Tok(CASE op = "&&" -> "and" [] op = "||" -> "or" [] op = "!" -> "not" [] OTHER -> op)

ScanOperator(lx, c) ==
    IF c \o PeekChar(lx) \in OperatorPair
    THEN Scanned(AdvanceChar(lx), OperatorTok(c \o PeekChar(lx)))
    ELSE Scanned(lx, OperatorTok(c))

LexerNext(lexer) ==
    LET skipped == SkipWhitespaceAndComments(lexer)
        lx == [skipped EXCEPT !.start = skipped.cursor]
        c == PeekChar(lx)
        behind == AdvanceChar(lx)
    IN  CASE c = NUL -> Scanned(lx, EOF)
          [] c \in Alpha -> ScanIdentifier(behind)
          [] c \in Digit -> ScanNumber(behind)
          [] c = "\"" -> ScanString(behind)
          [] c = "'" -> ScanChar(behind)
          [] c \in OperatorChar -> ScanOperator(behind, c)
          [] OTHER -> ScanError(behind)

\* What the calls of lexer_next return, up to the end of the text.
RECURSIVE LexemesFrom(_)
LexemesFrom(lexer) ==
    LET next == LexerNext(lexer)
    IN  IF next.lexeme.tok = EOF THEN <<next.lexeme>>
        ELSE <<next.lexeme>> \o LexemesFrom(next.lx)

Lexemes(text) == LexemesFrom(LexerInit(text))

\* The tokens the parser gets before the end of the text.
Tokens(text) ==
    LET lexemes == Lexemes(text) IN [i \in 1..(Len(lexemes) - 1) |-> lexemes[i].tok]
=============================================================================
