---------------------------- MODULE EngineProofs ----------------------------
(***************************************************************************)
(* rdx_engine.c for any lines of tokens, well formed or not, and any       *)
(* limits: the cursor stays in the token array, the C activations that     *)
(* wait nest as the engine's functions call each other, every waiting call *)
(* has its scope, and no statement starts in a function that was left.     *)
(***************************************************************************)
EXTENDS Engine, FiniteSetTheorems, SequenceTheorems, WellFoundedInduction, TLAPS

-----------------------------------------------------------------------------
(* Induction over sets of naturals. *)

\* Every non-empty set of naturals has a least element.
LEMMA LeastElement ==
    ASSUME NEW S \in SUBSET Nat, S # {}
    PROVE  \E n \in S : \A m \in S : n <= m
<1> DEFINE R == OpToRel(<, Nat)
<1>1. IsWellFoundedOn(R, Nat)
  BY NatLessThanWellFounded
<1>2. \A m, n \in Nat : m < n => <<m, n>> \in R
  BY DEF OpToRel
<1> HIDE DEF R
<1>3. PICK n \in S : \A m \in S : ~(<<m, n>> \in R)
  BY <1>1, WFMin
<1>4. \A m \in S : ~(m < n)
  BY <1>2, <1>3
<1> QED
  BY <1>4

\* Every non-empty set of naturals that has an upper bound has a greatest one.
LEMMA GreatestElement ==
    ASSUME NEW n \in Nat, NEW S \in SUBSET (0..n), S # {}
    PROVE  \E m \in S : \A j \in S : j <= m
<1> DEFINE T == {n - x : x \in S}
<1>1. T \in SUBSET Nat /\ T # {}
  <2>1. \A x \in S : n - x \in Nat
    OBVIOUS
  <2>2. PICK x \in S : TRUE
    OBVIOUS
  <2>3. n - x \in T
    BY <2>2
  <2> QED
    BY <2>1, <2>3
<1>2. PICK t \in T : \A u \in T : t <= u
  BY <1>1, LeastElement
<1>3. PICK m \in S : t = n - m
  OBVIOUS
<1>4. \A j \in S : n - m <= n - j /\ j \in Int
  BY <1>2, <1>3
<1>5. m \in Int
  OBVIOUS
<1> QED
  BY <1>4, <1>5

\* A set that has 0, and with a natural the next one, has every natural.
LEMMA SetInduction ==
    ASSUME NEW S, 0 \in S, \A n \in Nat : n \in S => n + 1 \in S
    PROVE  Nat \subseteq S
<1> SUFFICES ASSUME Nat \ S # {} PROVE FALSE
  OBVIOUS
<1>1. PICK n \in Nat \ S : \A m \in Nat \ S : n <= m
  BY LeastElement
<1>2. n - 1 \in Nat /\ n - 1 \in S
  BY <1>1
<1> QED
  BY <1>1, <1>2

-----------------------------------------------------------------------------
(* A function that is defined in terms of itself further on: f[x] is out[x]  *)
(* where it stops, and f[nx[x]] elsewhere.  It exists, and has one of the     *)
(* values of out, when each step raises pos and it stops below some bound.   *)
TailRecursive(f, S, Stop, out, nx) ==
    f = [x \in S |-> IF x \in Stop THEN out[x] ELSE f[nx[x]]]

Rises(S, Stop, nx, pos) ==
    /\ pos \in [S -> Nat]
    /\ \E L \in Nat :
          \A x \in S \ Stop : nx[x] \in S /\ pos[x] < L /\ pos[x] < pos[nx[x]]

Keeps(I, S, Stop, nx) == I \subseteq S /\ \A x \in I \ Stop : nx[x] \in I

LEMMA TailRecursionExists ==
    ASSUME NEW S, NEW Stop, NEW out, NEW nx, NEW pos, Rises(S, Stop, nx, pos)
    PROVE  \E f : TailRecursive(f, S, Stop, out, nx)
<1>9. PICK L \in Nat :
          /\ pos \in [S -> Nat]
          /\ \A x \in S \ Stop : nx[x] \in S /\ pos[x] < L /\ pos[x] < pos[nx[x]]
  BY DEF Rises
<1> DEFINE Upto(k) == {x \in S : L - k <= pos[x]}
           T == {k \in Nat : \E f : \A x \in Upto(k) :
                    f[x] = IF x \in Stop THEN out[x] ELSE f[nx[x]]}
<1>1. 0 \in T
  <2> DEFINE f == [x \in S |-> out[x]]
  <2>1. \A x \in Upto(0) : f[x] = IF x \in Stop THEN out[x] ELSE f[nx[x]]
    BY <1>9
  <2> HIDE DEF f
  <2> QED
    BY <2>1
<1>2. ASSUME NEW k \in Nat, k \in T PROVE k + 1 \in T
  <2>1. PICK f : \A x \in Upto(k) : f[x] = IF x \in Stop THEN out[x] ELSE f[nx[x]]
    BY <1>2
  <2> DEFINE g == [x \in S |-> IF x \in Stop THEN out[x] ELSE f[nx[x]]]
  <2>2. ASSUME NEW x \in Upto(k + 1) PROVE g[x] = IF x \in Stop THEN out[x] ELSE g[nx[x]]
    <3>1. CASE x \in Stop
      BY <3>1
    <3>2. CASE x \notin Stop
      <4>1. nx[x] \in S /\ nx[x] \in Upto(k)
        BY <1>9, <3>2
      <4>2. g[x] = f[nx[x]] /\ g[nx[x]] = IF nx[x] \in Stop THEN out[nx[x]] ELSE f[nx[nx[x]]]
        BY <3>2, <4>1
      <4> QED
        BY <2>1, <3>2, <4>1, <4>2
    <3> QED
      BY <3>1, <3>2
  <2> HIDE DEF g
  <2> QED
    BY <2>2
<1> HIDE DEF T
<1>3. L \in T
  BY <1>1, <1>2, SetInduction
<1>4. PICK f : \A x \in Upto(L) : f[x] = IF x \in Stop THEN out[x] ELSE f[nx[x]]
  BY <1>3 DEF T
<1>5. \A x \in S : f[x] = IF x \in Stop THEN out[x] ELSE f[nx[x]]
  BY <1>4, <1>9
<1> DEFINE g == [x \in S |-> f[x]]
<1>6. \A x \in S : g[x] = IF x \in Stop THEN out[x] ELSE g[nx[x]]
  BY <1>5, <1>9
<1>7. g = [x \in S |-> g[x]]
  OBVIOUS
<1> HIDE DEF g
<1>8. g = [x \in S |-> IF x \in Stop THEN out[x] ELSE g[nx[x]]]
  BY <1>6, <1>7
<1> QED
  BY <1>8 DEF TailRecursive

\* What I never leaves, the value keeps.
LEMMA TailRecursionResult ==
    ASSUME NEW S, NEW Stop, NEW out, NEW nx, NEW pos, Rises(S, Stop, nx, pos),
           NEW f, TailRecursive(f, S, Stop, out, nx), NEW I, Keeps(I, S, Stop, nx)
    PROVE  \A x \in I : \E y \in I \cap Stop : f[x] = out[y]
<1>9. PICK L \in Nat :
          /\ pos \in [S -> Nat]
          /\ \A x \in S \ Stop : nx[x] \in S /\ pos[x] < L /\ pos[x] < pos[nx[x]]
  BY DEF Rises
<1> DEFINE T == {k \in Nat : \A z \in I : L - k <= pos[z] =>
                                \E y \in I \cap Stop : f[z] = out[y]}
<1>1. I \subseteq S /\ \A z \in S : f[z] = IF z \in Stop THEN out[z] ELSE f[nx[z]]
  BY DEF TailRecursive, Keeps
<1>2. 0 \in T
  BY <1>1, <1>9
<1>3. ASSUME NEW k \in Nat, k \in T PROVE k + 1 \in T
  <2> SUFFICES ASSUME NEW z \in I, L - (k + 1) <= pos[z]
               PROVE  \E y \in I \cap Stop : f[z] = out[y]
    OBVIOUS
  <2>1. CASE z \in Stop
    BY <1>1, <2>1
  <2>2. CASE z \notin Stop
    <3>1. nx[z] \in I /\ L - k <= pos[nx[z]] /\ f[z] = f[nx[z]]
      BY <1>1, <1>9, <2>2 DEF Keeps
    <3> QED
      BY <1>3, <3>1
  <2> QED
    BY <2>1, <2>2
<1> HIDE DEF T
<1>4. L \in T
  BY <1>2, <1>3, SetInduction
<1>5. \A x \in I : L - L <= pos[x]
  BY <1>1, <1>9
<1> QED
  BY <1>4, <1>5 DEF T

-----------------------------------------------------------------------------
(* The token array, and the functions that move the cursor over it. *)

\* L is the last position that was ever written.
ArrayOK(L) ==
    /\ L \in 0..(MaxTokens - 1)
    /\ tokens \in [0..L -> Tokens]
    /\ tokens[L] = "EOF"
    /\ line = 1 => \A p \in 0..(L - 1) : tokens[p] # "EOF"

LEMMA TokenTypes ==
    ASSUME NEW L, ArrayOK(L)
    PROVE  /\ L \in Nat /\ Token(L) = "EOF"
           /\ \A p \in Nat : Token(p) \in Tokens /\ Type(p) \in TokenType
           /\ \A p \in Nat : Token(p) = "EOF" <=> Type(p) = "EOF"
           /\ \A p \in Nat : Token(p) \in TokenType => Type(p) = Token(p)
           /\ \A p \in Nat : Type(p) = "IDENT" => Token(p) \in Names
           /\ \A p \in Nat : p >= L => Token(p) = "EOF"
<1>1. L \in Nat /\ "EOF" \in Tokens /\ DOMAIN tokens = 0..L
  BY LimitsAssumption DEF ArrayOK, Tokens, TokenType
<1>2. \A p \in Nat : Token(p) \in Tokens
  BY <1>1 DEF ArrayOK, Token
<1>3. \A p \in Nat : p >= L => Token(p) = "EOF"
  BY <1>1 DEF ArrayOK, Token
<1> QED
  BY <1>1, <1>2, <1>3, NamesAssumption DEF Type, Tokens, TokenType

\* A token that is not the last one has a next one.
LEMMA BeforeEnd ==
    ASSUME NEW L, ArrayOK(L), NEW p \in 0..L, Type(p) # "EOF"
    PROVE  p + 1 \in 0..L
  BY TokenTypes

Skipping(f) == f = [q \in Nat |-> IF Token(q) = "NEWLINE" THEN f[q + 1] ELSE q]

LEMMA SkipNewlinesProperties ==
    ASSUME NEW L, ArrayOK(L), NEW p \in Nat
    PROVE  /\ SkipNewlines(p) \in p..(IF p < L THEN L ELSE p)
           /\ \A r \in p..(SkipNewlines(p) - 1) : Token(r) = "NEWLINE"
           /\ Token(SkipNewlines(p)) # "NEWLINE"
<1> DEFINE Stop == {q \in Nat : Token(q) # "NEWLINE"}
           out == [q \in Nat |-> q]
           nx == [q \in Nat |-> q + 1]
           skip == CHOOSE f : Skipping(f)
<1>1. L \in Nat /\ \A q \in Nat : q >= L => q \in Stop
  BY TokenTypes
<1>2. Rises(Nat, Stop, nx, out)
  <2>1. \A x \in Nat \ Stop : nx[x] \in Nat /\ out[x] < L /\ out[x] < out[nx[x]]
    BY <1>1
  <2> QED
    BY <1>1, <2>1 DEF Rises
<1>3. \A f : TailRecursive(f, Nat, Stop, out, nx) <=> Skipping(f)
  BY DEF TailRecursive, Skipping
<1> HIDE DEF Stop, out, nx
<1>4. \E f : Skipping(f)
  BY <1>1, <1>2, <1>3, TailRecursionExists
<1>5. TailRecursive(skip, Nat, Stop, out, nx)
  BY <1>3, <1>4
<1>6. SkipNewlines(p) = skip[p]
  BY DEF SkipNewlines, Skipping
<1> HIDE DEF skip
<1> DEFINE M == IF p < L THEN L ELSE p
           I == {q \in p..M : \A r \in p..(q - 1) : Token(r) = "NEWLINE"}
<1>7. Keeps(I, Nat, Stop, nx)
  BY <1>1 DEF Stop, nx, Keeps
<1>9. p \in I
  BY <1>1
<1> HIDE DEF I
<1>8. \A x \in I : \E y \in I \cap Stop : skip[x] = out[y]
  BY <1>2, <1>5, <1>7, TailRecursionResult
<1>10. PICK y \in I \cap Stop : skip[p] = out[y]
  BY <1>8, <1>9
<1>11. /\ y \in p..M /\ out[y] = y /\ Token(y) # "NEWLINE"
       /\ \A r \in p..(y - 1) : Token(r) = "NEWLINE"
  BY <1>1 DEF I, Stop, out
<1> QED
  BY <1>6, <1>10, <1>11

Searching(f, types) ==
    f = [q \in Nat |-> IF Type(q) \in types THEN q ELSE f[q + 1]]

LEMMA NearestProperties ==
    ASSUME NEW L, ArrayOK(L), NEW p \in 0..L, NEW types, "EOF" \in types
    PROVE  /\ Nearest(p, types) \in p..L
           /\ \A r \in p..(Nearest(p, types) - 1) : Type(r) \notin types
<1> DEFINE Stop == {q \in Nat : Type(q) \in types}
           out == [q \in Nat |-> q]
           nx == [q \in Nat |-> q + 1]
           near == CHOOSE f : Searching(f, types)
<1>1. L \in Nat /\ \A q \in Nat : q >= L => q \in Stop
  BY TokenTypes
<1>2. Rises(Nat, Stop, nx, out)
  <2>1. \A x \in Nat \ Stop : nx[x] \in Nat /\ out[x] < L /\ out[x] < out[nx[x]]
    BY <1>1
  <2> QED
    BY <1>1, <2>1 DEF Rises
<1>3. \A f : TailRecursive(f, Nat, Stop, out, nx) <=> Searching(f, types)
  BY DEF TailRecursive, Searching
<1> HIDE DEF Stop, out, nx
<1>4. \E f : Searching(f, types)
  BY <1>2, <1>3, TailRecursionExists
<1>5. TailRecursive(near, Nat, Stop, out, nx)
  BY <1>3, <1>4
<1>6. Nearest(p, types) = near[p]
  BY DEF Nearest, Searching
<1> HIDE DEF near
<1> DEFINE I == {q \in p..L : \A r \in p..(q - 1) : Type(r) \notin types}
<1>7. Keeps(I, Nat, Stop, nx)
  BY <1>1 DEF Stop, nx, Keeps
<1>8. p \in I
  BY <1>1
<1> HIDE DEF I
<1>9. \A x \in I : \E y \in I \cap Stop : near[x] = out[y]
  BY <1>2, <1>5, <1>7, TailRecursionResult
<1>10. PICK y \in I \cap Stop : near[p] = out[y]
  BY <1>8, <1>9
<1>11. y \in p..L /\ out[y] = y /\ \A r \in p..(y - 1) : Type(r) \notin types
  BY <1>1 DEF I, out
<1> QED
  BY <1>6, <1>10, <1>11

Counting(f) ==
    f = [x \in Nat \X Nat |->
            IF Token(x[1]) = "EOF" \/ x[2] = 0 THEN x[1]
            ELSE f[<<x[1] + 1, DepthBehind(x[1], x[2])>>]]

\* What holds of the position and the depth at the start, and is kept by
\* each token that is skipped, holds where the skipping ends.
LEMMA SkipBlockResult ==
    ASSUME NEW L, ArrayOK(L), NEW p \in Nat, NEW I \in SUBSET (Nat \X Nat), <<p, 1>> \in I,
           \A x \in I : \/ Token(x[1]) = "EOF" \/ x[2] = 0
                       \/ <<x[1] + 1, DepthBehind(x[1], x[2])>> \in I
    PROVE  \E x \in I : (Token(x[1]) = "EOF" \/ x[2] = 0) /\ SkipBlock(p) = x[1]
<1> DEFINE S == Nat \X Nat
           Stop == {x \in S : Token(x[1]) = "EOF" \/ x[2] = 0}
           out == [x \in S |-> x[1]]
           nx == [x \in S |-> <<x[1] + 1, DepthBehind(x[1], x[2])>>]
           skip == CHOOSE f : Counting(f)
<1>1. L \in Nat /\ \A x \in S : x[1] \in Nat /\ x[2] \in Nat /\ (x[1] >= L => x \in Stop)
  BY TokenTypes
<1>2. \A x \in S \ Stop : nx[x] \in S /\ nx[x][1] = x[1] + 1 /\ x[1] \in Nat /\ x[1] < L
  <2> SUFFICES ASSUME NEW x \in S, x \notin Stop
               PROVE  nx[x] \in S /\ nx[x][1] = x[1] + 1 /\ x[1] \in Nat /\ x[1] < L
    OBVIOUS
  <2>1. x[1] \in Nat /\ x[2] \in Nat \ {0} /\ x[1] < L
    BY <1>1
  <2>2. DepthBehind(x[1], x[2]) \in Nat
    BY <2>1 DEF DepthBehind
  <2>3. nx[x] = <<x[1] + 1, DepthBehind(x[1], x[2])>>
    OBVIOUS
  <2> HIDE DEF nx
  <2> QED
    BY <2>1, <2>2, <2>3
<1>3. Rises(S, Stop, nx, out)
  <2>1. out \in [S -> Nat]
    BY <1>1
  <2>2. \A x \in S \ Stop : nx[x] \in S /\ out[x] < L /\ out[x] < out[nx[x]]
    BY <1>2
  <2> HIDE DEF S, Stop, out, nx
  <2> QED
    BY <1>1, <2>1, <2>2 DEF Rises
<1>4. \A f : TailRecursive(f, S, Stop, out, nx) <=> Counting(f)
  BY DEF TailRecursive, Counting
<1> HIDE DEF S, Stop, out, nx
<1>5. \E f : Counting(f)
  BY <1>3, <1>4, TailRecursionExists
<1>6. TailRecursive(skip, S, Stop, out, nx)
  BY <1>4, <1>5
<1>7. SkipBlock(p) = skip[<<p, 1>>]
  BY DEF SkipBlock, Counting
<1> HIDE DEF skip
<1>8. Keeps(I, S, Stop, nx)
  BY DEF Keeps, S, Stop, nx
<1>9. \A x \in I : \E y \in I \cap Stop : skip[x] = out[y]
  BY <1>3, <1>6, <1>8, TailRecursionResult
<1>10. PICK y \in I \cap Stop : skip[<<p, 1>>] = out[y]
  BY <1>9
<1>11. out[y] = y[1] /\ (Token(y[1]) = "EOF" \/ y[2] = 0)
  BY DEF S, Stop, out
<1> QED
  BY <1>7, <1>10, <1>11

LEMMA SkipBlockProperties ==
    ASSUME NEW L, ArrayOK(L), NEW p \in 0..L
    PROVE  SkipBlock(p) \in p..L
<1> DEFINE I == {x \in Nat \X Nat : x[1] \in p..L}
<1>1. L \in Nat /\ p \in Nat /\ I \in SUBSET (Nat \X Nat) /\ <<p, 1>> \in I
  BY TokenTypes
<1>2. ASSUME NEW x \in I, Token(x[1]) # "EOF", x[2] # 0
      PROVE  <<x[1] + 1, DepthBehind(x[1], x[2])>> \in I
  <2>1. x[1] \in p..L /\ x[2] \in Nat /\ x[1] + 1 \in p..L
    BY <1>1, <1>2, TokenTypes
  <2>2. DepthBehind(x[1], x[2]) \in Nat
    BY <1>2, <2>1 DEF DepthBehind
  <2> QED
    BY <1>1, <2>1, <2>2
<1>3. \A x \in I : x[1] \in p..L
  OBVIOUS
<1> HIDE DEF I
<1>4. \E x \in I : (Token(x[1]) = "EOF" \/ x[2] = 0) /\ SkipBlock(p) = x[1]
  BY <1>1, <1>2, SkipBlockResult
<1> QED
  BY <1>3, <1>4

ParametersFrom(f) ==
    f = [x \in Nat \X Seq(Names) |->
            LET i == SkipNewlines(x[1])
                c == SkipNewlines(i + 1)
                longer == Append(x[2], Token(i))
            IN  IF Type(i) # "IDENT" THEN [names |-> x[2], next |-> i]
                ELSE IF Type(c) # "COMMA" THEN [names |-> longer, next |-> c]
                ELSE f[<<c + 1, longer>>]]

\* The identifier that is read next, and what is behind it.
ParameterAt(p) == SkipNewlines(p)
BehindParameter(p) == SkipNewlines(ParameterAt(p) + 1)

ParametersRead(x) ==
    IF Type(ParameterAt(x[1])) # "IDENT" THEN [names |-> x[2], next |-> ParameterAt(x[1])]
    ELSE [names |-> Append(x[2], Token(ParameterAt(x[1]))), next |-> BehindParameter(x[1])]

AnotherParameter(x) ==
    Type(ParameterAt(x[1])) = "IDENT" /\ Type(BehindParameter(x[1])) = "COMMA"

\* What holds of the position and the names at the start, and is kept by
\* each parameter that another one follows, holds where the list ends.
LEMMA ParametersResult ==
    ASSUME NEW L, ArrayOK(L), NEW p \in Nat, NEW I \in SUBSET (Nat \X Seq(Names)),
           <<p, <<>>>> \in I,
           \A x \in I : AnotherParameter(x) =>
               <<BehindParameter(x[1]) + 1, Append(x[2], Token(ParameterAt(x[1])))>> \in I
    PROVE  \E x \in I : ~AnotherParameter(x) /\ Parameters(p) = ParametersRead(x)
<1> DEFINE S == Nat \X Seq(Names)
           i(x) == SkipNewlines(x[1])
           c(x) == SkipNewlines(i(x) + 1)
           longer(x) == Append(x[2], Token(i(x)))
           Stop == {x \in S : Type(i(x)) # "IDENT" \/ Type(c(x)) # "COMMA"}
           out == [x \in S |-> IF Type(i(x)) # "IDENT" THEN [names |-> x[2], next |-> i(x)]
                               ELSE [names |-> longer(x), next |-> c(x)]]
           nx == [x \in S |-> <<c(x) + 1, longer(x)>>]
           pos == [x \in S |-> x[1]]
           list == CHOOSE f : ParametersFrom(f)
<1>1. L \in Nat
  BY TokenTypes
<1>2. ASSUME NEW x \in S
      PROVE  /\ x[1] \in Nat /\ x[2] \in Seq(Names)
             /\ i(x) \in Nat /\ x[1] <= i(x) /\ (x[1] <= L => i(x) <= L)
             /\ c(x) \in Nat /\ i(x) + 1 <= c(x) /\ (i(x) < L => c(x) <= L)
             /\ Type(i(x)) = "IDENT" => i(x) < L /\ Token(i(x)) \in Names
             /\ Type(c(x)) = "COMMA" => c(x) < L
             /\ Type(i(x)) = "IDENT" => longer(x) \in Seq(Names)
  <2>1. x[1] \in Nat /\ x[2] \in Seq(Names)
    OBVIOUS
  <2> DEFINE a == x[1]
  <2> HIDE DEF a, S
  <2>2. SkipNewlines(a) \in a..(IF a < L THEN L ELSE a) /\ a \in Nat
    BY <2>1, SkipNewlinesProperties DEF a
  <2> DEFINE b == SkipNewlines(a)
  <2>3. b \in Nat /\ a <= b /\ (a <= L => b <= L)
    BY <1>1, <2>2
  <2> HIDE DEF b
  <2>4. SkipNewlines(b + 1) \in (b + 1)..(IF b + 1 < L THEN L ELSE b + 1)
    <3>1. b + 1 \in Nat
      BY <2>3
    <3> QED
      BY <3>1, SkipNewlinesProperties
  <2> DEFINE d == SkipNewlines(b + 1)
  <2>5. d \in Nat /\ b + 1 <= d /\ (b < L => d <= L)
    BY <1>1, <2>3, <2>4
  <2> HIDE DEF d
  <2>6. /\ Type(b) = "IDENT" => b < L /\ Token(b) \in Names
        /\ Type(d) = "COMMA" => d < L
    BY <1>1, <2>3, <2>5, TokenTypes
  <2> QED
    BY <2>1, <2>3, <2>5, <2>6 DEF a, b, d
<1> HIDE DEF i, c, longer
<1>3. \A x \in S \ Stop : nx[x] \in S /\ nx[x][1] = c(x) + 1 /\ x[1] < c(x) + 1 /\ c(x) < L
  <2> SUFFICES ASSUME NEW x \in S, x \notin Stop
               PROVE  nx[x] \in S /\ nx[x][1] = c(x) + 1 /\ x[1] < c(x) + 1 /\ c(x) < L
    OBVIOUS
  <2>1. Type(i(x)) = "IDENT" /\ Type(c(x)) = "COMMA"
    OBVIOUS
  <2>2. c(x) + 1 \in Nat /\ longer(x) \in Seq(Names) /\ x[1] < c(x) + 1 /\ c(x) < L
    BY <1>1, <1>2, <2>1
  <2>3. nx[x] = <<c(x) + 1, longer(x)>>
    OBVIOUS
  <2> HIDE DEF nx
  <2> QED
    BY <2>2, <2>3
<1>4. Rises(S, Stop, nx, pos)
  <2>1. pos \in [S -> Nat]
    BY <1>2
  <2>2. \A x \in S \ Stop : nx[x] \in S /\ pos[x] < L /\ pos[x] < pos[nx[x]]
    <3> SUFFICES ASSUME NEW x \in S, x \notin Stop
                 PROVE  nx[x] \in S /\ pos[x] < L /\ pos[x] < pos[nx[x]]
      OBVIOUS
    <3>1. x[1] \in Nat /\ c(x) \in Nat
      BY <1>2
    <3>2. nx[x] \in S /\ nx[x][1] = c(x) + 1 /\ x[1] < c(x) + 1 /\ c(x) < L
      BY <1>3
    <3> HIDE DEF nx, Stop
    <3>3. pos[x] = x[1] /\ pos[nx[x]] = nx[x][1]
      BY <3>2
    <3> HIDE DEF S, pos
    <3> QED
      BY <1>1, <3>1, <3>2, <3>3
  <2> HIDE DEF S, Stop, out, nx, pos
  <2> QED
    BY <1>1, <2>1, <2>2 DEF Rises
<1>5. \A f : TailRecursive(f, S, Stop, out, nx) <=> ParametersFrom(f)
  <2> SUFFICES ASSUME NEW f PROVE TailRecursive(f, S, Stop, out, nx) <=> ParametersFrom(f)
    OBVIOUS
  <2>1. \A x \in S :
           (IF x \in Stop THEN out[x] ELSE f[nx[x]])
             = IF Type(i(x)) # "IDENT" THEN [names |-> x[2], next |-> i(x)]
               ELSE IF Type(c(x)) # "COMMA" THEN [names |-> longer(x), next |-> c(x)]
               ELSE f[<<c(x) + 1, longer(x)>>]
    OBVIOUS
  <2>2. ParametersFrom(f) <=>
           f = [x \in S |->
                  IF Type(i(x)) # "IDENT" THEN [names |-> x[2], next |-> i(x)]
                  ELSE IF Type(c(x)) # "COMMA" THEN [names |-> longer(x), next |-> c(x)]
                  ELSE f[<<c(x) + 1, longer(x)>>]]
    BY DEF ParametersFrom, i, c, longer
  <2> HIDE DEF S, Stop, out, nx
  <2> QED
    BY <2>1, <2>2 DEF TailRecursive
<1> HIDE DEF Stop, out, nx, pos
<1>6. \E f : ParametersFrom(f)
  <2> HIDE DEF S
  <2> QED
    BY <1>4, <1>5, TailRecursionExists
<1>7. TailRecursive(list, S, Stop, out, nx)
  BY <1>5, <1>6
<1>8. Parameters(p) = list[<<p, <<>>>>]
  BY DEF Parameters, ParametersFrom
<1> HIDE DEF list
<1>9. Keeps(I, S, Stop, nx)
  BY DEF Keeps, S, Stop, nx, i, c, longer, AnotherParameter, ParameterAt, BehindParameter
<1>10. \A y \in I \cap Stop : ~AnotherParameter(y) /\ out[y] = ParametersRead(y)
  BY DEF S, Stop, out, i, c, longer, AnotherParameter, ParametersRead, ParameterAt, BehindParameter
<1> HIDE DEF S
<1>11. \A x \in I : \E y \in I \cap Stop : list[x] = out[y]
  BY <1>4, <1>7, <1>9, TailRecursionResult
<1> DEFINE e == <<>>
<1> HIDE DEF e
<1>12. <<p, e>> \in I /\ Parameters(p) = list[<<p, e>>]
  BY <1>8 DEF e
<1>13. PICK y \in I \cap Stop : list[<<p, e>>] = out[y]
  BY <1>11, <1>12
<1> QED
  BY <1>10, <1>12, <1>13

LEMMA ParametersProperties ==
    ASSUME NEW L, ArrayOK(L), NEW p \in 0..L
    PROVE  Parameters(p) \in [names : Seq(Names), next : 0..L]
<1> DEFINE I == {x \in Nat \X Seq(Names) : x[1] \in 0..L}
           e == <<>>
<1>1. L \in Nat /\ p \in Nat /\ e \in Seq(Names)
  BY TokenTypes
<1>2. I \in SUBSET (Nat \X Seq(Names))
  OBVIOUS
<1>3. <<p, <<>>>> \in I
  <2> HIDE DEF e
  <2>1. <<p, e>> \in I
    BY <1>1
  <2> QED
    BY <2>1 DEF e
<1>4. ASSUME NEW x \in I
      PROVE  /\ x[1] \in 0..L /\ x[2] \in Seq(Names)
             /\ ParameterAt(x[1]) \in 0..L
             /\ Type(ParameterAt(x[1])) = "IDENT" =>
                   /\ Token(ParameterAt(x[1])) \in Names /\ BehindParameter(x[1]) \in 0..L
             /\ AnotherParameter(x) => BehindParameter(x[1]) + 1 \in 0..L
  <2>1. x[1] \in 0..L /\ x[2] \in Seq(Names)
    OBVIOUS
  <2> DEFINE a == x[1]
             i == ParameterAt(a)
             c == BehindParameter(a)
  <2> HIDE DEF a, I
  <2>2. i \in 0..L
    <3>1. a \in Nat /\ a \in 0..L
      BY <1>1, <2>1 DEF a
    <3>2. SkipNewlines(a) \in a..(IF a < L THEN L ELSE a)
      BY <3>1, SkipNewlinesProperties
    <3> QED
      BY <1>1, <3>1, <3>2 DEF ParameterAt
  <2>3. c = SkipNewlines(i + 1)
    BY DEF BehindParameter
  <2> HIDE DEF i, c
  <2>4. Type(i) = "IDENT" => Token(i) \in Names /\ i + 1 \in 0..L
    BY <1>1, <2>2, TokenTypes
  <2>5. Type(i) = "IDENT" => c \in 0..L
    <3> SUFFICES ASSUME Type(i) = "IDENT" PROVE c \in 0..L
      OBVIOUS
    <3>1. i + 1 \in Nat /\ i + 1 <= L
      BY <1>1, <2>4
    <3>2. SkipNewlines(i + 1) \in (i + 1)..(IF i + 1 < L THEN L ELSE i + 1)
      BY <3>1, SkipNewlinesProperties
    <3> QED
      BY <1>1, <2>3, <3>1, <3>2
  <2>6. c \in 0..L /\ Type(c) = "COMMA" => c + 1 \in 0..L
    BY <1>1, TokenTypes
  <2> QED
    BY <2>1, <2>2, <2>4, <2>5, <2>6 DEF a, i, c, AnotherParameter
<1>5. ASSUME NEW x \in I, AnotherParameter(x)
      PROVE  <<BehindParameter(x[1]) + 1, Append(x[2], Token(ParameterAt(x[1])))>> \in I
  <2>1. /\ BehindParameter(x[1]) + 1 \in 0..L
        /\ Append(x[2], Token(ParameterAt(x[1]))) \in Seq(Names)
    BY <1>4, <1>5 DEF AnotherParameter
  <2> QED
    BY <1>1, <2>1
<1> HIDE DEF I
<1>6. PICK x \in I : ~AnotherParameter(x) /\ Parameters(p) = ParametersRead(x)
  BY <1>1, <1>2, <1>3, <1>5, ParametersResult
<1>7. ParametersRead(x) \in [names : Seq(Names), next : 0..L]
  <2>1. CASE Type(ParameterAt(x[1])) # "IDENT"
    BY <1>4, <2>1 DEF ParametersRead
  <2>2. CASE Type(ParameterAt(x[1])) = "IDENT"
    <3>1. /\ Append(x[2], Token(ParameterAt(x[1]))) \in Seq(Names)
          /\ BehindParameter(x[1]) \in 0..L
      BY <1>4, <2>2
    <3> QED
      BY <2>2, <3>1 DEF ParametersRead
  <2> QED
    BY <2>1, <2>2
<1> QED
  BY <1>6, <1>7

-----------------------------------------------------------------------------
(* The inductive invariant.  The waiting activations nest as the engine's    *)
(* functions call each other: Over says which may stand on which, Expected    *)
(* which may be on top.  An if-chain that was left by a return, break or       *)
(* continue has nothing on it but the conditions of the elifs behind it.       *)
Scope == UNION {[D -> Value] : D \in SUBSET Names}

FnDef(L) ==
    {d \in [name : Names, params : Seq(Names), start : 0..L, line : Nat, end : 0..L] :
        Len(d.params) <= MaxParams}

BodyFrames(L) == [k : {"top", "block"}, rv : BOOLEAN, start : 0..L, stmt : 0..L]
OpsFrames == [k : {"ops"}, used : BOOLEAN]
PlainFrames == [k : {"group", "return", "expression", "else"}]
ArgsFrames == [k : {"args"}, name : Names, args : Seq(Value)]
CallFrames(L, n) == [k : {"call"}, back : 0..L, fn : 1..n]
AssignFrames == [k : {"assign"}, name : Names]
PrintFrames == [k : {"print"}, paren : BOOLEAN]
CardFrames == [k : {"card"}, paren : BOOLEAN, more : Nat]
IfFrames == [k : {"if"}, rv : BOOLEAN]
ChainFrames ==
    {f \in [k : {"elifs", "elif"}, rv : BOOLEAN, taken : BOOLEAN, flow : Flow, val : Value] :
        f.flow # "NORMAL" => f.taken}
WhileFrames(L) == [k : {"while"}, cond : 0..L, body : 0..L]
ForFrames(L) == [k : {"for"}, body : 0..L, name : Names]

Activation(L, n) ==
    BodyFrames(L) \cup OpsFrames \cup PlainFrames \cup ArgsFrames \cup CallFrames(L, n)
    \cup AssignFrames \cup PrintFrames \cup CardFrames \cup IfFrames \cup ChainFrames
    \cup WhileFrames(L) \cup ForFrames(L)

\* The statements that wait, and what waits for a value or for a flow.
StatementKinds == {"return", "expression", "assign", "print", "card", "if", "elif",
                   "elifs", "else", "while", "for"}
ValueKinds == {"ops", "group", "args", "return", "expression", "assign", "print", "card",
               "if", "elif", "while", "for"}
FlowKinds == {"top", "block", "elifs", "else", "while", "for", "call"}

Over(f, g) ==
    /\ f.k # "top"
    /\ f.k = "ops" => g.k \in ValueKinds \ {"ops"}
    /\ f.k \in {"group", "args", "call"} => g.k = "ops"
    /\ f.k \in StatementKinds => g.k \in {"top", "block"}
    /\ f.k = "block" => /\ g.k \in FlowKinds \ {"top", "block"}
                        /\ g.k = "elifs" => g.taken /\ g.flow = "NORMAL"

Expected(a) ==
    CASE a = "loop" -> {"block"}
      [] a = "stmt" -> {"top", "block"}
      [] a = "primary" -> {"ops"}
      [] a = "value" -> ValueKinds
      [] a = "flow" -> FlowKinds
      [] a \in {"call", "crash"} -> {"args"}
      [] a = "elifs" -> {"elifs"}
      [] a = "iter" -> {"for"}
      [] OTHER -> {}

TopOK(a, s) ==
    IF s = <<>> THEN a \in {"loop", "end"}
    ELSE /\ Head(s).k \in Expected(a)
         /\ a = "flow" /\ Head(s).k = "elifs" => Head(s).taken

\* The calls that wait, as positions from the bottom of the stack.
CallsIn(s) == {i \in 1..Len(s) : s[Len(s) + 1 - i].k = "call"}

StackOK(s, L, n, c) ==
    /\ s \in Seq(Activation(L, n))
    /\ \A i \in 1..(Len(s) - 1) : Over(s[i], s[i + 1])
    /\ s # <<>> => s[Len(s)].k = "top"
    /\ Cardinality(CallsIn(s)) = c

ProgramOK == session \in DOMAIN Sessions /\ line \in 1..Len(Lines)

FunctionsOK(L) == fns \in Seq(FnDef(L)) /\ Len(fns) <= MaxFnDefs

ScopesOK == globals \in Scope /\ scopes \in Seq(Scope)

Inv(L) ==
    /\ ArrayOK(L) /\ ProgramOK /\ FunctionsOK(L) /\ ScopesOK
    /\ current \in 0..L
    /\ StackOK(stack, L, Len(fns), Len(scopes))
    /\ TopOK(at, stack)
    /\ val \in Value /\ flow \in Flow /\ hadError \in BOOLEAN

IInv == \E L \in 0..(MaxTokens - 1) : Inv(L)

-----------------------------------------------------------------------------
(* Pushing and popping activations. *)

LEMMA CallsPushed ==
    ASSUME NEW X, NEW s \in Seq(X), NEW f
    PROVE  CallsIn(<<f>> \o s) = IF f.k = "call" THEN CallsIn(s) \cup {Len(s) + 1}
                                 ELSE CallsIn(s)
<1> DEFINE t == <<f>> \o s
           n == Len(s)
<1>1. n \in Nat /\ Len(t) = n + 1 /\ t[1] = f
  OBVIOUS
<1>2. \A i \in 1..n : t[i + 1] = s[i]
  OBVIOUS
<1> HIDE DEF t
<1>3. \A i \in 1..n : /\ i \in 1..(n + 1) /\ n + 1 - i \in 1..n
                      /\ t[n + 1 + 1 - i] = s[n + 1 - i]
  <2> TAKE i \in 1..n
  <2>1. n + 1 - i \in 1..n /\ (n + 1 - i) + 1 = n + 1 + 1 - i
    BY <1>1
  <2> QED
    BY <1>1, <1>2, <2>1
<1>4. n + 1 \in 1..(n + 1) /\ t[n + 1 + 1 - (n + 1)] = f
  BY <1>1
<1>5. \A i \in 1..(n + 1) : i \in 1..n \/ i = n + 1
  BY <1>1
<1>6. CallsIn(t) = {i \in 1..(n + 1) : t[n + 1 + 1 - i].k = "call"}
  BY <1>1 DEF CallsIn
<1>7. CallsIn(s) = {i \in 1..n : s[n + 1 - i].k = "call"}
  BY DEF CallsIn
<1> HIDE DEF n
<1>8. CallsIn(t) = IF f.k = "call" THEN CallsIn(s) \cup {n + 1} ELSE CallsIn(s)
  BY <1>3, <1>4, <1>5, <1>6, <1>7
<1> QED
  BY <1>8 DEF t, n

LEMMA CallsFinite ==
    ASSUME NEW X, NEW s \in Seq(X)
    PROVE  /\ IsFiniteSet(CallsIn(s)) /\ Cardinality(CallsIn(s)) \in Nat
           /\ Len(s) + 1 \notin CallsIn(s)
<1>1. CallsIn(s) \subseteq 1..Len(s) /\ Len(s) \in Nat
  BY DEF CallsIn
<1>2. IsFiniteSet(1..Len(s))
  BY <1>1, FS_Interval
<1>3. IsFiniteSet(CallsIn(s))
  BY <1>1, <1>2, FS_Subset
<1>4. Len(s) + 1 \notin 1..Len(s)
  BY <1>1
<1> QED
  BY <1>1, <1>3, <1>4, FS_CardinalityType

LEMMA CallsCounted ==
    ASSUME NEW X, NEW s \in Seq(X), NEW f
    PROVE  Cardinality(CallsIn(<<f>> \o s)) =
               IF f.k = "call" THEN Cardinality(CallsIn(s)) + 1 ELSE Cardinality(CallsIn(s))
<1>1. CASE f.k = "call"
  <2>1. CallsIn(<<f>> \o s) = CallsIn(s) \cup {Len(s) + 1}
    BY <1>1, CallsPushed
  <2> QED
    BY <1>1, <2>1, CallsFinite, FS_AddElement
<1>2. CASE f.k # "call"
  BY <1>2, CallsPushed
<1> QED
  BY <1>1, <1>2

LEMMA Pushed ==
    ASSUME NEW L, NEW n, NEW c, NEW s, StackOK(s, L, n, c), s # <<>>,
           NEW f \in Activation(L, n), Over(f, Head(s))
    PROVE  /\ StackOK(<<f>> \o s, L, n, IF f.k = "call" THEN c + 1 ELSE c)
           /\ <<f>> \o s # <<>> /\ Head(<<f>> \o s) = f /\ Tail(<<f>> \o s) = s
<1> DEFINE A == Activation(L, n)
           t == <<f>> \o s
           m == Len(s)
<1> HIDE DEF A
<1>1. s \in Seq(A) /\ f \in A
  BY DEF StackOK, A
<1>2. /\ t \in Seq(A) /\ m \in Nat \ {0} /\ Len(t) = m + 1 /\ t[1] = f /\ Head(s) = s[1]
      /\ \A i \in 1..m : t[i + 1] = s[i]
      /\ t # <<>> /\ Head(t) = f /\ Tail(t) = s
  BY <1>1
<1>3. Cardinality(CallsIn(t)) = IF f.k = "call" THEN c + 1 ELSE c
  BY <1>1, CallsCounted DEF StackOK
<1> HIDE DEF t, m
<1>4. ASSUME NEW i \in 1..m PROVE Over(t[i], t[i + 1])
  <2>1. CASE i = 1
    BY <1>2, <2>1
  <2>2. CASE i # 1
    <3>1. i - 1 \in 1..(m - 1) /\ i - 1 \in 1..m /\ (i - 1) + 1 = i
      BY <1>2, <2>2
    <3>2. Over(s[i - 1], s[(i - 1) + 1])
      BY <3>1 DEF StackOK, m
    <3> QED
      BY <1>2, <3>1, <3>2
  <2> QED
    BY <2>1, <2>2
<1>5. t[m + 1].k = "top"
  <2>1. m \in 1..m
    BY <1>2
  <2>2. s[m].k = "top"
    BY DEF StackOK, m
  <2> QED
    BY <1>2, <2>1, <2>2
<1>6. StackOK(t, L, n, IF f.k = "call" THEN c + 1 ELSE c)
  <2>1. \A i \in 1..(Len(t) - 1) : Over(t[i], t[i + 1])
    BY <1>2, <1>4
  <2> QED
    BY <1>2, <1>3, <1>5, <2>1 DEF StackOK, A
<1> QED
  BY <1>2, <1>6 DEF t

LEMMA Popped ==
    ASSUME NEW L, NEW n, NEW c, NEW s, StackOK(s, L, n, c), s # <<>>
    PROVE  /\ Head(s) \in Activation(L, n) /\ c \in Nat
           /\ StackOK(Tail(s), L, n, IF Head(s).k = "call" THEN c - 1 ELSE c)
           /\ Head(s).k = "call" => c # 0
           /\ IF Head(s).k = "top" THEN Tail(s) = <<>>
              ELSE Tail(s) # <<>> /\ Over(Head(s), Head(Tail(s)))
<1> DEFINE A == Activation(L, n)
           t == Tail(s)
           m == Len(t)
           f == Head(s)
<1> HIDE DEF A
<1>1. s \in Seq(A)
  BY DEF StackOK, A
<1>2. /\ t \in Seq(A) /\ f \in A /\ s = <<f>> \o t
      /\ m \in Nat /\ Len(s) = m + 1 /\ s[1] = f
      /\ \A i \in 1..m : s[i + 1] = t[i]
      /\ t = <<>> <=> m = 0
      /\ m # 0 => Head(t) = t[1]
  <2>1. t \in Seq(A) /\ f \in A /\ \A i \in 1..m : s[i + 1] = t[i]
    BY <1>1, HeadTailProperties
  <2>2. m \in Nat /\ Len(s) = m + 1 /\ s[1] = f
    BY <1>1, HeadTailProperties, EmptySeq
  <2>3. (t = <<>> <=> m = 0) /\ (m # 0 => Head(t) = t[1])
    <3>1. t \in Seq(A) /\ m = Len(t)
      BY <2>1
    <3> HIDE DEF t, m
    <3>2. t = <<>> <=> m = 0
      BY <3>1, EmptySeq
    <3> QED
      BY <3>1, <3>2
  <2>4. s = <<f>> \o t
    <3> DEFINE u == <<f>> \o t
    <3>1. u \in Seq(A) /\ Len(u) = m + 1 /\ u[1] = f /\ \A i \in 1..m : u[i + 1] = t[i]
      BY <2>1
    <3> HIDE DEF u, t, m, f
    <3>2. \A i \in 1..Len(s) : s[i] = u[i]
      <4> TAKE i \in 1..Len(s)
      <4>1. CASE i = 1
        BY <2>2, <3>1, <4>1
      <4>2. CASE i # 1
        <5>1. i - 1 \in 1..m /\ (i - 1) + 1 = i
          BY <2>2, <4>2
        <5>2. s[(i - 1) + 1] = t[i - 1] /\ u[(i - 1) + 1] = t[i - 1]
          BY <2>1, <3>1, <5>1
        <5> QED
          BY <5>1, <5>2
      <4> QED
        BY <4>1, <4>2
    <3>3. s = u
      BY <1>1, <2>2, <3>1, <3>2, SeqEqual
    <3> QED
      BY <3>3 DEF u
  <2> QED
    BY <2>1, <2>2, <2>3, <2>4
<1> HIDE DEF t, m, f
<1>3. c = Cardinality(CallsIn(s)) /\ c \in Nat
  BY <1>1, CallsFinite DEF StackOK
<1>4. /\ Cardinality(CallsIn(t)) \in Nat
      /\ c = IF f.k = "call" THEN Cardinality(CallsIn(t)) + 1 ELSE Cardinality(CallsIn(t))
  BY <1>2, <1>3, CallsCounted, CallsFinite
<1>5. Cardinality(CallsIn(t)) = (IF f.k = "call" THEN c - 1 ELSE c) /\ (f.k = "call" => c # 0)
  BY <1>4
<1>6. \A i \in 1..m : Over(s[i], s[i + 1])
  BY <1>2 DEF StackOK
<1>7. \A i \in 1..(m - 1) : Over(t[i], t[i + 1])
  <2> TAKE i \in 1..(m - 1)
  <2>1. i \in 1..m /\ i + 1 \in 1..m
    BY <1>2
  <2> QED
    BY <1>2, <1>6, <2>1
<1>8. m # 0 => t[m].k = "top" /\ Over(f, Head(t))
  <2> SUFFICES ASSUME m # 0 PROVE t[m].k = "top" /\ Over(f, Head(t))
    OBVIOUS
  <2>1. m \in 1..m /\ 1 \in 1..m
    BY <1>2
  <2>2. s[m + 1].k = "top"
    BY <1>2 DEF StackOK
  <2> QED
    BY <1>2, <1>6, <2>1, <2>2
<1>9. m = 0 => f.k = "top"
  BY <1>2 DEF StackOK
<1>10. StackOK(t, L, n, IF f.k = "call" THEN c - 1 ELSE c)
  BY <1>2, <1>5, <1>7, <1>8 DEF StackOK, A
<1>11. m # 0 => f.k # "top"
  BY <1>8 DEF Over
<1>12. IF f.k = "top" THEN t = <<>> ELSE t # <<>> /\ Over(f, Head(t))
  BY <1>2, <1>8, <1>9, <1>11
<1> QED
  BY <1>2, <1>3, <1>5, <1>10, <1>12 DEF t, f, A

LEMMA PairInFront ==
    ASSUME NEW A, NEW f \in A, NEW g \in A, NEW s \in Seq(A)
    PROVE  <<g, f>> \o s = <<g>> \o (<<f>> \o s)
<1>1. /\ <<g>> \in Seq(A) /\ <<f>> \in Seq(A) /\ <<g, f>> \in Seq(A)
      /\ Len(<<g>>) = 1 /\ Len(<<f>>) = 1 /\ Len(<<g, f>>) = 2
      /\ <<g>>[1] = g /\ <<f>>[1] = f /\ <<g, f>>[1] = g /\ <<g, f>>[2] = f
  OBVIOUS
<1>2. <<g>> \o <<f>> = <<g, f>>
  <2> DEFINE t == <<g>> \o <<f>>
  <2>1. t \in Seq(A) /\ Len(t) = 2 /\ t[1] = g /\ t[2] = f
    OBVIOUS
  <2> HIDE DEF t
  <2>2. \A i \in 1..Len(t) : t[i] = <<g, f>>[i]
    BY <1>1, <2>1
  <2>3. t = <<g, f>>
    BY <1>1, <2>1, <2>2, SeqEqual
  <2> QED
    BY <2>3 DEF t
<1> QED
  BY <1>1, <1>2, ConcatAssociative

LEMMA TwoPushed ==
    ASSUME NEW L, NEW n, NEW c, NEW s, StackOK(s, L, n, c), s # <<>>,
           NEW f \in Activation(L, n), Over(f, Head(s)),
           NEW g \in Activation(L, n), Over(g, f), g.k # "call"
    PROVE  /\ StackOK(<<g, f>> \o s, L, n, IF f.k = "call" THEN c + 1 ELSE c)
           /\ <<g, f>> \o s # <<>> /\ Head(<<g, f>> \o s) = g
<1> DEFINE A == Activation(L, n)
           t == <<f>> \o s
<1>1. /\ StackOK(t, L, n, IF f.k = "call" THEN c + 1 ELSE c)
      /\ t # <<>> /\ Head(t) = f
  BY Pushed
<1>2. <<g, f>> \o s = <<g>> \o t
  BY PairInFront DEF StackOK
<1> HIDE DEF t
<1> DEFINE d == IF f.k = "call" THEN c + 1 ELSE c
<1>3. StackOK(t, L, n, d) /\ Over(g, Head(t))
  BY <1>1
<1> HIDE DEF d
<1>4. StackOK(<<g>> \o t, L, n, d)
  <2>1. StackOK(<<g>> \o t, L, n, IF g.k = "call" THEN d + 1 ELSE d)
    BY <1>1, <1>3, Pushed
  <2> QED
    BY <2>1
<1>5. <<g>> \o t # <<>> /\ Head(<<g>> \o t) = g
  BY <1>1, <1>3, Pushed
<1> QED
  BY <1>2, <1>4, <1>5 DEF d

\* An activation that goes on as another one.
LEMMA Replaced ==
    ASSUME NEW L, NEW n, NEW c, NEW s, StackOK(s, L, n, c), s # <<>>,
           Head(s).k \notin {"top", "call"},
           NEW f \in Activation(L, n), f.k # "call", \A g : Over(Head(s), g) => Over(f, g)
    PROVE  /\ StackOK(<<f>> \o Tail(s), L, n, c)
           /\ <<f>> \o Tail(s) # <<>> /\ Head(<<f>> \o Tail(s)) = f
<1> DEFINE t == Tail(s)
<1>1. t # <<>> /\ Over(Head(s), Head(t))
  BY Popped
<1>2. StackOK(t, L, n, c)
  <2>1. StackOK(t, L, n, IF Head(s).k = "call" THEN c - 1 ELSE c)
    BY Popped
  <2> QED
    BY <2>1
<1> HIDE DEF t
<1>3. StackOK(<<f>> \o t, L, n, IF f.k = "call" THEN c + 1 ELSE c)
  BY <1>1, <1>2, Pushed
<1>4. <<f>> \o t # <<>> /\ Head(<<f>> \o t) = f
  BY <1>1, <1>2, Pushed
<1> QED
  BY <1>3, <1>4 DEF t

\* A longer token array or list of functions disturbs no activation.
LEMMA ActivationGrows ==
    ASSUME NEW L \in Nat, NEW M \in Nat, L <= M, NEW n \in Nat, NEW m \in Nat, n <= m
    PROVE  Activation(L, n) \subseteq Activation(M, m)
<1>1. 0..L \subseteq 0..M /\ 1..n \subseteq 1..m
  OBVIOUS
<1>2. BodyFrames(L) \subseteq BodyFrames(M)
  BY <1>1 DEF BodyFrames
<1>3. CallFrames(L, n) \subseteq CallFrames(M, m)
  BY <1>1 DEF CallFrames
<1>4. WhileFrames(L) \subseteq WhileFrames(M) /\ ForFrames(L) \subseteq ForFrames(M)
  BY <1>1 DEF WhileFrames, ForFrames
<1> QED
  BY <1>2, <1>3, <1>4, Zenon DEF Activation

LEMMA StackGrows ==
    ASSUME NEW L \in Nat, NEW M \in Nat, L <= M, NEW n \in Nat, NEW m \in Nat, n <= m,
           NEW c, NEW s, StackOK(s, L, n, c)
    PROVE  StackOK(s, M, m, c)
<1>1. s \in Seq(Activation(M, m))
  BY ActivationGrows, SeqMonotonic DEF StackOK
<1> QED
  BY <1>1 DEF StackOK

\* The statement of the main loop is on the empty stack.
LEMMA FirstPushed ==
    ASSUME NEW L, NEW n, NEW c, StackOK(<<>>, L, n, c),
           NEW f \in Activation(L, n), f.k = "top"
    PROVE  StackOK(<<f>>, L, n, c) /\ <<f>> # <<>> /\ Head(<<f>>) = f
<1> DEFINE A == Activation(L, n)
<1>1. <<f>> \in Seq(A) /\ <<>> \in Seq(A) /\ Len(<<f>>) = 1 /\ <<f>>[1] = f
  OBVIOUS
<1> HIDE DEF A
<1>2. <<f>> = <<f>> \o <<>>
  BY <1>1, ConcatEmptySeq
<1>3. Cardinality(CallsIn(<<f>>)) = c
  BY <1>1, <1>2, CallsCounted DEF StackOK
<1> QED
  BY <1>1, <1>3 DEF StackOK, A

-----------------------------------------------------------------------------
(* The activations. *)

LEMMA Frames ==
    ASSUME NEW L, NEW n, NEW f \in Activation(L, n)
    PROVE  /\ f.k \in {"top", "block"} => f \in BodyFrames(L)
           /\ f.k = "ops" => f \in OpsFrames
           /\ f.k \in {"group", "return", "expression", "else"} => f \in PlainFrames
           /\ f.k = "args" => f \in ArgsFrames
           /\ f.k = "call" => f \in CallFrames(L, n)
           /\ f.k = "assign" => f \in AssignFrames
           /\ f.k = "print" => f \in PrintFrames
           /\ f.k = "card" => f \in CardFrames
           /\ f.k = "if" => f \in IfFrames
           /\ f.k \in {"elifs", "elif"} => f \in ChainFrames
           /\ f.k = "while" => f \in WhileFrames(L)
           /\ f.k = "for" => f \in ForFrames(L)
  BY DEF Activation, BodyFrames, OpsFrames, PlainFrames, ArgsFrames, CallFrames, AssignFrames,
         PrintFrames, CardFrames, IfFrames, ChainFrames, WhileFrames, ForFrames

LEMMA NewFrames ==
    ASSUME NEW L, NEW n
    PROVE  /\ BodyFrames(L) \subseteq Activation(L, n)
           /\ OpsFrames \subseteq Activation(L, n)
           /\ PlainFrames \subseteq Activation(L, n)
           /\ ArgsFrames \subseteq Activation(L, n)
           /\ CallFrames(L, n) \subseteq Activation(L, n)
           /\ AssignFrames \subseteq Activation(L, n)
           /\ PrintFrames \subseteq Activation(L, n)
           /\ CardFrames \subseteq Activation(L, n)
           /\ IfFrames \subseteq Activation(L, n)
           /\ ChainFrames \subseteq Activation(L, n)
           /\ WhileFrames(L) \subseteq Activation(L, n)
           /\ ForFrames(L) \subseteq Activation(L, n)
  BY DEF Activation

-----------------------------------------------------------------------------
(* How a step leaves the engine. *)

LEMMA Positions ==
    ASSUME NEW L, ArrayOK(L), NEW p \in 0..L
    PROVE  /\ SkipNewlines(p) \in 0..L /\ SkipBlock(p) \in 0..L /\ Closed(p) \in 0..L
           /\ \A types : "EOF" \in types => Nearest(p, types) \in 0..L
           /\ Type(p) # "EOF" => p + 1 \in 0..L
<1>1. L \in Nat
  BY TokenTypes
<1>2. Type(p) # "EOF" => p + 1 \in 0..L
  BY BeforeEnd
<1>3. SkipNewlines(p) \in p..(IF p < L THEN L ELSE p)
  BY <1>1, SkipNewlinesProperties
<1>4. SkipBlock(p) \in p..L
  BY SkipBlockProperties
<1>5. \A types : "EOF" \in types => Nearest(p, types) \in p..L
  BY NearestProperties
<1>6. Closed(p) \in 0..L
  BY <1>2 DEF Closed
<1> QED
  BY <1>1, <1>2, <1>3, <1>4, <1>5, <1>6

\* What the rest of a step has to keep: the scopes, one for each call.
ScopesKept(L, s) ==
    /\ globals' \in Scope /\ scopes' \in Seq(Scope)
    /\ StackOK(s, L, Len(fns), Len(scopes'))
    /\ hadError' \in BOOLEAN

LEMMA Preserved ==
    ASSUME NEW L, Inv(L), UNCHANGED <<programVars, fns>>,
           current' \in 0..L, ScopesKept(L, stack'), TopOK(at', stack'),
           val' \in Value, flow' \in Flow
    PROVE  Inv(L)'
  BY DEF Inv, ArrayOK, ProgramOK, FunctionsOK, ScopesOK, ScopesKept, programVars, Token, Lines

\* The frame on top, and what waits below it.
LEMMA TopFrame ==
    ASSUME NEW L, Inv(L), stack # <<>>
    PROVE  /\ Top \in Activation(L, Len(fns)) /\ Len(scopes) \in Nat
           /\ Top.k \in Expected(at)
           /\ StackOK(stack, L, Len(fns), Len(scopes))
           /\ StackOK(Rest, L, Len(fns), IF Top.k = "call" THEN Len(scopes) - 1 ELSE Len(scopes))
           /\ Top.k = "call" => Len(scopes) # 0
           /\ IF Top.k = "top" THEN Rest = <<>> ELSE Rest # <<>> /\ Over(Top, Head(Rest))
<1>1. StackOK(stack, L, Len(fns), Len(scopes)) /\ TopOK(at, stack)
  BY DEF Inv
<1>2. Top.k \in Expected(at)
  BY <1>1 DEF TopOK, Top
<1> QED
  BY <1>1, <1>2, Popped DEF Top, Rest

LEMMA EndStatementKeeps ==
    ASSUME NEW L, Inv(L), stack # <<>>, Top.k \in {"top", "block"},
           NEW p \in 0..L, NEW f \in Flow, EndStatement(p, f), ScopesKept(L, stack)
    PROVE  Inv(L)'
<1>1. TopOK("flow", stack)
  BY DEF TopOK, Top, Expected, FlowKinds
<1> QED
  BY <1>1, Preserved DEF EndStatement, Value

LEMMA FailKeeps ==
    ASSUME NEW L, Inv(L), stack # <<>>, Top.k \in {"top", "block"}, NEW p \in 0..L, Fail(p)
    PROVE  Inv(L)'
<1>1. ScopesKept(L, stack)
  BY DEF Fail, Inv, ScopesOK, ScopesKept, scopeVars
<1> QED
  BY <1>1, EndStatementKeeps DEF Fail, Flow

LEMMA DoneKeeps ==
    ASSUME NEW L, Inv(L), stack # <<>>, Top.k \in {"top", "block"},
           NEW p \in 0..L, NEW f \in Flow, Done(p, f)
    PROVE  Inv(L)'
<1>1. ScopesKept(L, stack)
  BY DEF Done, Inv, ScopesOK, ScopesKept, scopeVars
<1> QED
  BY <1>1, EndStatementKeeps DEF Done

LEMMA EndFrameKeeps ==
    ASSUME NEW L, Inv(L), stack # <<>>, Top.k \in StatementKinds \cup {"block"},
           NEW p \in 0..L, NEW f \in Flow, NEW v \in Value, EndFrame(p, f, v),
           ScopesKept(L, Rest)
    PROVE  Inv(L)'
<1>1. Rest # <<>> /\ Over(Top, Head(Rest))
  BY TopFrame DEF StatementKinds
<1>2. TopOK("flow", Rest)
  BY <1>1 DEF TopOK, Over, Expected, FlowKinds, StatementKinds
<1> QED
  BY <1>2, Preserved DEF EndFrame

LEMMA EvaluateKeeps ==
    ASSUME NEW L, Inv(L), NEW below, below # <<>>, ScopesKept(L, below), NEW p \in 0..L,
           NEW f \in Activation(L, Len(fns)), f.k \in ValueKinds \ {"ops"}, Over(f, Head(below)),
           Evaluate(p, f, below)
    PROVE  Inv(L)'
<1> DEFINE g == [k |-> "ops", used |-> FALSE]
<1>1. g \in Activation(L, Len(fns))
  BY NewFrames DEF OpsFrames
<1>2. g.k = "ops" /\ Over(g, f) /\ f.k # "call"
  BY DEF Over, ValueKinds, StatementKinds
<1>3. stack' = <<g, f>> \o below
  BY DEF Evaluate
<1> HIDE DEF g
<1>4. StackOK(stack', L, Len(fns), Len(scopes')) /\ stack' # <<>> /\ Head(stack') = g
  <2> DEFINE c == Len(scopes')
  <2>1. StackOK(below, L, Len(fns), c)
    BY DEF ScopesKept
  <2> HIDE DEF c
  <2>2. StackOK(<<g, f>> \o below, L, Len(fns), IF f.k = "call" THEN c + 1 ELSE c)
    BY <1>1, <1>2, <2>1, TwoPushed
  <2>3. <<g, f>> \o below # <<>> /\ Head(<<g, f>> \o below) = g
    BY <1>1, <1>2, <2>1, TwoPushed
  <2> QED
    BY <1>2, <1>3, <2>2, <2>3 DEF c
<1>5. TopOK("primary", stack')
  BY <1>2, <1>4 DEF TopOK, Expected
<1>6. ScopesKept(L, stack')
  BY <1>4 DEF ScopesKept
<1> QED
  BY <1>5, <1>6, Preserved DEF Evaluate, Value, Flow

LEMMA ExecuteKeeps ==
    ASSUME NEW L, Inv(L), NEW below, below # <<>>, NEW p \in 0..L, NEW b \in BOOLEAN,
           NEW f \in Activation(L, Len(fns)), f.k \in FlowKinds \ {"top", "block"},
           f.k = "elifs" => f.taken /\ f.flow = "NORMAL", Over(f, Head(below)),
           globals' \in Scope, scopes' \in Seq(Scope), hadError' \in BOOLEAN,
           NEW c, StackOK(below, L, Len(fns), c),
           Len(scopes') = (IF f.k = "call" THEN c + 1 ELSE c),
           Execute(p, f, below, b)
    PROVE  Inv(L)'
<1> DEFINE g == [k |-> "block", rv |-> b, start |-> p, stmt |-> p]
<1>1. g \in Activation(L, Len(fns))
  BY NewFrames DEF BodyFrames
<1>2. g.k = "block" /\ Over(g, f)
  BY DEF Over, StatementKinds
<1>3. stack' = <<g, f>> \o below
  BY DEF Execute
<1> HIDE DEF g
<1>4. StackOK(stack', L, Len(fns), Len(scopes')) /\ stack' # <<>> /\ Head(stack') = g
  BY <1>1, <1>2, <1>3, TwoPushed
<1>5. TopOK("loop", stack')
  BY <1>2, <1>4 DEF TopOK, Expected
<1>6. ScopesKept(L, stack')
  BY <1>4 DEF ScopesKept
<1> QED
  BY <1>5, <1>6, Preserved DEF Execute, Value, Flow

\* The scopes stay: the frame on top becomes f.
LEMMA ContinueKeeps ==
    ASSUME NEW L, Inv(L), stack # <<>>, Top.k \notin {"top", "call"},
           NEW p \in 0..L, NEW a, NEW f \in Activation(L, Len(fns)), f.k # "call",
           \A g : Over(Top, g) => Over(f, g), f.k \in Expected(a),
           a # "flow", Continue(p, f, a), UNCHANGED <<scopeVars, hadError>>
    PROVE  Inv(L)'
<1>1. StackOK(stack, L, Len(fns), Len(scopes))
  BY TopFrame
<1>2. StackOK(stack', L, Len(fns), Len(scopes)) /\ stack' # <<>> /\ Head(stack') = f
  BY <1>1, Replaced DEF Continue, Top, Rest
<1>3. TopOK(a, stack')
  BY <1>2 DEF TopOK
<1>4. ScopesKept(L, stack')
  BY <1>2 DEF ScopesKept, Inv, ScopesOK, scopeVars
<1>5. val' = val /\ flow' = flow /\ val \in Value /\ flow \in Flow
  BY DEF Continue, Inv
<1> QED
  BY <1>3, <1>4, <1>5, Preserved DEF Continue

LEMMA YieldKeeps ==
    ASSUME NEW L, Inv(L), NEW below, below # <<>>, ScopesKept(L, below),
           Head(below).k \in ValueKinds, NEW p \in 0..L, NEW v \in Value, Yield(p, below, v)
    PROVE  Inv(L)'
<1>1. TopOK("value", below)
  BY DEF TopOK, Expected
<1> QED
  BY <1>1, Preserved DEF Yield, Flow

\* A step that leaves the scopes alone.
LEMMA ScopesStay ==
    ASSUME NEW L, Inv(L), UNCHANGED scopeVars, hadError' \in BOOLEAN,
           NEW s, StackOK(s, L, Len(fns), Len(scopes))
    PROVE  ScopesKept(L, s)
  BY DEF Inv, ScopesOK, ScopesKept, scopeVars

-----------------------------------------------------------------------------
(* Variables. *)

LEMMA ScopeMembers ==
    ASSUME NEW D \in SUBSET Names, NEW s \in [D -> Value]
    PROVE  s \in Scope
  BY DEF Scope

LEMMA WithProperties ==
    ASSUME NEW s \in Scope, NEW x \in Names, NEW v \in Value
    PROVE  /\ With(s, x, v) \in Scope
           /\ \A y \in DOMAIN s : /\ y \in DOMAIN With(s, x, v)
                                  /\ With(s, x, v)[y] \in {s[y], v}
<1>1. PICK D \in SUBSET Names : s \in [D -> Value]
  BY DEF Scope
<1>2. CASE x \in DOMAIN s \/ Cardinality(DOMAIN s) < MaxVars
  <2> DEFINE E == D \cup {x}
             t == [y \in E |-> IF y = x THEN v ELSE s[y]]
  <2>1. With(s, x, v) = t
    BY <1>1, <1>2 DEF With
  <2>2. E \in SUBSET Names /\ t \in [E -> Value]
    BY <1>1
  <2>3. t \in Scope
    BY <2>2, ScopeMembers
  <2>4. \A y \in D : y \in E /\ t[y] \in {s[y], v}
    OBVIOUS
  <2>5. DOMAIN s = D /\ DOMAIN t = E
    BY <1>1
  <2> HIDE DEF t, E
  <2> QED
    BY <2>1, <2>3, <2>4, <2>5
<1>3. CASE ~(x \in DOMAIN s \/ Cardinality(DOMAIN s) < MaxVars)
  <2>1. With(s, x, v) = s
    BY <1>3 DEF With
  <2> QED
    BY <2>1
<1> QED
  BY <1>2, <1>3

LEMMA FrameInScope ==
    ASSUME NEW ps \in Seq(Names), NEW args \in Seq(Value)
    PROVE  Frame(ps, args) \in Scope
<1> DEFINE D == {ps[i] : i \in DOMAIN ps}
           e(x) == LET i == CHOOSE i \in DOMAIN ps :
                               ps[i] = x /\ \A j \in DOMAIN ps : ps[j] = x => j <= i
                   IN  IF i <= Len(args) THEN args[i] ELSE "nil"
<1>1. D \in SUBSET Names
  OBVIOUS
<1>2. ASSUME NEW x \in D PROVE e(x) \in Value
  <2> DEFINE Last(i) == ps[i] = x /\ \A j \in DOMAIN ps : ps[j] = x => j <= i
             i == CHOOSE i \in DOMAIN ps : Last(i)
  <2>1. PICK k \in 1..Len(ps) : ps[k] = x
    OBVIOUS
  <2>2. \E m \in DOMAIN ps : Last(m)
    <3> DEFINE P == {j \in 1..Len(ps) : ps[j] = x}
    <3>1. Len(ps) \in Nat /\ DOMAIN ps = 1..Len(ps)
      OBVIOUS
    <3>2. \E m \in P : \A j \in P : j <= m
      <4>1. P \in SUBSET (0..Len(ps)) /\ P # {}
        BY <2>1, <3>1
      <4> HIDE DEF P
      <4> QED
        BY <3>1, <4>1, GreatestElement
    <3> QED
      BY <3>1, <3>2
  <2>3. i \in DOMAIN ps
    BY <2>2
  <2> HIDE DEF i
  <2>4. i \in Nat \ {0}
    BY <2>3
  <2>5. i <= Len(args) => args[i] \in Value
    BY <2>4, ElementOfSeq
  <2>6. (IF i <= Len(args) THEN args[i] ELSE "nil") \in Value
    BY <2>5 DEF Value
  <2> QED
    BY <2>6 DEF i
<1>3. Frame(ps, args) = [x \in D |-> e(x)]
  BY DEF Frame
<1> HIDE DEF D, e
<1>4. [x \in D |-> e(x)] \in [D -> Value]
  BY <1>2
<1> QED
  BY <1>1, <1>3, <1>4, ScopeMembers

LEMMA ScopeSetKeeps ==
    ASSUME ScopesOK, NEW x \in Names, NEW v \in Value, ScopeSet(x, v)
    PROVE  /\ globals' \in Scope /\ scopes' \in Seq(Scope) /\ Len(scopes') = Len(scopes)
           /\ InFunction => globals' = globals /\ Tail(scopes') = Tail(scopes)
<1>1. CASE InFunction
  <2> DEFINE w == With(Head(scopes), x, v)
             t == Tail(scopes)
  <2>1. /\ scopes \in Seq(Scope) /\ Head(scopes) \in Scope /\ t \in Seq(Scope)
        /\ Len(scopes) \in Nat /\ Len(t) = Len(scopes) - 1
    BY <1>1, HeadTailProperties, LenProperties DEF ScopesOK, InFunction
  <2>2. w \in Scope
    BY <2>1, WithProperties
  <2>3. scopes' = <<w>> \o t /\ globals' = globals
    BY <1>1 DEF ScopeSet, scopeVars
  <2> HIDE DEF w, t
  <2>4. <<w>> \o t \in Seq(Scope) /\ Len(<<w>> \o t) = Len(t) + 1 /\ Tail(<<w>> \o t) = t
    BY <2>1, <2>2
  <2> QED
    BY <2>1, <2>3, <2>4 DEF ScopesOK, t
<1>2. CASE ~InFunction
  BY <1>2, WithProperties DEF ScopeSet, ScopesOK
<1> QED
  BY <1>1, <1>2

-----------------------------------------------------------------------------
(* The main loop and exec_block. *)

LEMMA Cursor ==
    ASSUME NEW L, Inv(L)
    PROVE  /\ L \in Nat /\ ArrayOK(L) /\ current \in 0..L /\ Here \in 0..L
           /\ val \in Value /\ flow \in Flow /\ hadError \in BOOLEAN
           /\ StackOK(stack, L, Len(fns), Len(scopes)) /\ TopOK(at, stack)
           /\ fns \in Seq(FnDef(L)) /\ Len(fns) \in Nat
           /\ at \notin {"loop", "end"} => stack # <<>>
<1>1. ArrayOK(L) /\ current \in 0..L /\ fns \in Seq(FnDef(L))
  BY DEF Inv, FunctionsOK
<1>2. Len(fns) \in Nat
  BY <1>1
<1> QED
  BY <1>1, <1>2, TokenTypes, Positions DEF Inv, Here, TopOK

LEMMA SessionProperties ==
    ASSUME session \in DOMAIN Sessions
    PROVE  Repl \in BOOLEAN /\ Lines \in Seq(Seq(Tokens \ {"EOF"})) /\ Lines # <<>>
<1>1. Sessions \in Seq(Session) /\ session \in 1..Len(Sessions)
  BY SessionsAssumption
<1>2. Sessions[session] \in Session
  BY <1>1, ElementOfSeq
<1>3. Sessions[session].lines # <<>>
  BY SessionsAssumption
<1> QED
  BY <1>2, <1>3 DEF Session, Repl, Lines

LEMMA MainStatementKeeps == ASSUME NEW L, Inv(L), MainStatement PROVE Inv(L)'
<1> DEFINE f == [k |-> "top", rv |-> Repl, start |-> 0, stmt |-> Here]
<1>1. f \in Activation(L, Len(fns)) /\ f.k = "top"
  <2>1. Repl \in BOOLEAN
    BY SessionProperties DEF Inv, ProgramOK
  <2>2. 0 \in 0..L /\ Here \in 0..L
    BY Cursor
  <2> QED
    BY <2>1, <2>2, NewFrames DEF BodyFrames
<1>2. stack = <<>> /\ stack' = <<f>> /\ at' = "stmt"
  BY DEF MainStatement, Main
<1> HIDE DEF f
<1>3. StackOK(<<f>>, L, Len(fns), Len(scopes)) /\ <<f>> # <<>> /\ Head(<<f>>) = f
  BY <1>1, <1>2, Cursor, FirstPushed
<1>4. TopOK(at', stack')
  BY <1>1, <1>2, <1>3 DEF TopOK, Expected
<1>5. UNCHANGED <<programVars, fns, scopeVars, val, flow, hadError>> /\ current' = Here
  BY DEF MainStatement
<1>6. ScopesKept(L, stack')
  BY <1>2, <1>3, <1>5, Cursor, ScopesStay
<1> QED
  BY <1>4, <1>5, <1>6, Cursor, Preserved

LEMMA MainStatementDoneKeeps == ASSUME NEW L, Inv(L), MainStatementDone PROVE Inv(L)'
<1>1. stack # <<>> /\ Top.k = "top"
  BY DEF MainStatementDone, TopIs
<1>2. Rest = <<>> /\ StackOK(Rest, L, Len(fns), Len(scopes))
  BY <1>1, TopFrame
<1>3. stack' = Rest /\ at' = "loop"
  BY DEF MainStatementDone
<1>4. TopOK(at', stack')
  BY <1>2, <1>3 DEF TopOK
<1>5. current' \in 0..L
  BY Cursor, BeforeEnd DEF MainStatementDone
<1>6. ScopesKept(L, stack')
  BY <1>2, <1>3, Cursor, ScopesStay DEF MainStatementDone
<1> QED
  BY <1>4, <1>5, <1>6, Preserved DEF MainStatementDone, Value, Flow

LEMMA ExitKeeps == ASSUME NEW L, Inv(L), Exit PROVE Inv(L)'
<1>1. stack = <<>> /\ stack' = stack /\ at' = "end"
  BY DEF Exit, Main
<1>2. TopOK(at', stack')
  BY <1>1 DEF TopOK
<1>3. ScopesKept(L, stack')
  BY <1>1, Cursor, ScopesStay DEF Exit
<1> QED
  BY <1>2, <1>3, Cursor, Preserved DEF Exit

\* Tokenize leaves an array that ends with "EOF" and is no shorter.
LEMMA TokenizeProperties ==
    ASSUME NEW old, NEW l \in Seq(Tokens \ {"EOF"}),
           \/ DOMAIN old = {}
           \/ \E M \in 0..(MaxTokens - 1) :
                  DOMAIN old = 0..M /\ old \in [0..M -> Tokens] /\ old[M] = "EOF"
    PROVE  \E n \in 0..(MaxTokens - 1), N \in 0..(MaxTokens - 1) :
               /\ DOMAIN old \subseteq 0..N /\ n <= N /\ (DOMAIN old = {} => n = N)
               /\ Tokenize(l, old) \in [0..N -> Tokens]
               /\ Tokenize(l, old)[N] = "EOF"
               /\ \A p \in 0..(n - 1) : Tokenize(l, old)[p] # "EOF"
<1> DEFINE D == DOMAIN old
<1>0. PICK M \in 0..(MaxTokens - 1) :
          \/ D = {} /\ M = 0
          \/ D = 0..M /\ old \in [0..M -> Tokens] /\ old[M] = "EOF"
  BY LimitsAssumption
<1> DEFINE n == IF Len(l) < MaxTokens THEN Len(l) ELSE MaxTokens - 1
           N == IF M < n THEN n ELSE M
           t == Tokenize(l, old)
<1>1. /\ n \in 0..(MaxTokens - 1) /\ M \in 0..(MaxTokens - 1) /\ N \in 0..(MaxTokens - 1)
      /\ M <= N /\ n <= N /\ (D = {} => n = N) /\ n <= Len(l)
  BY <1>0, LimitsAssumption
<1>2. 0..n \cup D = 0..N
  BY <1>0, <1>1
<1>3. t = [p \in 0..N |-> IF p < n THEN l[p + 1] ELSE IF p = n THEN "EOF" ELSE old[p]]
  BY <1>2 DEF Tokenize
<1> HIDE DEF t, N
<1>4. \A p \in 0..N : p < n => l[p + 1] \in Tokens \ {"EOF"}
  <2> SUFFICES ASSUME NEW p \in 0..N, p < n PROVE l[p + 1] \in Tokens \ {"EOF"}
    OBVIOUS
  <2>1. p + 1 \in 1..Len(l)
    BY <1>1
  <2> QED
    BY <2>1, ElementOfSeq
<1> HIDE DEF n
<1>5. \A p \in 0..N : p > n => p \in D /\ old[p] \in Tokens
  BY <1>0, <1>1, <1>2
<1>6. "EOF" \in Tokens
  BY LimitsAssumption DEF Tokens, TokenType
<1>7. t \in [0..N -> Tokens]
  BY <1>1, <1>3, <1>4, <1>5, <1>6
<1>8. t[N] = "EOF"
  <2>1. CASE N = n
    BY <1>1, <1>3, <2>1
  <2>2. CASE N # n
    <3>1. N = M /\ n < N
      BY <1>1, <2>2 DEF N
    <3>2. old[M] = "EOF"
      BY <1>0, <1>1, <3>1
    <3> QED
      BY <1>1, <1>3, <3>1, <3>2
  <2> QED
    BY <2>1, <2>2
<1>9. \A p \in 0..(n - 1) : t[p] # "EOF"
  BY <1>1, <1>3, <1>4
<1> QED
  BY <1>1, <1>2, <1>7, <1>8, <1>9 DEF t

\* The array grows; everything else stays in its bounds.
LEMMA NextLineKeeps == ASSUME NEW L \in 0..(MaxTokens - 1), Inv(L), NextLine PROVE IInv'
<1>1. /\ Lines \in Seq(Seq(Tokens \ {"EOF"})) /\ line + 1 \in 1..Len(Lines)
      /\ line \in Nat \ {0}
  <2>1. Lines \in Seq(Seq(Tokens \ {"EOF"}))
    BY SessionProperties DEF Inv, ProgramOK
  <2> QED
    BY <2>1 DEF NextLine, Inv, ProgramOK
<1> DEFINE l == Lines[line + 1]
<1>2. l \in Seq(Tokens \ {"EOF"})
  BY <1>1
<1>3. tokens \in [0..L -> Tokens] /\ tokens[L] = "EOF" /\ L \in Nat
  BY Cursor DEF ArrayOK
<1> HIDE DEF l
<1>4. PICK N \in 0..(MaxTokens - 1) :
          /\ L <= N /\ Tokenize(l, tokens) \in [0..N -> Tokens] /\ Tokenize(l, tokens)[N] = "EOF"
  <2>1. DOMAIN tokens = 0..L /\ L \in DOMAIN tokens
    BY <1>3
  <2>2. PICK N \in 0..(MaxTokens - 1) :
            /\ DOMAIN tokens \subseteq 0..N
            /\ Tokenize(l, tokens) \in [0..N -> Tokens] /\ Tokenize(l, tokens)[N] = "EOF"
    BY <1>2, <1>3, <2>1, TokenizeProperties
  <2>3. L <= N
    BY <2>1, <2>2
  <2> QED
    BY <2>2, <2>3
<1>5. tokens' = Tokenize(l, tokens) /\ line' = line + 1
  BY DEF NextLine, l
<1>6. ArrayOK(N)'
  <2>1. line' # 1
    BY <1>1, <1>5
  <2>2. tokens' \in [0..N -> Tokens] /\ tokens'[N] = "EOF"
    BY <1>4, <1>5
  <2> QED
    BY <1>4, <2>1, <2>2 DEF ArrayOK
<1>7. N \in Nat
  BY <1>3, <1>4
<1>8. FnDef(L) \subseteq FnDef(N)
  <2>1. 0..L \subseteq 0..N
    BY <1>3, <1>4
  <2> QED
    BY <2>1 DEF FnDef
<1>9. FunctionsOK(N)'
  BY <1>8, SeqMonotonic DEF NextLine, Inv, FunctionsOK
<1>10. StackOK(stack, N, Len(fns), Len(scopes))
  BY <1>3, <1>4, <1>7, Cursor, StackGrows
<1>11. current' \in 0..N
  BY <1>7 DEF NextLine
<1>12. ProgramOK'
  BY <1>1, <1>5 DEF NextLine, Inv, ProgramOK, Lines
<1>13. Inv(N)'
  BY <1>6, <1>9, <1>10, <1>11, <1>12 DEF NextLine, Inv, ScopesOK, scopeVars
<1> QED
  BY <1>13 DEF IInv

LEMMA BlockStatementKeeps == ASSUME NEW L, Inv(L), BlockStatement PROVE Inv(L)'
<1>1. stack # <<>> /\ Top.k = "block"
  BY DEF BlockStatement, InBlock, TopIs
<1> DEFINE f == [k |-> "block", rv |-> Top.rv, start |-> Top.start, stmt |-> Here]
<1>2. Top \in BodyFrames(L)
  BY <1>1, TopFrame, Frames
<1>3. f = [Top EXCEPT !.stmt = Here] /\ f \in BodyFrames(L)
  BY <1>1, <1>2, Cursor DEF BodyFrames
<1>4. f \in Activation(L, Len(fns)) /\ f.k = "block" /\ \A g : Over(Top, g) => Over(f, g)
  BY <1>1, <1>3, NewFrames DEF Over, StatementKinds
<1>5. stack' = <<f>> \o Rest /\ at' = "stmt"
  BY <1>3 DEF BlockStatement
<1> HIDE DEF f
<1>6. StackOK(stack', L, Len(fns), Len(scopes)) /\ stack' # <<>> /\ Head(stack') = f
  BY <1>1, <1>4, <1>5, Cursor, Replaced DEF Top, Rest
<1>7. TopOK(at', stack')
  BY <1>4, <1>5, <1>6 DEF TopOK, Expected
<1>8. ScopesKept(L, stack')
  BY <1>6, Cursor, ScopesStay DEF BlockStatement
<1> QED
  BY <1>7, <1>8, Cursor, Preserved DEF BlockStatement

LEMMA BlockEndKeeps == ASSUME NEW L, Inv(L), BlockEnd PROVE Inv(L)'
<1>1. stack # <<>> /\ Top.k = "block"
  BY DEF BlockEnd, InBlock, TopIs
<1> DEFINE p == IF Type(current) = "RBRACE" THEN current + 1 ELSE current
<1>2. EndFrame(p, "NORMAL", "nil") /\ UNCHANGED <<scopeVars, hadError>>
  BY DEF BlockEnd
<1>3. p \in 0..L
  BY Cursor, BeforeEnd
<1> HIDE DEF p
<1>4. ScopesKept(L, Rest)
  BY <1>1, <1>2, Cursor, TopFrame, ScopesStay
<1> QED
  BY <1>1, <1>2, <1>3, <1>4, EndFrameKeeps DEF Value, Flow

LEMMA BlockGoesOnKeeps == ASSUME NEW L, Inv(L), BlockGoesOn PROVE Inv(L)'
<1>1. stack # <<>> /\ Top.k = "block"
  BY DEF BlockGoesOn, TopIs
<1>2. Top \in Activation(L, Len(fns)) /\ Top.k \in Expected("loop")
  BY <1>1, TopFrame DEF Expected
<1> QED
  BY <1>1, <1>2, Cursor, ContinueKeeps DEF BlockGoesOn

LEMMA BlockLeftKeeps == ASSUME NEW L, Inv(L), BlockLeft PROVE Inv(L)'
<1>1. stack # <<>> /\ Top.k = "block"
  BY DEF BlockLeft, TopIs
<1>2. ScopesKept(L, Rest)
  BY <1>1, Cursor, TopFrame, ScopesStay DEF BlockLeft
<1>3. SkipBlock(current) \in 0..L
  BY Cursor, Positions
<1> QED
  BY <1>1, <1>2, <1>3, Cursor, EndFrameKeeps DEF BlockLeft

-----------------------------------------------------------------------------
(* exec_stmt. *)

LEMMA AtStatement ==
    ASSUME NEW L, Inv(L), at = "stmt"
    PROVE  /\ stack # <<>> /\ Top.k \in {"top", "block"} /\ Top.rv \in BOOLEAN
           /\ Here \in 0..L
           /\ Type(Here) # "EOF" =>
                 /\ Here + 1 \in 0..L
                 /\ Type(Here + 1) # "EOF" =>
                       /\ Here + 2 \in 0..L
                       /\ Type(Here + 2) # "EOF" => Here + 3 \in 0..L
<1>1. stack # <<>> /\ Here \in 0..L /\ L \in Nat
  BY Cursor
<1>2. Top \in Activation(L, Len(fns)) /\ Top.k \in {"top", "block"}
  BY <1>1, TopFrame DEF Expected
<1>3. Top.rv \in BOOLEAN
  BY <1>2, Frames DEF BodyFrames
<1>4. \A p \in 0..L : Type(p) # "EOF" => p + 1 \in 0..L
  BY Cursor, BeforeEnd
<1>5. (Here + 1) + 1 = Here + 2 /\ (Here + 2) + 1 = Here + 3
  BY <1>1
<1>6. Type(Here) # "EOF" => Here + 1 \in 0..L
  BY <1>1, <1>4
<1>7. Here + 1 \in 0..L /\ Type(Here + 1) # "EOF" => Here + 2 \in 0..L
  BY <1>4, <1>5
<1>8. Here + 2 \in 0..L /\ Type(Here + 2) # "EOF" => Here + 3 \in 0..L
  BY <1>4, <1>5
<1> QED
  BY <1>1, <1>2, <1>3, <1>6, <1>7, <1>8

\* A statement calls eval_expr.
LEMMA StatementEvaluates ==
    ASSUME NEW L, Inv(L), at = "stmt", NEW p \in 0..L,
           NEW f \in Activation(L, Len(fns)), f.k \in StatementKinds \ {"elifs", "else"},
           Evaluate(p, f, stack), UNCHANGED <<scopeVars, hadError>>
    PROVE  Inv(L)'
<1>1. stack # <<>> /\ Top.k \in {"top", "block"}
  BY AtStatement
<1>2. Over(f, Head(stack)) /\ f.k \in ValueKinds \ {"ops"}
  BY <1>1 DEF Over, StatementKinds, ValueKinds, Top
<1>3. ScopesKept(L, stack)
  BY Cursor, ScopesStay
<1> QED
  BY <1>1, <1>2, <1>3, EvaluateKeeps

LEMMA PlainStatementKeeps ==
    ASSUME NEW L, Inv(L),
           \/ StatementAtEnd \/ FnWithoutName \/ FnWithoutParameters \/ Break \/ ContinueLoop
    PROVE  Inv(L)'
<1>1. at = "stmt"
  BY DEF StatementAtEnd, FnWithoutName, FnWithoutParameters, Break, ContinueLoop, Statement
<1>2. CASE StatementAtEnd
  BY <1>1, <1>2, AtStatement, DoneKeeps DEF StatementAtEnd, Flow
<1>3. CASE FnWithoutName
  BY <1>1, <1>3, AtStatement, FailKeeps DEF FnWithoutName, Statement
<1>4. CASE FnWithoutParameters
  BY <1>1, <1>4, AtStatement, FailKeeps DEF FnWithoutParameters, Statement
<1>5. CASE Break
  BY <1>1, <1>5, AtStatement, DoneKeeps DEF Break, Statement, Flow
<1>6. CASE ContinueLoop
  BY <1>1, <1>6, AtStatement, DoneKeeps DEF ContinueLoop, Statement, Flow
<1> QED
  BY <1>2, <1>3, <1>4, <1>5, <1>6

LEMMA ReturnKeeps == ASSUME NEW L, Inv(L), Return PROVE Inv(L)'
<1>1. at = "stmt" /\ Type(Here) # "EOF"
  BY DEF Return, Statement
<1>2. Here + 1 \in 0..L /\ stack # <<>> /\ Top.k \in {"top", "block"}
  BY <1>1, AtStatement
<1> DEFINE f == [k |-> "return"]
<1>3. f \in Activation(L, Len(fns)) /\ f.k = "return"
  BY NewFrames DEF PlainFrames
<1>4. \/ Evaluate(Here + 1, f, stack) /\ UNCHANGED <<scopeVars, hadError>>
      \/ Done(Here + 1, "RETURN")
  BY DEF Return
<1> HIDE DEF f
<1>5. CASE Done(Here + 1, "RETURN")
  BY <1>2, <1>5, DoneKeeps DEF Flow
<1>6. CASE Evaluate(Here + 1, f, stack) /\ UNCHANGED <<scopeVars, hadError>>
  BY <1>1, <1>2, <1>3, <1>6, StatementEvaluates DEF StatementKinds
<1> QED
  BY <1>4, <1>5, <1>6

LEMMA PrintListKeeps == ASSUME NEW L, Inv(L), PrintList PROVE Inv(L)'
<1> DEFINE paren == Type(Here + 1) = "LPAREN"
           p == SkipNewlines(IF paren THEN Here + 2 ELSE Here + 1)
           f == [k |-> "print", paren |-> paren]
<1>1. at = "stmt" /\ Type(Here) # "EOF"
  BY DEF PrintList, Statement
<1>2. stack # <<>> /\ Top.k \in {"top", "block"}
  BY <1>1, AtStatement
<1>3. (IF paren THEN Here + 2 ELSE Here + 1) \in 0..L
  BY <1>1, AtStatement
<1>4. p \in 0..L /\ (Type(p) = "RPAREN" => p + 1 \in 0..L)
  BY <1>3, Cursor, Positions
<1>5. f \in Activation(L, Len(fns)) /\ f.k = "print"
  BY NewFrames DEF PrintFrames
<1>6. \/ Type(p) = "RPAREN" /\ Done(p + 1, "NORMAL")
      \/ Evaluate(p, f, stack) /\ UNCHANGED <<scopeVars, hadError>>
  BY DEF PrintList
<1> HIDE DEF f, p
<1>7. CASE Type(p) = "RPAREN" /\ Done(p + 1, "NORMAL")
  BY <1>2, <1>4, <1>7, DoneKeeps DEF Flow
<1>8. CASE Evaluate(p, f, stack) /\ UNCHANGED <<scopeVars, hadError>>
  BY <1>1, <1>4, <1>5, <1>8, StatementEvaluates DEF StatementKinds
<1> QED
  BY <1>6, <1>7, <1>8

LEMMA CardKeeps ==
    ASSUME NEW L, Inv(L), NEW t \in TokenType \ {"EOF"}, NEW more \in Nat, Card(t, more)
    PROVE  Inv(L)'
<1> DEFINE paren == Type(Here + 1) = "LPAREN"
           p == IF paren THEN Here + 2 ELSE Here + 1
           f == [k |-> "card", paren |-> paren, more |-> more]
<1>1. at = "stmt" /\ Type(Here) # "EOF"
  BY DEF Card, Statement
<1>2. p \in 0..L
  BY <1>1, AtStatement
<1>3. f \in Activation(L, Len(fns)) /\ f.k = "card"
  BY NewFrames DEF CardFrames
<1>4. Evaluate(p, f, stack) /\ UNCHANGED <<scopeVars, hadError>>
  BY DEF Card
<1> HIDE DEF f, p
<1> QED
  BY <1>1, <1>2, <1>3, <1>4, StatementEvaluates DEF StatementKinds

LEMMA LetKeeps == ASSUME NEW L, Inv(L), Let PROVE Inv(L)'
<1> DEFINE f == [k |-> "assign", name |-> Token(Here + 1)]
<1>1. at = "stmt" /\ Type(Here) # "EOF"
  BY DEF Let, Statement
<1>2. stack # <<>> /\ Top.k \in {"top", "block"} /\ Here + 1 \in 0..L
  BY <1>1, AtStatement
<1>3. CASE Fail(Here + 1)
  BY <1>2, <1>3, FailKeeps
<1>4. CASE Type(Here + 1) = "IDENT" /\ Fail(Here + 2)
  BY <1>1, <1>2, <1>4, AtStatement, FailKeeps
<1>5. CASE /\ Type(Here + 1) = "IDENT" /\ Type(Here + 2) = "ASSIGN"
           /\ Evaluate(Here + 3, f, stack) /\ UNCHANGED <<scopeVars, hadError>>
  <2>1. Here + 3 \in 0..L
    BY <1>1, <1>5, AtStatement
  <2>2. Token(Here + 1) \in Names
    BY <1>2, <1>5, Cursor, TokenTypes
  <2>3. f \in Activation(L, Len(fns)) /\ f.k = "assign"
    BY <2>2, NewFrames DEF AssignFrames
  <2> HIDE DEF f
  <2> QED
    BY <1>1, <1>5, <2>1, <2>3, StatementEvaluates DEF StatementKinds
<1> QED
  BY <1>3, <1>4, <1>5 DEF Let

LEMMA AssignKeeps == ASSUME NEW L, Inv(L), Assign PROVE Inv(L)'
<1> DEFINE f == [k |-> "assign", name |-> Token(Here)]
<1>1. at = "stmt" /\ Type(Here) = "IDENT" /\ Type(Here + 1) = "ASSIGN"
  BY DEF Assign, Statement
<1>2. Here + 2 \in 0..L
  BY <1>1, AtStatement
<1>3. Token(Here) \in Names
  BY <1>1, Cursor, TokenTypes
<1>4. f \in Activation(L, Len(fns)) /\ f.k = "assign"
  BY <1>3, NewFrames DEF AssignFrames
<1>5. Evaluate(Here + 2, f, stack) /\ UNCHANGED <<scopeVars, hadError>>
  BY DEF Assign
<1> HIDE DEF f
<1> QED
  BY <1>1, <1>2, <1>4, <1>5, StatementEvaluates DEF StatementKinds

LEMMA IfKeeps == ASSUME NEW L, Inv(L), If PROVE Inv(L)'
<1> DEFINE f == [k |-> "if", rv |-> Top.rv]
<1>1. at = "stmt" /\ Type(Here) # "EOF"
  BY DEF If, Statement
<1>2. Here + 1 \in 0..L /\ Top.rv \in BOOLEAN
  BY <1>1, AtStatement
<1>3. f \in Activation(L, Len(fns)) /\ f.k = "if"
  BY <1>2, NewFrames DEF IfFrames
<1>4. Evaluate(Here + 1, f, stack) /\ UNCHANGED <<scopeVars, hadError>>
  BY DEF If
<1> HIDE DEF f
<1> QED
  BY <1>1, <1>2, <1>3, <1>4, StatementEvaluates DEF StatementKinds

LEMMA WhileKeeps == ASSUME NEW L, Inv(L), While PROVE Inv(L)'
<1> DEFINE f == [k |-> "while", cond |-> Here + 1, body |-> 0]
<1>1. at = "stmt" /\ Type(Here) # "EOF"
  BY DEF While, Statement
<1>2. Here + 1 \in 0..L /\ 0 \in 0..L
  BY <1>1, AtStatement, Cursor
<1>3. f \in Activation(L, Len(fns)) /\ f.k = "while"
  BY <1>2, NewFrames DEF WhileFrames
<1>4. Evaluate(Here + 1, f, stack) /\ UNCHANGED <<scopeVars, hadError>>
  BY DEF While
<1> HIDE DEF f
<1> QED
  BY <1>1, <1>2, <1>3, <1>4, StatementEvaluates DEF StatementKinds

LEMMA ForKeeps == ASSUME NEW L, Inv(L), For PROVE Inv(L)'
<1> DEFINE f == [k |-> "for", body |-> 0, name |-> Token(Here + 1)]
<1>1. at = "stmt" /\ Type(Here) # "EOF"
  BY DEF For, Statement
<1>2. stack # <<>> /\ Top.k \in {"top", "block"} /\ Here + 1 \in 0..L /\ 0 \in 0..L
  BY <1>1, AtStatement, Cursor
<1>3. CASE Fail(Here + 1)
  BY <1>2, <1>3, FailKeeps
<1>4. CASE Type(Here + 1) = "IDENT" /\ Fail(Here + 2)
  BY <1>1, <1>2, <1>4, AtStatement, FailKeeps
<1>5. CASE /\ Type(Here + 1) = "IDENT" /\ Type(Here + 2) = "IN"
           /\ Evaluate(Here + 3, f, stack) /\ UNCHANGED <<scopeVars, hadError>>
  <2>1. Here + 3 \in 0..L
    BY <1>1, <1>5, AtStatement
  <2>2. Token(Here + 1) \in Names
    BY <1>2, <1>5, Cursor, TokenTypes
  <2>3. f \in Activation(L, Len(fns)) /\ f.k = "for"
    BY <1>2, <2>2, NewFrames DEF ForFrames
  <2> HIDE DEF f
  <2> QED
    BY <1>1, <1>5, <2>1, <2>3, StatementEvaluates DEF StatementKinds
<1> QED
  BY <1>3, <1>4, <1>5 DEF For

LEMMA ExpressionStatementKeeps == ASSUME NEW L, Inv(L), ExpressionStatement PROVE Inv(L)'
<1> DEFINE f == [k |-> "expression"]
<1>1. at = "stmt" /\ Here \in 0..L
  BY Cursor DEF ExpressionStatement
<1>2. f \in Activation(L, Len(fns)) /\ f.k = "expression"
  BY NewFrames DEF PlainFrames
<1>3. Evaluate(Here, f, stack) /\ UNCHANGED <<scopeVars, hadError>>
  BY DEF ExpressionStatement
<1> HIDE DEF f
<1> QED
  BY <1>1, <1>2, <1>3, StatementEvaluates DEF StatementKinds

LEMMA FnDefinitionKeeps == ASSUME NEW L, Inv(L), FnDefinition PROVE Inv(L)'
<1> DEFINE ps == Parameters(Here + 3)
           brace == SkipNewlines(ps.next + 1)
           start == brace + 1
           end == SkipBlock(start)
           name == Token(Here + 1)
           d == [name |-> name, params |-> Kept(ps.names, MaxParams),
                 start |-> start, line |-> line, end |-> end]
<1>1. /\ at = "stmt" /\ Type(Here) # "EOF" /\ Type(Here + 1) = "IDENT"
      /\ Type(Here + 2) = "LPAREN"
  BY DEF FnDefinition, Statement
<1>2. stack # <<>> /\ Top.k \in {"top", "block"} /\ Here + 1 \in 0..L /\ Here + 3 \in 0..L
  BY <1>1, AtStatement
<1>3. name \in Names
  BY <1>1, <1>2, Cursor, TokenTypes
<1>4. ps \in [names : Seq(Names), next : 0..L]
  BY <1>2, Cursor, ParametersProperties
<1>5. \/ Fail(ps.next)
      \/ Type(ps.next) = "RPAREN" /\ Fail(brace)
      \/ /\ Type(ps.next) = "RPAREN" /\ Type(brace) = "LBRACE"
         /\ current' = end
         /\ at' = "flow" /\ flow' = "NORMAL" /\ val' = "nil"
         /\ \/ /\ Len(fns) < MaxFnDefs
               /\ fns' = Append(fns, d) /\ globals' = With(globals, name, "fn")
            \/ UNCHANGED <<fns, globals>>
         /\ UNCHANGED <<programVars, scopes, stack, hadError>>
  BY DEF FnDefinition
<1> HIDE DEF ps
<1>6. ps.next \in 0..L /\ ps.names \in Seq(Names)
  BY <1>4
<1>7. Type(ps.next) = "RPAREN" => brace \in 0..L
  BY <1>6, Cursor, Positions
<1> HIDE DEF brace
<1>8. Type(ps.next) = "RPAREN" /\ Type(brace) = "LBRACE" => start \in 0..L /\ end \in 0..L
  BY <1>7, Cursor, Positions
<1>9. d.params \in Seq(Names) /\ Len(d.params) <= MaxParams
  <2> DEFINE m == IF Len(ps.names) < MaxParams THEN Len(ps.names) ELSE MaxParams
             e(i) == ps.names[i]
  <2>1. m \in Nat /\ m <= Len(ps.names) /\ m <= MaxParams
    BY <1>6, LimitsAssumption
  <2>2. \A i \in 1..m : i \in 1..Len(ps.names)
    BY <1>6, <2>1
  <2>3. \A i \in 1..m : ps.names[i] \in Names
    BY <1>6, <2>2, ElementOfSeq
  <2>4. d.params = [i \in 1..m |-> ps.names[i]]
    BY DEF Kept
  <2> HIDE DEF m, d
  <2>5. d.params \in Seq(Names) /\ Len(d.params) = m
    BY <2>1, <2>3, <2>4, IsASeq
  <2> QED
    BY <2>1, <2>5
<1>10. line \in Nat
  BY SessionProperties DEF Inv, ProgramOK
<1> DEFINE P == Type(ps.next) = "RPAREN" /\ Type(brace) = "LBRACE"
<1>11. P => d \in FnDef(L)
  BY <1>3, <1>8, <1>9, <1>10 DEF FnDef
<1> HIDE DEF d, start, end
<1>12. CASE Fail(ps.next)
  BY <1>2, <1>6, <1>12, FailKeeps
<1>13. CASE Type(ps.next) = "RPAREN" /\ Fail(brace)
  BY <1>2, <1>7, <1>13, FailKeeps
<1>14. CASE /\ P /\ current' = end
            /\ at' = "flow" /\ flow' = "NORMAL" /\ val' = "nil"
            /\ \/ /\ Len(fns) < MaxFnDefs
                  /\ fns' = Append(fns, d) /\ globals' = With(globals, name, "fn")
               \/ UNCHANGED <<fns, globals>>
            /\ UNCHANGED <<programVars, scopes, stack, hadError>>
  <2>1. FunctionsOK(L)' /\ Len(fns') \in Nat /\ Len(fns) <= Len(fns')
    <3> DEFINE F == FnDef(L)
    <3>1. fns \in Seq(F) /\ Len(fns) \in Nat /\ Len(fns) <= MaxFnDefs /\ d \in F
      BY <1>11, <1>14, Cursor DEF Inv, FunctionsOK
    <3> HIDE DEF F
    <3>2. \/ fns' = fns
          \/ Len(fns) < MaxFnDefs /\ fns' = Append(fns, d)
      BY <1>14
    <3>3. fns' \in Seq(F) /\ Len(fns') \in Nat /\ Len(fns) <= Len(fns') /\ Len(fns') <= MaxFnDefs
      BY <3>1, <3>2, LimitsAssumption
    <3> QED
      BY <3>3 DEF FunctionsOK, F
  <2>2. ScopesOK'
    BY <1>3, <1>14, WithProperties DEF Inv, ScopesOK, Value
  <2>3. StackOK(stack', L, Len(fns'), Len(scopes'))
    BY <1>14, <2>1, Cursor, StackGrows
  <2>4. TopOK(at', stack')
    BY <1>2, <1>14 DEF TopOK, Top, Expected, FlowKinds
  <2>5. current' \in 0..L
    BY <1>8, <1>14
  <2>6. ArrayOK(L)' /\ ProgramOK'
    BY <1>14 DEF Inv, ArrayOK, ProgramOK, programVars, Lines
  <2> QED
    BY <1>14, <2>1, <2>2, <2>3, <2>4, <2>5, <2>6 DEF Inv, Value, Flow
<1> QED
  BY <1>5, <1>12, <1>13, <1>14

-----------------------------------------------------------------------------
(* Expressions. *)

LEMMA BelowTop ==
    ASSUME NEW L, Inv(L), stack # <<>>, Top.k \notin {"top", "call"}
    PROVE  /\ Top \in Activation(L, Len(fns))
           /\ Rest # <<>> /\ Over(Top, Head(Rest)) /\ StackOK(Rest, L, Len(fns), Len(scopes))
  BY TopFrame

\* The expression on top ends: the frame below gets its value.
LEMMA RestYields ==
    ASSUME NEW L, Inv(L), stack # <<>>, Top.k \in {"ops", "group", "args"},
           NEW p \in 0..L, NEW v \in Value, Yield(p, Rest, v),
           UNCHANGED scopeVars, hadError' \in BOOLEAN
    PROVE  Inv(L)'
<1>1. Rest # <<>> /\ Over(Top, Head(Rest)) /\ StackOK(Rest, L, Len(fns), Len(scopes))
  BY BelowTop
<1>2. Head(Rest).k \in ValueKinds
  BY <1>1 DEF Over, ValueKinds
<1>3. ScopesKept(L, Rest)
  BY <1>1, ScopesStay
<1> QED
  BY <1>1, <1>2, <1>3, YieldKeeps

\* The frame on top, as f, calls eval_expr again.
LEMMA RestEvaluates ==
    ASSUME NEW L, Inv(L), stack # <<>>, Top.k \notin {"top", "call"},
           NEW p \in 0..L, NEW f \in Activation(L, Len(fns)), f.k \in ValueKinds \ {"ops"},
           \A g : Over(Top, g) => Over(f, g), Evaluate(p, f, Rest),
           UNCHANGED <<scopeVars, hadError>>
    PROVE  Inv(L)'
<1>1. Rest # <<>> /\ Over(Top, Head(Rest)) /\ StackOK(Rest, L, Len(fns), Len(scopes))
  BY BelowTop
<1>2. ScopesKept(L, Rest)
  BY <1>1, Cursor, ScopesStay
<1> QED
  BY <1>1, <1>2, EvaluateKeeps

\* The operand at the cursor has a value.
LEMMA OperandYields ==
    ASSUME NEW L, Inv(L), Operand, NEW p \in 0..L, NEW v \in Value, Yield(p, stack, v),
           UNCHANGED scopeVars, hadError' \in BOOLEAN
    PROVE  Inv(L)'
<1>1. stack # <<>> /\ Top.k = "ops"
  BY Cursor, TopFrame DEF Operand, Expected
<1>2. ScopesKept(L, stack)
  BY Cursor, ScopesStay
<1> QED
  BY <1>1, <1>2, YieldKeeps DEF Top, ValueKinds

LEMMA LiteralOperandKeeps == ASSUME NEW L, Inv(L), LiteralOperand PROVE Inv(L)'
<1>1. PICK v \in Literal : Yield(Here + 1, stack, v)
  BY DEF LiteralOperand
<1>2. v \in Value
  BY DEF Literal, Value
<1>3. Here + 1 \in 0..L
  BY Cursor, BeforeEnd DEF LiteralOperand
<1> QED
  BY <1>1, <1>2, <1>3, Cursor, OperandYields DEF LiteralOperand

LEMMA GroupKeeps == ASSUME NEW L, Inv(L), Group PROVE Inv(L)'
<1> DEFINE f == [k |-> "group"]
<1>1. stack # <<>> /\ Top.k = "ops"
  BY Cursor, TopFrame DEF Group, Operand, Expected
<1>2. f \in Activation(L, Len(fns)) /\ f.k = "group"
  BY NewFrames DEF PlainFrames
<1>3. Evaluate(Here + 1, f, stack) /\ UNCHANGED <<scopeVars, hadError>>
  BY DEF Group
<1> HIDE DEF f
<1>4. Over(f, Head(stack)) /\ f.k \in ValueKinds \ {"ops"}
  BY <1>1, <1>2 DEF Over, ValueKinds, StatementKinds, Top
<1>5. ScopesKept(L, stack)
  BY <1>3, Cursor, ScopesStay
<1>6. Here + 1 \in 0..L
  BY Cursor, BeforeEnd DEF Group
<1> QED
  BY <1>1, <1>2, <1>3, <1>4, <1>5, <1>6, EvaluateKeeps

LEMMA DefinedValue ==
    ASSUME ScopesOK, NEW x, Defined(x)
    PROVE  ScopeGet(x) \in Value
<1>1. \A s \in Scope : x \in DOMAIN s => s[x] \in Value
  BY DEF Scope
<1>2. InFunction => Head(scopes) \in Scope
  BY HeadTailProperties DEF InFunction, ScopesOK
<1> QED
  BY <1>1, <1>2 DEF ScopesOK, Defined, ScopeGet

LEMMA VariableKeeps == ASSUME NEW L, Inv(L), Variable PROVE Inv(L)'
<1> DEFINE x == Token(Here)
           v == IF Defined(x) THEN ScopeGet(x) ELSE "nil"
<1>1. v \in Value
  BY DefinedValue DEF Inv, Value
<1>2. /\ Operand /\ Yield(Here + 1, stack, v) /\ UNCHANGED scopeVars
      /\ hadError' = (hadError \/ ~Defined(x))
  BY DEF Variable
<1> HIDE DEF v, x
<1>3. Here + 1 \in 0..L
  BY Cursor, BeforeEnd DEF Variable
<1>4. hadError' \in BOOLEAN
  BY <1>2
<1> QED
  BY <1>1, <1>2, <1>3, <1>4, OperandYields

LEMMA BadOperandKeeps == ASSUME NEW L, Inv(L), BadOperand PROVE Inv(L)'
<1> DEFINE p == IF Type(Here) = "EOF" THEN Here ELSE Here + 1
<1>1. p \in 0..L
  BY Cursor, BeforeEnd
<1>2. Operand /\ Yield(p, stack, "nil") /\ UNCHANGED scopeVars /\ hadError' = TRUE
  BY DEF BadOperand
<1> HIDE DEF p
<1> QED
  BY <1>1, <1>2, OperandYields DEF Value

LEMMA OperatorKeeps == ASSUME NEW L, Inv(L), Operator PROVE Inv(L)'
<1> DEFINE f == [Top EXCEPT !.used = TRUE]
<1>1. stack # <<>> /\ Top.k = "ops" /\ UNCHANGED <<scopeVars, hadError>>
  BY DEF Operator, TopIs
<1>2. Top \in OpsFrames
  BY <1>1, BelowTop, Frames
<1>3. f \in Activation(L, Len(fns)) /\ f.k = "ops"
  <2>1. f \in OpsFrames /\ f.k = "ops"
    BY <1>1, <1>2 DEF OpsFrames
  <2> HIDE DEF f
  <2> QED
    BY <2>1, NewFrames
<1>4. \A g : Over(Top, g) => Over(f, g)
  BY <1>1, <1>3 DEF Over
<1>5. CASE Type(current) = "OP"
  <2>1. Continue(current + 1, f, "primary")
    BY <1>3, <1>5 DEF Operator
  <2>2. current + 1 \in 0..L
    BY <1>5, Cursor, BeforeEnd
  <2>3. f.k \in Expected("primary")
    BY <1>3 DEF Expected
  <2> HIDE DEF f
  <2> QED
    BY <1>1, <1>3, <1>4, <2>1, <2>2, <2>3, ContinueKeeps
<1>6. CASE Type(current) # "OP"
  <2>1. PICK v \in IF Top.used THEN Literal ELSE {val} : Yield(current, Rest, v)
    BY <1>6 DEF Operator
  <2>2. v \in Value
    BY Cursor DEF Literal, Value
  <2> QED
    BY <1>1, <2>1, <2>2, Cursor, RestYields
<1> QED
  BY <1>5, <1>6

LEMMA GroupEndKeeps == ASSUME NEW L, Inv(L), GroupEnd PROVE Inv(L)'
<1>1. stack # <<>> /\ Top.k = "group"
  BY DEF GroupEnd, TopIs
<1>2. Closed(current) \in 0..L
  BY Cursor, Positions
<1>3. hadError' \in BOOLEAN
  BY DEF GroupEnd
<1> QED
  BY <1>1, <1>2, <1>3, Cursor, RestYields DEF GroupEnd

LEMMA CallBeginKeeps == ASSUME NEW L, Inv(L), CallBegin PROVE Inv(L)'
<1> DEFINE p == SkipNewlines(Here + 2)
           f == [k |-> "args", name |-> Token(Here), args |-> <<>>]
<1>1. Operand /\ Type(Here) = "IDENT" /\ Type(Here + 1) = "LPAREN"
  BY DEF CallBegin
<1>2. stack # <<>> /\ Top.k = "ops"
  BY <1>1, Cursor, TopFrame DEF Operand, Expected
<1>3. p \in 0..L
  <2>1. Here \in 0..L /\ Here + 1 \in 0..L /\ L \in Nat
    BY <1>1, Cursor, BeforeEnd
  <2>2. (Here + 1) + 1 \in 0..L
    BY <1>1, <2>1, Cursor, BeforeEnd
  <2>3. Here + 2 \in 0..L
    BY <2>1, <2>2
  <2> QED
    BY <2>3, Cursor, Positions
<1>4. f \in Activation(L, Len(fns)) /\ f.k = "args"
  <2>1. Token(Here) \in Names
    BY <1>1, Cursor, TokenTypes
  <2>2. <<>> \in Seq(Value)
    OBVIOUS
  <2> QED
    BY <2>1, <2>2, NewFrames DEF ArgsFrames
<1>5. /\ UNCHANGED <<scopeVars, hadError>>
      /\ \/ /\ current' = p /\ stack' = <<f>> \o stack /\ at' = "call"
            /\ UNCHANGED <<programVars, fns, val, flow>>
         \/ Evaluate(p, f, stack)
  BY DEF CallBegin
<1> HIDE DEF p, f
<1>6. Over(f, Head(stack)) /\ f.k \in ValueKinds \ {"ops"}
  BY <1>2, <1>4 DEF Over, ValueKinds, StatementKinds, Top
<1>7. StackOK(stack, L, Len(fns), Len(scopes)) /\ hadError' \in BOOLEAN
  BY <1>5, Cursor
<1>8. CASE Evaluate(p, f, stack)
  <2>1. ScopesKept(L, stack)
    BY <1>5, <1>7, ScopesStay
  <2> QED
    BY <1>2, <1>3, <1>4, <1>6, <1>8, <2>1, EvaluateKeeps
<1>9. CASE /\ current' = p /\ stack' = <<f>> \o stack /\ at' = "call"
           /\ UNCHANGED <<programVars, fns, val, flow>>
  <2>1. StackOK(stack', L, Len(fns), Len(scopes)) /\ stack' # <<>> /\ Head(stack') = f
    <3> DEFINE c == Len(scopes)
    <3>1. StackOK(stack, L, Len(fns), c)
      BY <1>7
    <3> HIDE DEF c
    <3>2. StackOK(<<f>> \o stack, L, Len(fns), IF f.k = "call" THEN c + 1 ELSE c)
      BY <1>2, <1>4, <1>6, <3>1, Pushed
    <3>3. <<f>> \o stack # <<>> /\ Head(<<f>> \o stack) = f
      BY <1>2, <1>4, <1>6, <3>1, Pushed
    <3> QED
      BY <1>4, <1>9, <3>2, <3>3 DEF c
  <2>2. TopOK(at', stack')
    BY <1>4, <1>9, <2>1 DEF TopOK, Expected
  <2>3. ScopesKept(L, stack')
    BY <1>5, <1>7, <2>1, ScopesStay
  <2> QED
    BY <1>3, <1>9, <2>2, <2>3, Cursor, Preserved
<1> QED
  BY <1>5, <1>8, <1>9

LEMMA ArgumentKeeps == ASSUME NEW L, Inv(L), Argument PROVE Inv(L)'
<1> DEFINE f == [k |-> "args", name |-> Top.name, args |-> Append(Top.args, val)]
           types == TokenType \ {"COMMA", "NEWLINE"}
<1>1. stack # <<>> /\ Top.k = "args" /\ UNCHANGED <<scopeVars, hadError>>
  BY DEF Argument, TopIs
<1>2. Top \in ArgsFrames
  BY <1>1, BelowTop, Frames
<1>3. f = [Top EXCEPT !.args = Append(@, val)] /\ f \in ArgsFrames
  <2>1. Append(Top.args, val) \in Seq(Value)
    BY <1>2, Cursor DEF ArgsFrames
  <2>2. f \in ArgsFrames
    BY <1>2, <2>1 DEF ArgsFrames
  <2>3. f = [Top EXCEPT !.args = Append(@, val)]
    <3>1. PICK n, a : Top = [k |-> "args", name |-> n, args |-> a]
      BY <1>2 DEF ArgsFrames
    <3>2. \A t : t = [k |-> "args", name |-> n, args |-> a] =>
              [t EXCEPT !.args = Append(@, val)] = [k |-> "args", name |-> n, args |-> Append(a, val)]
      OBVIOUS
    <3>3. Top.name = n /\ Top.args = a
      BY <3>1
    <3> QED
      BY <3>1, <3>2, <3>3
  <2> QED
    BY <2>2, <2>3
<1>4. f \in Activation(L, Len(fns)) /\ f.k = "args"
  BY <1>3, NewFrames
<1>5. \/ Type(Here) = "COMMA" /\ Evaluate(SkipNewlines(Here + 1), f, Rest)
      \/ Continue(Nearest(Here, types), f, "call")
  BY <1>3 DEF Argument
<1> HIDE DEF f
<1>6. \A g : Over(Top, g) => Over(f, g)
  BY <1>1, <1>4 DEF Over, StatementKinds
<1>7. CASE Type(Here) = "COMMA" /\ Evaluate(SkipNewlines(Here + 1), f, Rest)
  <2>1. SkipNewlines(Here + 1) \in 0..L
    BY <1>7, Cursor, Positions
  <2>2. f.k \in ValueKinds \ {"ops"}
    BY <1>4 DEF ValueKinds
  <2> QED
    BY <1>1, <1>4, <1>6, <1>7, <2>1, <2>2, RestEvaluates
<1>8. CASE Continue(Nearest(Here, types), f, "call")
  <2>1. "EOF" \in types
    BY DEF TokenType
  <2> HIDE DEF types
  <2>2. Nearest(Here, types) \in 0..L
    BY <2>1, Cursor, Positions
  <2>3. f.k \in Expected("call")
    BY <1>4 DEF Expected
  <2> QED
    BY <1>1, <1>4, <1>6, <1>8, <2>2, <2>3, ContinueKeeps
<1> QED
  BY <1>5, <1>7, <1>8

\* The function that is called is the first of its name.
LEMMA CalleeProperties ==
    ASSUME NEW L, Inv(L), NEW x, IsFunction(x)
    PROVE  Callee(x) \in 1..Len(fns) /\ fns[Callee(x)] \in FnDef(L)
<1> DEFINE F == FnDef(L)
           First(i) == fns[i].name = x /\ \A j \in DOMAIN fns : fns[j].name = x => i <= j
           P == {i \in DOMAIN fns : fns[i].name = x}
<1>1. fns \in Seq(F)
  BY Cursor
<1> HIDE DEF F
<1>2. DOMAIN fns = 1..Len(fns) /\ Len(fns) \in Nat
  BY <1>1, LenProperties
<1>3. P \in SUBSET Nat /\ P # {}
  BY <1>2 DEF IsFunction
<1>4. \E i \in P : \A j \in P : i <= j
  <2> HIDE DEF P
  <2> QED
    BY <1>3, LeastElement
<1>5. \E i \in DOMAIN fns : First(i)
  BY <1>4
<1>6. Callee(x) = CHOOSE i \in DOMAIN fns : First(i)
  BY DEF Callee
<1>7. Callee(x) \in DOMAIN fns
  BY <1>5, <1>6
<1> QED
  BY <1>1, <1>2, <1>7, ElementOfSeq DEF F

LEMMA CallKeeps == ASSUME NEW L, Inv(L), Call PROVE Inv(L)'
<1> DEFINE i == Callee(Top.name)
           f == [k |-> "call", back |-> Closed(current), fn |-> i]
           s == Frame(fns[i].params, Top.args)
<1>1. stack # <<>> /\ Top.k = "args" /\ IsFunction(Top.name)
  BY DEF Call, TopIs
<1>2. /\ Execute(fns[i].start, f, Rest, TRUE) /\ scopes' = <<s>> \o scopes
      /\ hadError' \in BOOLEAN /\ globals' = globals
  BY DEF Call
<1>3. Top \in ArgsFrames /\ Rest # <<>> /\ Over(Top, Head(Rest))
  BY <1>1, BelowTop, Frames
<1>4. i \in 1..Len(fns) /\ fns[i] \in FnDef(L)
  BY <1>1, CalleeProperties
<1> HIDE DEF i
<1>5. s \in Scope
  <2>1. fns[i].params \in Seq(Names) /\ Top.args \in Seq(Value)
    BY <1>3, <1>4 DEF FnDef, ArgsFrames
  <2> QED
    BY <2>1, FrameInScope
<1>6. f \in Activation(L, Len(fns)) /\ f.k = "call"
  <2>1. Closed(current) \in 0..L
    BY Cursor, Positions
  <2> QED
    BY <1>4, <2>1, NewFrames DEF CallFrames
<1> HIDE DEF f, s
<1>7. Over(f, Head(Rest)) /\ f.k \in FlowKinds \ {"top", "block"}
  BY <1>1, <1>3, <1>6 DEF Over, FlowKinds, StatementKinds
<1> DEFINE c == Len(scopes)
<1>8. globals' \in Scope /\ scopes' \in Seq(Scope) /\ Len(scopes') = c + 1
  BY <1>2, <1>5 DEF Inv, ScopesOK
<1>9. StackOK(Rest, L, Len(fns), c)
  BY <1>1, BelowTop
<1> HIDE DEF c
<1>10. fns[i].start \in 0..L
  BY <1>4 DEF FnDef
<1>11. /\ Len(scopes') = (IF f.k = "call" THEN c + 1 ELSE c)
       /\ f.k = "elifs" => f.taken /\ f.flow = "NORMAL"
  BY <1>6, <1>8
<1> QED
  BY <1>2, <1>3, <1>6, <1>7, <1>8, <1>9, <1>10, <1>11, ExecuteKeeps

LEMMA StackOverflowKeeps == ASSUME NEW L, Inv(L), StackOverflow PROVE Inv(L)'
<1>1. TopOK(at', stack')
  BY DEF StackOverflow, TopIs, TopOK, Expected, Top
<1>2. ScopesKept(L, stack')
  BY Cursor, ScopesStay DEF StackOverflow
<1> QED
  BY <1>1, <1>2, Cursor, Preserved DEF StackOverflow

LEMMA UnknownFunctionKeeps == ASSUME NEW L, Inv(L), UnknownFunction PROVE Inv(L)'
<1>1. stack # <<>> /\ Top.k = "args"
  BY DEF UnknownFunction, TopIs
<1>2. Closed(current) \in 0..L
  BY Cursor, Positions
<1> QED
  BY <1>1, <1>2, RestYields DEF UnknownFunction, Value

LEMMA CallEndKeeps == ASSUME NEW L, Inv(L), CallEnd PROVE Inv(L)'
<1> DEFINE v == IF flow = "RETURN" THEN val ELSE "nil"
<1>1. stack # <<>> /\ Top.k = "call"
  BY DEF CallEnd, TopIs
<1>2. /\ Top \in CallFrames(L, Len(fns)) /\ Rest # <<>> /\ Over(Top, Head(Rest))
      /\ StackOK(Rest, L, Len(fns), Len(scopes) - 1) /\ Len(scopes) # 0
  BY <1>1, TopFrame, Frames
<1>3. Yield(Top.back, Rest, v) /\ scopes' = Tail(scopes) /\ UNCHANGED <<globals, hadError>>
  BY DEF CallEnd
<1>4. v \in Value
  BY Cursor DEF Value
<1> HIDE DEF v
<1>5. scopes' \in Seq(Scope) /\ Len(scopes') = Len(scopes) - 1
  <2>1. scopes \in Seq(Scope) /\ scopes # <<>>
    BY <1>2, EmptySeq DEF Inv, ScopesOK
  <2> QED
    BY <1>3, <2>1, HeadTailProperties
<1>6. ScopesKept(L, Rest)
  BY <1>2, <1>3, <1>5, Cursor DEF ScopesKept, Inv, ScopesOK
<1>7. Head(Rest).k \in ValueKinds /\ Top.back \in 0..L
  BY <1>1, <1>2 DEF Over, ValueKinds, CallFrames
<1> QED
  BY <1>2, <1>3, <1>4, <1>6, <1>7, YieldKeeps

-----------------------------------------------------------------------------
(* exec_stmt, once its expression has a value or its block has ended. *)

LEMMA BothStatements ==
    ASSUME NEW f, NEW h, f.k \in StatementKinds, h.k \in StatementKinds
    PROVE  \A g : Over(h, g) => Over(f, g)
  BY DEF Over, StatementKinds

\* The statement ends.
LEMMA RestEnds ==
    ASSUME NEW L, Inv(L), stack # <<>>, Top.k \in StatementKinds,
           NEW p \in 0..L, NEW f \in Flow, NEW v \in Value, EndFrame(p, f, v),
           UNCHANGED scopeVars, hadError' \in BOOLEAN
    PROVE  Inv(L)'
<1>1. StackOK(Rest, L, Len(fns), Len(scopes))
  BY BelowTop DEF StatementKinds
<1>2. ScopesKept(L, Rest)
  BY <1>1, ScopesStay
<1> QED
  BY <1>2, EndFrameKeeps

\* The statement, as f, executes a block.
LEMMA RestExecutes ==
    ASSUME NEW L, Inv(L), stack # <<>>, Top.k \in StatementKinds,
           NEW p \in 0..L, NEW b \in BOOLEAN, NEW f \in Activation(L, Len(fns)),
           f.k \in {"elifs", "else", "while", "for"},
           f.k = "elifs" => f.taken /\ f.flow = "NORMAL", Execute(p, f, Rest, b),
           globals' \in Scope, scopes' \in Seq(Scope), Len(scopes') = Len(scopes),
           hadError' \in BOOLEAN
    PROVE  Inv(L)'
<1>1. /\ Rest # <<>> /\ Over(Top, Head(Rest))
      /\ StackOK(Rest, L, Len(fns), Len(scopes))
  BY BelowTop DEF StatementKinds
<1>2. f.k \in StatementKinds /\ f.k \in FlowKinds \ {"top", "block"} /\ f.k # "call"
  BY DEF StatementKinds, FlowKinds
<1>3. Over(f, Head(Rest))
  BY <1>1, <1>2, BothStatements
<1> DEFINE c == Len(scopes)
<1>4. StackOK(Rest, L, Len(fns), c) /\ Len(scopes') = (IF f.k = "call" THEN c + 1 ELSE c)
  BY <1>1, <1>2
<1> HIDE DEF c
<1> QED
  BY <1>1, <1>2, <1>3, <1>4, ExecuteKeeps

\* The same while the variables stay.
LEMMA RestExecutesOnly ==
    ASSUME NEW L, Inv(L), stack # <<>>, Top.k \in StatementKinds,
           NEW p \in 0..L, NEW b \in BOOLEAN, NEW f \in Activation(L, Len(fns)),
           f.k \in {"elifs", "else", "while", "for"},
           f.k = "elifs" => f.taken /\ f.flow = "NORMAL", Execute(p, f, Rest, b),
           UNCHANGED scopeVars, hadError' \in BOOLEAN
    PROVE  Inv(L)'
<1>1. globals' \in Scope /\ scopes' \in Seq(Scope) /\ Len(scopes') = Len(scopes)
  BY DEF Inv, ScopesOK, scopeVars
<1> QED
  BY <1>1, RestExecutes

\* A condition or list that has its block, and what is behind the brace.
LEMMA BehindBrace ==
    ASSUME NEW L, Inv(L)
    PROVE  Brace => /\ Here + 1 \in 0..L /\ SkipBlock(Here + 1) \in 0..L
  BY Cursor, Positions DEF Brace

LEMMA ValueDoneKeeps ==
    ASSUME NEW L, Inv(L), ReturnValue \/ ExpressionDone \/ NoBlock \/ ElseDone
    PROVE  Inv(L)'
<1>1. CASE ReturnValue
  <2>1. stack # <<>> /\ Top.k \in StatementKinds
    BY <1>1 DEF ReturnValue, TopIs, StatementKinds
  <2> QED
    BY <1>1, <2>1, Cursor, RestEnds DEF ReturnValue, Flow
<1>2. CASE ExpressionDone
  <2>1. stack # <<>> /\ Top.k \in StatementKinds
    BY <1>2 DEF ExpressionDone, TopIs, StatementKinds
  <2> QED
    BY <1>2, <2>1, Cursor, RestEnds DEF ExpressionDone, Flow, Value
<1>3. CASE NoBlock
  <2>1. stack # <<>> /\ Top.k \in StatementKinds
    BY <1>3 DEF NoBlock, StatementKinds
  <2> QED
    BY <1>3, <2>1, Cursor, RestEnds DEF NoBlock, Flow, Value
<1>4. CASE ElseDone
  <2>1. stack # <<>> /\ Top.k \in StatementKinds
    BY <1>4 DEF ElseDone, TopIs, StatementKinds
  <2> QED
    BY <1>4, <2>1, Cursor, RestEnds DEF ElseDone
<1> QED
  BY <1>1, <1>2, <1>3, <1>4

LEMMA AssignValueKeeps == ASSUME NEW L, Inv(L), AssignValue PROVE Inv(L)'
<1>1. stack # <<>> /\ Top.k = "assign" /\ Top.k \in StatementKinds
  BY DEF AssignValue, TopIs, StatementKinds
<1>2. Top \in AssignFrames /\ StackOK(Rest, L, Len(fns), Len(scopes))
  BY <1>1, BelowTop, Frames
<1>3. Top.name \in Names /\ val \in Value /\ ScopesOK
  BY <1>2 DEF AssignFrames, Inv
<1>4. globals' \in Scope /\ scopes' \in Seq(Scope) /\ Len(scopes') = Len(scopes)
  BY <1>3, ScopeSetKeeps DEF AssignValue
<1>5. ScopesKept(L, Rest)
  BY <1>2, <1>4, Cursor DEF ScopesKept, AssignValue
<1> QED
  BY <1>1, <1>5, Cursor, EndFrameKeeps DEF AssignValue, Flow, Value

LEMMA PrintItemKeeps == ASSUME NEW L, Inv(L), PrintItem PROVE Inv(L)'
<1> DEFINE p == SkipNewlines(Here + 1)
           closed == IF Top.paren THEN Closed(Here) ELSE Here
<1>1. stack # <<>> /\ Top.k = "print" /\ UNCHANGED <<scopeVars, hadError>>
  BY DEF PrintItem, TopIs
<1>2. \/ EndFrame(closed, "NORMAL", "nil")
      \/ /\ Type(Here) = "COMMA"
         /\ \/ Type(p) = "RPAREN" /\ EndFrame(p + 1, "NORMAL", "nil")
            \/ Evaluate(p, Top, Rest)
  BY DEF PrintItem
<1>3. closed \in 0..L
  BY Cursor, Positions
<1>4. Type(Here) = "COMMA" => p \in 0..L
  BY Cursor, Positions
<1>5. Type(Here) = "COMMA" /\ Type(p) = "RPAREN" => p + 1 \in 0..L
  BY <1>4, Cursor, BeforeEnd
<1> HIDE DEF p, closed
<1>6. Top.k \in StatementKinds
  BY <1>1 DEF StatementKinds
<1>7. CASE EndFrame(closed, "NORMAL", "nil")
  BY <1>1, <1>3, <1>6, <1>7, Cursor, RestEnds DEF Flow, Value
<1>8. CASE Type(Here) = "COMMA" /\ Type(p) = "RPAREN" /\ EndFrame(p + 1, "NORMAL", "nil")
  BY <1>1, <1>5, <1>6, <1>8, Cursor, RestEnds DEF Flow, Value
<1>9. CASE Type(Here) = "COMMA" /\ Evaluate(p, Top, Rest)
  <2>1. Top \in Activation(L, Len(fns)) /\ Top.k \in ValueKinds \ {"ops"}
    BY <1>1, BelowTop DEF ValueKinds
  <2> QED
    BY <1>1, <1>4, <1>9, <2>1, RestEvaluates
<1> QED
  BY <1>2, <1>7, <1>8, <1>9

LEMMA CardItemKeeps == ASSUME NEW L, Inv(L), CardItem PROVE Inv(L)'
<1> DEFINE p == IF Top.more = 0 THEN current ELSE Here
           q == IF Type(p) = "COMMA" THEN p + 1 ELSE p
           r == IF Top.paren THEN Closed(p) ELSE p
           f == [Top EXCEPT !.more = @ - 1]
<1>1. stack # <<>> /\ Top.k = "card" /\ UNCHANGED <<scopeVars, hadError>>
  BY DEF CardItem, TopIs
<1>2. \/ Top.more > 0 /\ Evaluate(q, f, Rest)
      \/ EndFrame(r, "NORMAL", "nil")
  BY DEF CardItem
<1>3. p \in 0..L
  BY Cursor
<1> HIDE DEF p
<1>4. q \in 0..L /\ r \in 0..L
  BY <1>3, Cursor, Positions
<1>5. Top \in CardFrames
  BY <1>1, BelowTop, Frames
<1>6. Top.more > 0 => f \in Activation(L, Len(fns)) /\ f.k = "card"
  <2> SUFFICES ASSUME Top.more > 0 PROVE f \in Activation(L, Len(fns)) /\ f.k = "card"
    OBVIOUS
  <2>1. Top.more - 1 \in Nat
    BY <1>5 DEF CardFrames
  <2>2. f \in CardFrames /\ f.k = "card"
    BY <1>1, <1>5, <2>1 DEF CardFrames
  <2> HIDE DEF f
  <2> QED
    BY <2>2, NewFrames
<1> HIDE DEF q, r, f
<1>7. CASE Top.more > 0 /\ Evaluate(q, f, Rest)
  <2>1. Top.k \in StatementKinds /\ f.k \in StatementKinds /\ f.k \in ValueKinds \ {"ops"}
    BY <1>1, <1>6, <1>7 DEF StatementKinds, ValueKinds
  <2>2. \A g : Over(Top, g) => Over(f, g)
    BY <2>1, BothStatements
  <2> QED
    BY <1>1, <1>4, <1>6, <1>7, <2>1, <2>2, RestEvaluates
<1>8. CASE EndFrame(r, "NORMAL", "nil")
  BY <1>1, <1>4, <1>8, Cursor, RestEnds DEF Flow, Value, StatementKinds
<1> QED
  BY <1>2, <1>7, <1>8

\* The frame of an if-chain, from its own fields.
LEMMA ChainFrame ==
    ASSUME NEW L, NEW n, NEW kind \in {"elifs", "elif"}, NEW b \in BOOLEAN, NEW t \in BOOLEAN,
           NEW f \in Flow, NEW v \in Value, f # "NORMAL" => t
    PROVE  [k |-> kind, rv |-> b, taken |-> t, flow |-> f, val |-> v] \in Activation(L, n)
<1>1. [k |-> kind, rv |-> b, taken |-> t, flow |-> f, val |-> v] \in ChainFrames
  BY DEF ChainFrames
<1> QED
  BY <1>1, NewFrames

LEMMA IfConditionKeeps == ASSUME NEW L, Inv(L), IfCondition PROVE Inv(L)'
<1> DEFINE f == [k |-> "elifs", rv |-> Top.rv, taken |-> Truthy(val),
                 flow |-> "NORMAL", val |-> "nil"]
<1>1. stack # <<>> /\ Top.k = "if" /\ Brace /\ UNCHANGED <<scopeVars, hadError>>
  BY DEF IfCondition, TopIs
<1>2. Top.rv \in BOOLEAN
  <2>1. Top \in IfFrames
    BY <1>1, BelowTop, Frames
  <2> QED
    BY <2>1 DEF IfFrames
<1>3. f \in Activation(L, Len(fns)) /\ f.k = "elifs" /\ f.flow = "NORMAL" /\ f.taken = Truthy(val)
  <2>1. Truthy(val) \in BOOLEAN /\ "NORMAL" \in Flow /\ "nil" \in Value
    BY DEF Truthy, Flow, Value
  <2> QED
    BY <1>2, <2>1, ChainFrame
<1>4. \/ Truthy(val) /\ Execute(Here + 1, f, Rest, Top.rv)
      \/ Continue(SkipBlock(Here + 1), f, "elifs")
  BY DEF IfCondition
<1> HIDE DEF f
<1>5. Top.k \in StatementKinds /\ f.k \in StatementKinds
  BY <1>1, <1>3 DEF StatementKinds
<1>6. CASE Truthy(val) /\ Execute(Here + 1, f, Rest, Top.rv)
  <2>1. f.k \in {"elifs", "else", "while", "for"} /\ (f.k = "elifs" => f.taken /\ f.flow = "NORMAL")
    BY <1>3, <1>6
  <2> QED
    BY <1>1, <1>2, <1>3, <1>5, <1>6, <2>1, BehindBrace, Cursor, RestExecutesOnly
<1>7. CASE Continue(SkipBlock(Here + 1), f, "elifs")
  <2>1. \A g : Over(Top, g) => Over(f, g)
    BY <1>5, BothStatements
  <2>2. f.k \in Expected("elifs") /\ f.k # "call"
    BY <1>3 DEF Expected
  <2>3. SkipBlock(Here + 1) \in 0..L
    BY <1>1, BehindBrace
  <2> QED
    BY <1>1, <1>3, <1>7, <2>1, <2>2, <2>3, ContinueKeeps
<1> QED
  BY <1>4, <1>6, <1>7

\* The chain on top, field by field.
LEMMA TopChain ==
    ASSUME NEW L, Inv(L), stack # <<>>, Top.k \in {"elifs", "elif"}
    PROVE  /\ Top = [k |-> Top.k, rv |-> Top.rv, taken |-> Top.taken,
                     flow |-> Top.flow, val |-> Top.val]
           /\ Top.rv \in BOOLEAN /\ Top.taken \in BOOLEAN /\ Top.flow \in Flow
           /\ Top.val \in Value /\ (Top.flow # "NORMAL" => Top.taken)
           /\ Top.k \in StatementKinds
<1>1. Top \in ChainFrames
  BY BelowTop, Frames
<1>2. Top.k \in StatementKinds
  BY DEF StatementKinds
<1> QED
  BY <1>1, <1>2 DEF ChainFrames

LEMMA BranchDoneKeeps == ASSUME NEW L, Inv(L), BranchDone PROVE Inv(L)'
<1> DEFINE f == [Top EXCEPT !.flow = flow, !.val = val]
<1>1. /\ at = "flow" /\ stack # <<>> /\ Top.k = "elifs"
      /\ UNCHANGED <<scopeVars, hadError>>
      /\ Continue(current, [Top EXCEPT !.flow = flow, !.val = val], "elifs")
  BY DEF BranchDone, TopIs
<1>2. Top.taken
  BY <1>1 DEF Inv, TopOK, Top
<1>3. f \in ChainFrames /\ f.k = "elifs"
  <2>1. Top \in ChainFrames /\ flow \in Flow /\ val \in Value
    BY <1>1, BelowTop, Frames, Cursor
  <2> QED
    BY <1>1, <1>2, <2>1 DEF ChainFrames
<1> HIDE DEF f
<1>4. f \in Activation(L, Len(fns)) /\ f.k = "elifs"
  BY <1>3, NewFrames
<1>5. \A g : Over(Top, g) => Over(f, g)
  <2>1. Top.k \in StatementKinds /\ f.k \in StatementKinds
    BY <1>1, <1>4 DEF StatementKinds
  <2> QED
    BY <2>1, BothStatements
<1>6. f.k \in Expected("elifs") /\ f.k # "call"
  BY <1>4 DEF Expected
<1> QED
  BY <1>1, <1>4, <1>5, <1>6, Cursor, ContinueKeeps DEF f

\* The chain is on top while its elifs are read.
LEMMA AtChain ==
    ASSUME NEW L, Inv(L), ElifChain
    PROVE  stack # <<>> /\ Top.k = "elifs"
  BY Cursor, TopFrame DEF ElifChain, Expected

LEMMA ElifKeeps == ASSUME NEW L, Inv(L), Elif PROVE Inv(L)'
<1> DEFINE f == [k |-> "elif", rv |-> Top.rv, taken |-> Top.taken,
                 flow |-> Top.flow, val |-> Top.val]
<1>1. /\ stack # <<>> /\ Top.k = "elifs" /\ UNCHANGED <<scopeVars, hadError>>
      /\ Type(Here) = "ELIF" /\ Evaluate(Here + 1, [Top EXCEPT !.k = "elif"], Rest)
  BY AtChain DEF Elif
<1>2. [Top EXCEPT !.k = "elif"] = f
  BY <1>1, TopChain
<1>3. f \in Activation(L, Len(fns)) /\ f.k = "elif"
  BY <1>1, TopChain, ChainFrame
<1> HIDE DEF f
<1>4. f.k \in ValueKinds \ {"ops"} /\ \A g : Over(Top, g) => Over(f, g)
  <2>1. Top.k \in StatementKinds /\ f.k \in StatementKinds
    BY <1>1, <1>3 DEF StatementKinds
  <2>2. \A g : Over(Top, g) => Over(f, g)
    BY <2>1, BothStatements
  <2> QED
    BY <1>3, <2>2 DEF ValueKinds
<1>5. Here + 1 \in 0..L
  BY <1>1, Cursor, BeforeEnd
<1> QED
  BY <1>1, <1>2, <1>3, <1>4, <1>5, RestEvaluates

LEMMA ElifConditionKeeps == ASSUME NEW L, Inv(L), ElifCondition PROVE Inv(L)'
<1> DEFINE f == [k |-> "elifs", rv |-> Top.rv, taken |-> Top.taken,
                 flow |-> Top.flow, val |-> Top.val]
           h == [f EXCEPT !.taken = TRUE]
<1>1. /\ stack # <<>> /\ Top.k = "elif" /\ UNCHANGED scopeVars
      /\ hadError' = (hadError \/ ~Brace)
  BY DEF ElifCondition, TopIs
<1>2. [Top EXCEPT !.k = "elifs"] = f
  BY <1>1, TopChain
<1>3. \/ EndFrame(Here, Top.flow, Top.val)
      \/ Brace /\ ~Top.taken /\ Execute(Here + 1, h, Rest, Top.rv)
      \/ Brace /\ Continue(SkipBlock(Here + 1), f, "elifs")
  BY <1>2 DEF ElifCondition
<1>4. f \in Activation(L, Len(fns)) /\ f.k = "elifs" /\ f.flow = Top.flow
  <2>1. f \in Activation(L, Len(fns))
    BY <1>1, TopChain, ChainFrame
  <2> QED
    BY <2>1
<1> HIDE DEF f
<1>5. h \in Activation(L, Len(fns)) /\ h.k = "elifs" /\ h.taken /\ h.flow = Top.flow
  <2>1. f \in ChainFrames
    BY <1>4, Frames
  <2>2. h \in ChainFrames /\ h.k = "elifs" /\ h.taken /\ h.flow = Top.flow
    BY <1>4, <2>1 DEF ChainFrames
  <2> HIDE DEF h
  <2> QED
    BY <2>2, NewFrames
<1> HIDE DEF h
<1>6. Top.k \in StatementKinds /\ f.k \in StatementKinds /\ hadError' \in BOOLEAN
  BY <1>1, <1>4 DEF StatementKinds
<1>7. CASE EndFrame(Here, Top.flow, Top.val)
  BY <1>1, <1>6, <1>7, Cursor, TopChain, RestEnds
<1>8. CASE Brace /\ ~Top.taken /\ Execute(Here + 1, h, Rest, Top.rv)
  <2>1. h.k \in {"elifs", "else", "while", "for"} /\ (h.k = "elifs" => h.taken /\ h.flow = "NORMAL")
    BY <1>1, <1>5, <1>8, TopChain
  <2>2. Top.rv \in BOOLEAN /\ Here + 1 \in 0..L
    BY <1>1, <1>8, TopChain, BehindBrace
  <2> QED
    BY <1>1, <1>5, <1>6, <1>8, <2>1, <2>2, RestExecutesOnly
<1>9. CASE Brace /\ Continue(SkipBlock(Here + 1), f, "elifs")
  <2>1. \A g : Over(Top, g) => Over(f, g)
    BY <1>6, BothStatements
  <2>2. f.k \in Expected("elifs") /\ f.k # "call"
    BY <1>4 DEF Expected
  <2>3. SkipBlock(Here + 1) \in 0..L
    BY <1>9, BehindBrace
  <2>4. UNCHANGED <<scopeVars, hadError>>
    BY <1>1, <1>9, Cursor
  <2> QED
    BY <1>1, <1>4, <1>9, <2>1, <2>2, <2>3, <2>4, ContinueKeeps
<1> QED
  BY <1>3, <1>7, <1>8, <1>9

LEMMA ElseKeeps == ASSUME NEW L, Inv(L), Else PROVE Inv(L)'
<1> DEFINE p == SkipNewlines(Here + 1)
           f == [k |-> "else"]
<1>1. /\ stack # <<>> /\ Top.k = "elifs" /\ UNCHANGED <<scopeVars, hadError>>
      /\ Type(Here) = "ELSE"
  BY AtChain DEF Else
<1>2. \/ EndFrame(p, Top.flow, Top.val)
      \/ Type(p) = "LBRACE" /\ EndFrame(SkipBlock(p + 1), Top.flow, Top.val)
      \/ Type(p) = "LBRACE" /\ Execute(p + 1, f, Rest, Top.rv)
  BY DEF Else
<1>3. p \in 0..L
  BY <1>1, Cursor, Positions
<1> HIDE DEF p
<1>4. Type(p) = "LBRACE" => p + 1 \in 0..L /\ SkipBlock(p + 1) \in 0..L
  BY <1>3, Cursor, Positions
<1>5. f \in Activation(L, Len(fns)) /\ f.k = "else"
  BY NewFrames DEF PlainFrames
<1> HIDE DEF f
<1>6. hadError' \in BOOLEAN /\ Top.k \in StatementKinds
  BY <1>1, Cursor, TopChain
<1>7. CASE EndFrame(p, Top.flow, Top.val)
  BY <1>1, <1>3, <1>6, <1>7, TopChain, RestEnds
<1>8. CASE Type(p) = "LBRACE" /\ EndFrame(SkipBlock(p + 1), Top.flow, Top.val)
  BY <1>1, <1>4, <1>6, <1>8, TopChain, RestEnds
<1>9. CASE Type(p) = "LBRACE" /\ Execute(p + 1, f, Rest, Top.rv)
  <2>1. f.k \in {"elifs", "else", "while", "for"} /\ (f.k = "elifs" => f.taken /\ f.flow = "NORMAL")
    BY <1>5
  <2>2. Top.rv \in BOOLEAN
    BY <1>1, TopChain
  <2> QED
    BY <1>1, <1>4, <1>5, <1>6, <1>9, <2>1, <2>2, RestExecutesOnly
<1> QED
  BY <1>2, <1>7, <1>8, <1>9

LEMMA ElifsEndKeeps == ASSUME NEW L, Inv(L), ElifsEnd PROVE Inv(L)'
<1>1. stack # <<>> /\ Top.k = "elifs"
  BY AtChain DEF ElifsEnd
<1> QED
  BY <1>1, Cursor, TopChain, RestEnds DEF ElifsEnd

LEMMA WhileConditionKeeps == ASSUME NEW L, Inv(L), WhileCondition PROVE Inv(L)'
<1> DEFINE f == [k |-> "while", cond |-> Top.cond, body |-> Body]
<1>1. /\ stack # <<>> /\ Top.k = "while" /\ UNCHANGED <<scopeVars, hadError>>
      /\ Top.body # 0 \/ Brace
      /\ \/ Execute(Body, [Top EXCEPT !.body = Body], Rest, TRUE)
         \/ EndFrame(SkipBlock(Body), "NORMAL", "nil")
  BY DEF WhileCondition, TopIs
<1>2. Top \in WhileFrames(L)
  BY <1>1, BelowTop, Frames
<1>3. Body \in 0..L
  BY <1>1, <1>2, BehindBrace DEF Body, WhileFrames
<1>4. [Top EXCEPT !.body = Body] = f /\ f \in WhileFrames(L)
  BY <1>1, <1>2, <1>3 DEF WhileFrames
<1>5. f \in Activation(L, Len(fns)) /\ f.k = "while"
  BY <1>4, NewFrames
<1>6. hadError' \in BOOLEAN /\ Top.k \in StatementKinds
  BY <1>1, Cursor DEF StatementKinds
<1> HIDE DEF f
<1>7. CASE Execute(Body, f, Rest, TRUE)
  <2>1. f.k \in {"elifs", "else", "while", "for"} /\ (f.k = "elifs" => f.taken /\ f.flow = "NORMAL")
    BY <1>5
  <2> QED
    BY <1>1, <1>3, <1>5, <1>6, <1>7, <2>1, RestExecutesOnly
<1>8. CASE EndFrame(SkipBlock(Body), "NORMAL", "nil")
  <2>1. SkipBlock(Body) \in 0..L
    BY <1>3, Cursor, Positions
  <2> QED
    BY <1>1, <1>6, <1>8, <2>1, RestEnds DEF Flow, Value
<1> QED
  BY <1>1, <1>4, <1>7, <1>8

LEMMA WhileAgainKeeps == ASSUME NEW L, Inv(L), WhileAgain PROVE Inv(L)'
<1>1. /\ stack # <<>> /\ Top.k = "while" /\ UNCHANGED <<scopeVars, hadError>>
      /\ Evaluate(Top.cond, Top, Rest)
  BY DEF WhileAgain, TopIs
<1>2. Top \in WhileFrames(L) /\ Top \in Activation(L, Len(fns))
  BY <1>1, BelowTop, Frames
<1>3. Top.cond \in 0..L /\ Top.k \in ValueKinds \ {"ops"}
  BY <1>1, <1>2 DEF WhileFrames, ValueKinds
<1> QED
  BY <1>1, <1>2, <1>3, RestEvaluates

LEMMA LoopLeftKeeps == ASSUME NEW L, Inv(L), LoopLeft PROVE Inv(L)'
<1> DEFINE f == IF flow = "BREAK" THEN "NORMAL" ELSE "RETURN"
<1>1. /\ stack # <<>> /\ Top.k \in {"while", "for"} /\ UNCHANGED <<scopeVars, hadError>>
      /\ EndFrame(SkipBlock(Top.body), f, val)
  BY DEF LoopLeft, LoopKinds
<1>2. f \in Flow
  BY DEF Flow
<1> HIDE DEF f
<1>3. Top.body \in 0..L
  <2>1. Top \in WhileFrames(L) \cup ForFrames(L)
    BY <1>1, BelowTop, Frames
  <2> QED
    BY <2>1 DEF WhileFrames, ForFrames
<1>4. SkipBlock(Top.body) \in 0..L
  BY <1>3, Cursor, Positions
<1> QED
  BY <1>1, <1>2, <1>4, Cursor, RestEnds DEF StatementKinds

\* A for on top.
LEMMA TopFor ==
    ASSUME NEW L, Inv(L), stack # <<>>, Top.k = "for"
    PROVE  /\ Top \in ForFrames(L) /\ Top \in Activation(L, Len(fns))
           /\ Top.k \in StatementKinds /\ Top.body \in 0..L /\ Top.name \in Names
           /\ SkipBlock(Top.body) \in 0..L
<1>1. Top \in ForFrames(L) /\ Top \in Activation(L, Len(fns))
  BY BelowTop, Frames
<1>2. Top.body \in 0..L /\ Top.name \in Names
  BY <1>1 DEF ForFrames
<1> QED
  BY <1>1, <1>2, Cursor, Positions DEF StatementKinds

LEMMA ForListKeeps == ASSUME NEW L, Inv(L), ForList PROVE Inv(L)'
<1> DEFINE f == [k |-> "for", body |-> Here + 1, name |-> Top.name]
<1>1. /\ stack # <<>> /\ Top.k = "for" /\ Brace /\ UNCHANGED <<scopeVars, hadError>>
      /\ Continue(Here + 1, [Top EXCEPT !.body = Here + 1], "iter")
  BY DEF ForList, TopIs
<1>2. Here + 1 \in 0..L
  BY <1>1, BehindBrace
<1>3. [Top EXCEPT !.body = Here + 1] = f /\ f \in ForFrames(L)
  BY <1>1, <1>2, TopFor DEF ForFrames
<1>4. f \in Activation(L, Len(fns)) /\ f.k = "for"
  BY <1>3, NewFrames
<1> HIDE DEF f
<1>5. \A g : Over(Top, g) => Over(f, g)
  <2>1. Top.k \in StatementKinds /\ f.k \in StatementKinds
    BY <1>1, <1>4 DEF StatementKinds
  <2> QED
    BY <2>1, BothStatements
<1>6. f.k \in Expected("iter") /\ f.k # "call"
  BY <1>4 DEF Expected
<1> QED
  BY <1>1, <1>2, <1>3, <1>4, <1>5, <1>6, ContinueKeeps

LEMMA AtIteration ==
    ASSUME NEW L, Inv(L), at = "iter"
    PROVE  stack # <<>> /\ Top.k = "for"
  BY Cursor, TopFrame DEF Expected

LEMMA ForElementKeeps == ASSUME NEW L, Inv(L), ForElement PROVE Inv(L)'
<1>1. /\ stack # <<>> /\ Top.k = "for" /\ Execute(Top.body, Top, Rest, TRUE)
      /\ hadError' = hadError
  BY AtIteration DEF ForElement
<1>2. PICK v \in Literal : ScopeSet(Top.name, v)
  BY DEF ForElement
<1>3. v \in Value /\ ScopesOK
  BY DEF Literal, Value, Inv
<1>4. globals' \in Scope /\ scopes' \in Seq(Scope) /\ Len(scopes') = Len(scopes)
  BY <1>1, <1>2, <1>3, TopFor, ScopeSetKeeps
<1>5. hadError' \in BOOLEAN
  BY <1>1, Cursor
<1>6. Top.k \in {"elifs", "else", "while", "for"} /\ (Top.k = "elifs" => Top.taken /\ Top.flow = "NORMAL")
  BY <1>1
<1> QED
  BY <1>1, <1>4, <1>5, <1>6, TopFor, RestExecutes

LEMMA ForEndKeeps == ASSUME NEW L, Inv(L), ForEnd PROVE Inv(L)'
<1>1. /\ stack # <<>> /\ Top.k = "for" /\ UNCHANGED <<scopeVars, hadError>>
      /\ EndFrame(SkipBlock(Top.body), "NORMAL", "nil")
  BY AtIteration DEF ForEnd
<1> QED
  BY <1>1, Cursor, TopFor, RestEnds DEF Flow, Value

LEMMA ForAgainKeeps == ASSUME NEW L, Inv(L), ForAgain PROVE Inv(L)'
<1>1. /\ stack # <<>> /\ Top.k = "for" /\ UNCHANGED <<scopeVars, hadError>>
      /\ Continue(current, Top, "iter")
  BY DEF ForAgain, TopIs
<1>2. Top.k \in Expected("iter")
  BY <1>1 DEF Expected
<1> QED
  BY <1>1, <1>2, Cursor, TopFor, ContinueKeeps

-----------------------------------------------------------------------------
(* The invariant. *)

LEMMA InitInv == Init => IInv
<1> SUFFICES ASSUME Init PROVE IInv
  OBVIOUS
<1>1. /\ session \in DOMAIN Sessions /\ line = 1 /\ tokens = Tokenize(Lines[1], <<>>)
      /\ current = 0 /\ fns = <<>> /\ globals = EmptyScope /\ scopes = <<>> /\ stack = <<>>
      /\ at = "loop" /\ val = "nil" /\ flow = "NORMAL" /\ hadError = FALSE
  BY DEF Init
<1> DEFINE l == Lines[1]
           old == <<>>
<1>2. 1 \in 1..Len(Lines) /\ l \in Seq(Tokens \ {"EOF"})
  BY <1>1, SessionProperties
<1> HIDE DEF l
<1>3. \E n \in 0..(MaxTokens - 1), N \in 0..(MaxTokens - 1) :
          /\ n = N /\ Tokenize(l, old) \in [0..N -> Tokens] /\ Tokenize(l, old)[N] = "EOF"
          /\ \A p \in 0..(n - 1) : Tokenize(l, old)[p] # "EOF"
  <2>1. DOMAIN old = {}
    OBVIOUS
  <2> HIDE DEF old
  <2> QED
    BY <1>2, <2>1, TokenizeProperties
<1>4. PICK N \in 0..(MaxTokens - 1) :
          /\ tokens \in [0..N -> Tokens] /\ tokens[N] = "EOF"
          /\ \A p \in 0..(N - 1) : tokens[p] # "EOF"
  BY <1>1, <1>3 DEF l
<1>5. ArrayOK(N) /\ current \in 0..N
  BY <1>1, <1>4 DEF ArrayOK
<1>6. StackOK(stack, N, Len(fns), Len(scopes))
  <2>1. CallsIn(<<>>) = {}
    BY DEF CallsIn
  <2>2. Cardinality(CallsIn(<<>>)) = 0
    BY <2>1, FS_EmptySet
  <2> QED
    BY <1>1, <2>2 DEF StackOK
<1>7. FunctionsOK(N)
  BY <1>1, LimitsAssumption DEF FunctionsOK
<1>8. ScopesOK
  <2>1. EmptyScope \in Scope
    BY DEF EmptyScope, Scope
  <2> QED
    BY <1>1, <2>1 DEF ScopesOK
<1>9. ProgramOK
  BY <1>1, <1>2 DEF ProgramOK
<1> QED
  BY <1>1, <1>4, <1>5, <1>6, <1>7, <1>8, <1>9 DEF IInv, Inv, TopOK, Value, Flow

LEMMA StutterKeeps == ASSUME NEW L, Inv(L), UNCHANGED vars PROVE Inv(L)'
  BY DEF Inv, ArrayOK, ProgramOK, FunctionsOK, ScopesOK, vars, Lines

LEMMA NextKeeps ==
    ASSUME NEW L, Inv(L), Next, ~NextLine
    PROVE  Inv(L)'
<1>1. CASE Program
  BY <1>1, MainStatementKeeps, MainStatementDoneKeeps, ExitKeeps DEF Program
<1>2. CASE Block
  BY <1>2, BlockStatementKeeps, BlockEndKeeps, BlockGoesOnKeeps, BlockLeftKeeps DEF Block
<1>3. CASE StatementStart
  <2>1. CASE Alert \/ Timeline
    BY <2>1, CardKeeps DEF Alert, Timeline, TokenType
  <2> QED
    BY <1>3, <2>1, PlainStatementKeeps, FnDefinitionKeeps, ReturnKeeps, PrintListKeeps, LetKeeps,
       AssignKeeps, IfKeeps, WhileKeeps, ForKeeps, ExpressionStatementKeeps DEF StatementStart
<1>4. CASE Expression
  BY <1>4, LiteralOperandKeeps, GroupKeeps, VariableKeeps, BadOperandKeeps, OperatorKeeps,
     GroupEndKeeps, CallBeginKeeps, ArgumentKeeps, CallKeeps, StackOverflowKeeps,
     UnknownFunctionKeeps, CallEndKeeps DEF Expression
<1>5. CASE StatementGoesOn
  BY <1>5, ValueDoneKeeps, AssignValueKeeps, PrintItemKeeps, CardItemKeeps, IfConditionKeeps,
     BranchDoneKeeps, ElifKeeps, ElifConditionKeeps, ElseKeeps, ElifsEndKeeps,
     WhileConditionKeeps, WhileAgainKeeps, LoopLeftKeeps, ForListKeeps, ForElementKeeps,
     ForEndKeeps, ForAgainKeeps DEF StatementGoesOn
<1> QED
  BY <1>1, <1>2, <1>3, <1>4, <1>5 DEF Next

LEMMA NextInv == IInv /\ [Next]_vars => IInv'
<1> SUFFICES ASSUME IInv, [Next]_vars PROVE IInv'
  OBVIOUS
<1>1. PICK L \in 0..(MaxTokens - 1) : Inv(L)
  BY DEF IInv
<1>2. CASE NextLine
  BY <1>1, <1>2, NextLineKeeps
<1>3. CASE Next /\ ~NextLine
  <2>1. Inv(L)'
    BY <1>1, <1>3, NextKeeps
  <2> QED
    BY <2>1 DEF IInv
<1>4. CASE UNCHANGED vars
  <2>1. Inv(L)'
    BY <1>1, <1>4, StutterKeeps
  <2> QED
    BY <2>1 DEF IInv
<1> QED
  BY <1>2, <1>3, <1>4

\* The engine keeps its invariant on every program, of any tokens and any
\* length: the token array ends with "EOF", the cursor is in it, the C
\* activations nest, and each waiting call has its scope (rdx_engine.c).
THEOREM Invariance == Spec => []IInv
<1> QED
  BY InitInv, NextInv, PTL DEF Spec

-----------------------------------------------------------------------------
(* What follows from it. *)

LEMMA InvType == IInv => TypeOK
<1> SUFFICES ASSUME IInv PROVE TypeOK
  OBVIOUS
<1>1. PICK L \in 0..(MaxTokens - 1) : Inv(L)
  BY DEF IInv
<1>2. MaxTokens - 1 \in Nat /\ L \in Nat /\ L <= MaxTokens - 1
  BY <1>1, LimitsAssumption
<1>3. session \in DOMAIN Sessions /\ line \in 1..Len(Lines)
  BY <1>1 DEF Inv, ProgramOK
<1>4. /\ \A p \in DOMAIN tokens : tokens[p] \in Tokens
      /\ current \in 0..(MaxTokens - 1)
      /\ line = 1 => \A p \in 0..(current - 1) : Token(p) # "EOF"
  BY <1>1, <1>2 DEF Inv, ArrayOK, Token
<1>5. /\ Len(fns) <= MaxFnDefs
      /\ \A i \in DOMAIN fns : fns[i].start \in 0..(MaxTokens - 1) /\ Len(fns[i].params) <= MaxParams
  <2> DEFINE F == FnDef(L)
  <2>1. fns \in Seq(F) /\ Len(fns) <= MaxFnDefs
    BY <1>1 DEF Inv, FunctionsOK
  <2> HIDE DEF F
  <2>2. \A i \in DOMAIN fns : fns[i] \in F
    BY <2>1
  <2>3. \A f \in F : f.start \in 0..(MaxTokens - 1) /\ Len(f.params) <= MaxParams
    BY <1>2 DEF F, FnDef
  <2> QED
    BY <2>1, <2>2, <2>3
<1>6. /\ \A i \in DOMAIN scopes : \A x \in DOMAIN scopes[i] : scopes[i][x] \in Value
      /\ \A x \in DOMAIN globals : globals[x] \in Value
  <2>1. globals \in Scope /\ \A i \in DOMAIN scopes : scopes[i] \in Scope
    BY <1>1 DEF Inv, ScopesOK
  <2>2. \A s \in Scope : \A x \in DOMAIN s : s[x] \in Value
    BY DEF Scope
  <2> QED
    BY <2>1, <2>2
<1>7. at \in {"loop", "stmt", "primary", "value", "call", "flow", "elifs", "iter",
              "end", "crash"}
  BY <1>1 DEF Inv, TopOK, Expected
<1>8. val \in Value /\ flow \in Flow /\ hadError \in BOOLEAN
  BY <1>1 DEF Inv
<1> QED
  BY <1>3, <1>4, <1>5, <1>6, <1>7, <1>8 DEF TypeOK

\* The types of the engine's state: in particular the cursor never leaves
\* the token array, and in a program of one line it never passes the end of
\* the input (rdx_engine.c, peek and advance_tok).
THEOREM TypeCorrect == Spec => []TypeOK
<1> QED
  BY Invariance, InvType, PTL

\* Nothing but a call stands on an expression, except its own parts.
LEMMA OnExpression ==
    ASSUME NEW L, NEW n, NEW f \in Activation(L, n), NEW g, Over(f, g),
           g.k \in {"ops", "group", "args", "elif"}, f.k \notin {"ops", "group", "args"}
    PROVE  f.k = "call"
<1>1. f.k \in {"top", "block", "ops", "group", "args", "call"} \cup StatementKinds
  BY DEF Activation, BodyFrames, OpsFrames, PlainFrames, ArgsFrames, CallFrames, AssignFrames,
         PrintFrames, CardFrames, IfFrames, ChainFrames, WhileFrames, ForFrames, StatementKinds
<1> QED
  BY <1>1 DEF Over, StatementKinds, FlowKinds

\* Nothing stands on a chain that has been left.
LEMMA OnLeftChain ==
    ASSUME NEW L, NEW n, NEW f \in Activation(L, n), NEW g, Over(f, g),
           g.k = "elifs", g.flow # "NORMAL"
    PROVE  FALSE
<1>1. f.k \in {"top", "block", "ops", "group", "args", "call"} \cup StatementKinds
  BY DEF Activation, BodyFrames, OpsFrames, PlainFrames, ArgsFrames, CallFrames, AssignFrames,
         PrintFrames, CardFrames, IfFrames, ChainFrames, WhileFrames, ForFrames, StatementKinds
<1> QED
  BY <1>1 DEF Over, StatementKinds, FlowKinds, ValueKinds

LEMMA InvFlow == IInv => NoStatementAfterFlow
<1> SUFFICES ASSUME IInv, at = "stmt", NEW i \in DOMAIN stack,
                    stack[i].k \in {"elifs", "elif"}, stack[i].flow # "NORMAL"
             PROVE  \E j \in 1..(i - 1) : stack[j].k = "call"
  BY DEF NoStatementAfterFlow
<1>1. PICK L \in 0..(MaxTokens - 1) : Inv(L)
  BY DEF IInv
<1> DEFINE A == Activation(L, Len(fns))
           X == {"ops", "group", "args"}
<1>2. /\ stack \in Seq(A) /\ \A j \in 1..(Len(stack) - 1) : Over(stack[j], stack[j + 1])
      /\ stack[1].k \in {"top", "block"}
  BY <1>1, Cursor, TopFrame DEF StackOK, Expected, Top
<1> HIDE DEF A
<1>3. i \in 1..Len(stack) /\ i # 1 /\ Len(stack) \in Nat
  BY <1>2
<1>4. \A j \in 1..(i - 1) : stack[j] \in A /\ Over(stack[j], stack[j + 1])
  BY <1>2, <1>3, ElementOfSeq
<1>5. stack[i].k = "elif"
  <2> SUFFICES ASSUME stack[i].k = "elifs" PROVE FALSE
    OBVIOUS
  <2>1. i - 1 \in 1..(i - 1) /\ (i - 1) + 1 = i
    BY <1>3
  <2>2. stack[i - 1] \in A /\ Over(stack[i - 1], stack[i])
    BY <1>4, <2>1
  <2> QED
    BY <2>2, OnLeftChain DEF A
<1> DEFINE P == {j \in 1..(i - 1) : stack[j].k \notin X}
<1>6. PICK j \in P : \A m \in P : m <= j
  <2>1. P \in SUBSET (0..Len(stack)) /\ P # {}
    BY <1>2, <1>3
  <2> HIDE DEF P
  <2> QED
    BY <1>3, <2>1, GreatestElement
<1>7. stack[j + 1].k \in {"ops", "group", "args", "elif"}
  <2>1. CASE j + 1 = i
    BY <1>5, <2>1
  <2>2. CASE j + 1 # i
    <3>1. j + 1 \in 1..(i - 1) /\ ~(j + 1 <= j)
      BY <1>3, <2>2
    <3>2. j + 1 \notin P
      BY <1>6, <3>1
    <3> QED
      BY <3>1, <3>2
  <2> QED
    BY <2>1, <2>2
<1>8. j \in 1..(i - 1) /\ stack[j].k \notin X
  BY <1>6
<1>9. stack[j].k = "call"
  BY <1>4, <1>7, <1>8, OnExpression DEF A
<1> QED
  BY <1>8, <1>9

\* After a return, break or continue no statement starts in the chain of ifs
\* that was left by it, on any program: only the calls of an elif's condition
\* can still run statements, of their own function (rdx_engine.c, exec_stmt).
THEOREM FlowCorrect == Spec => []NoStatementAfterFlow
<1> QED
  BY Invariance, InvFlow, PTL

-----------------------------------------------------------------------------
(* Scopes. *)

\* What ScopesIsolated says of one step.
Isolated ==
    InFunction =>
       /\ \A x \in DOMAIN globals :
             x \in DOMAIN globals' /\ globals'[x] \in {globals[x], "fn"}
       /\ Len(scopes') >= Calls => SubSeq(scopes', Len(scopes') - Calls + 2, Len(scopes'))
                                     = Tail(scopes)
       /\ Len(scopes') < Calls => scopes' = Tail(scopes)

\* The steps that touch no variable of the program.
LEMMA VariablesStay ==
    ASSUME Next, ~AssignValue, ~ForElement, ~FnDefinition, ~Call, ~CallEnd
    PROVE  UNCHANGED scopeVars
<1>1. CASE Program
  BY <1>1 DEF Program, MainStatement, MainStatementDone, NextLine, Exit
<1>2. CASE Block
  BY <1>2 DEF Block, BlockStatement, BlockEnd, BlockGoesOn, BlockLeft
<1>3. CASE StatementStart
  BY <1>3 DEF StatementStart, StatementAtEnd, FnWithoutName, FnWithoutParameters, Return, Break,
     ContinueLoop, PrintList, Alert, Timeline, Card, Let, Assign, If, While, For,
     ExpressionStatement, Fail, Done
<1>4. CASE Expression
  BY <1>4 DEF Expression, LiteralOperand, Group, Variable, BadOperand, Operator, GroupEnd,
     CallBegin, Argument, StackOverflow, UnknownFunction
<1>5. CASE StatementGoesOn
  BY <1>5 DEF StatementGoesOn, ReturnValue, ExpressionDone, PrintItem, CardItem, NoBlock,
     IfCondition, BranchDone, Elif, ElifCondition, Else, ElseDone, ElifsEnd, WhileCondition,
     WhileAgain, LoopLeft, ForList, ForEnd, ForAgain
<1> QED
  BY <1>1, <1>2, <1>3, <1>4, <1>5 DEF Next

\* A scope list whose tail is kept, and one that got a scope in front.
LEMMA TailKept ==
    ASSUME NEW X, NEW s \in Seq(X), s # <<>>, NEW t \in Seq(X)
    PROVE  /\ Len(t) = Len(s) /\ Tail(t) = Tail(s) =>
                 SubSeq(t, Len(t) - Len(s) + 2, Len(t)) = Tail(s)
           /\ Len(t) = Len(s) + 1 /\ Tail(t) = s =>
                 SubSeq(t, Len(t) - Len(s) + 2, Len(t)) = Tail(s)
<1>1. Len(s) \in Nat \ {0} /\ Len(t) \in Nat
  BY EmptySeq, LenProperties
<1>2. ASSUME Len(t) = Len(s), Tail(t) = Tail(s)
      PROVE  SubSeq(t, Len(t) - Len(s) + 2, Len(t)) = Tail(s)
  <2>1. t # <<>> /\ Len(t) - Len(s) + 2 = 2
    BY <1>1, <1>2
  <2> QED
    BY <1>2, <2>1, TailIsSubSeq
<1>3. ASSUME Len(t) = Len(s) + 1, Tail(t) = s
      PROVE  SubSeq(t, Len(t) - Len(s) + 2, Len(t)) = Tail(s)
  <2>1. t # <<>> /\ Len(t) - Len(s) + 2 = 3 /\ 2 \in 1..Len(t) /\ Len(t) \in 2..Len(t)
    BY <1>1, <1>3
  <2>2. s = SubSeq(t, 2, Len(t))
    BY <1>3, <2>1, TailIsSubSeq
  <2>3. Tail(SubSeq(t, 2, Len(t))) = SubSeq(t, 2 + 1, Len(t))
    BY <2>1, HeadTailOfSubSeq
  <2> QED
    BY <2>1, <2>2, <2>3
<1> QED
  BY <1>2, <1>3

LEMMA StepIsolated == ASSUME NEW L, Inv(L), Next PROVE Isolated
<1> SUFFICES ASSUME InFunction PROVE Isolated
  BY DEF Isolated
<1>1. scopes \in Seq(Scope) /\ scopes # <<>> /\ globals \in Scope /\ ScopesOK
  BY DEF Inv, ScopesOK, InFunction
<1>2. Len(scopes) \in Nat \ {0}
  BY <1>1, EmptySeq
<1>3. CASE globals' = globals /\ Tail(scopes') = Tail(scopes) /\ Len(scopes') = Len(scopes)
           /\ scopes' \in Seq(Scope)
  BY <1>1, <1>2, <1>3, TailKept DEF Isolated, Calls
<1>4. CASE UNCHANGED scopeVars
  BY <1>1, <1>3, <1>4 DEF scopeVars
<1>5. CASE AssignValue
  <2>1. stack # <<>> /\ Top.k = "assign"
    BY <1>5 DEF AssignValue, TopIs
  <2>2. Top.name \in Names /\ val \in Value
    BY <2>1, BelowTop, Frames, Cursor DEF AssignFrames
  <2> QED
    BY <1>1, <1>3, <1>5, <2>2, ScopeSetKeeps DEF AssignValue
<1>6. CASE ForElement
  <2>1. Top.name \in Names
    BY <1>6, AtIteration, TopFor DEF ForElement
  <2>2. PICK v \in Literal : ScopeSet(Top.name, v)
    BY <1>6 DEF ForElement
  <2>3. v \in Value
    BY DEF Literal, Value
  <2> QED
    BY <1>1, <1>3, <2>1, <2>2, <2>3, ScopeSetKeeps
<1>7. CASE FnDefinition
  <2> DEFINE name == Token(Here + 1)
  <2>1. CASE UNCHANGED scopeVars
    BY <1>4, <2>1
  <2>2. CASE globals' = With(globals, name, "fn") /\ scopes' = scopes
    <3>1. name \in Names
      <4>1. at = "stmt" /\ Type(Here) # "EOF" /\ Type(Here + 1) = "IDENT"
        BY <1>7 DEF FnDefinition, Statement
      <4>2. Here + 1 \in 0..L
        BY <4>1, AtStatement
      <4> QED
        BY <4>1, <4>2, Cursor, TokenTypes
    <3> HIDE DEF name
    <3>2. \A x \in DOMAIN globals : x \in DOMAIN globals' /\ globals'[x] \in {globals[x], "fn"}
      BY <1>1, <2>2, <3>1, WithProperties DEF Value
    <3>3. Len(scopes') >= Calls => SubSeq(scopes', Len(scopes') - Calls + 2, Len(scopes'))
                                     = Tail(scopes)
      BY <1>1, <2>2, TailKept DEF Calls
    <3> QED
      BY <1>2, <2>2, <3>2, <3>3 DEF Isolated, Calls
  <2> QED
    BY <1>7, <2>1, <2>2 DEF FnDefinition, Fail, scopeVars
<1>8. CASE Call
  <2> DEFINE i == Callee(Top.name)
             s == Frame(fns[i].params, Top.args)
  <2>1. globals' = globals /\ scopes' = <<s>> \o scopes
    BY <1>8 DEF Call
  <2>2. s \in Scope
    <3>1. stack # <<>> /\ Top.k = "args" /\ IsFunction(Top.name)
      BY <1>8 DEF Call, TopIs
    <3>2. Top \in ArgsFrames /\ fns[i] \in FnDef(L)
      BY <3>1, BelowTop, Frames, CalleeProperties
    <3> HIDE DEF i
    <3>3. fns[i].params \in Seq(Names) /\ Top.args \in Seq(Value)
      BY <3>2 DEF FnDef, ArgsFrames
    <3> QED
      BY <3>3, FrameInScope
  <2> HIDE DEF s
  <2>3. scopes' \in Seq(Scope) /\ Len(scopes') = Len(scopes) + 1 /\ Tail(scopes') = scopes
    BY <1>1, <2>1, <2>2
  <2>4. SubSeq(scopes', Len(scopes') - Calls + 2, Len(scopes')) = Tail(scopes)
    BY <1>1, <2>3, TailKept DEF Calls
  <2>5. ~(Len(scopes') < Calls)
    BY <1>2, <2>3 DEF Calls
  <2>6. \A x \in DOMAIN globals : x \in DOMAIN globals' /\ globals'[x] \in {globals[x], "fn"}
    BY <2>1
  <2> QED
    BY <2>4, <2>5, <2>6 DEF Isolated
<1>9. CASE CallEnd
  <2>1. globals' = globals /\ scopes' = Tail(scopes)
    BY <1>9 DEF CallEnd
  <2>2. Len(scopes') = Len(scopes) - 1
    BY <1>1, <2>1, HeadTailProperties
  <2> QED
    BY <1>2, <2>1, <2>2 DEF Isolated, Calls
<1> QED
  BY <1>4, <1>5, <1>6, <1>7, <1>8, <1>9, VariablesStay

\* A step while a function runs leaves its caller's variables and the global
\* ones alone, whatever the program; only a definition of a function adds or
\* sets a global name (rdx_engine.c, scope_set).
THEOREM IsolationCorrect == Spec => ScopesIsolated
<1>1. IInv /\ Next => Isolated
  BY StepIsolated DEF IInv
<1>2. IInv /\ [Next]_vars => [Isolated]_vars
  BY <1>1
<1> QED
  BY <1>2, Invariance, PTL DEF Spec, ScopesIsolated, Isolated

-----------------------------------------------------------------------------
(* A text whose braces match, and the depth of its positions. *)

TextOK(l) == l \in Seq(Tokens \ {"EOF"}) /\ Bracketed(l)

LEMMA Counted ==
    ASSUME NEW l, NEW t, NEW p \in Nat
    PROVE  /\ Occurrences(l, t, 0) = 0 /\ Occurrences(l, t, p) \in Nat
           /\ Occurrences(l, t, p + 1) =
                  IF l[p + 1] = t THEN Occurrences(l, t, p) + 1 ELSE Occurrences(l, t, p)
<1> DEFINE S(n) == {i \in 1..n : l[i] = t}
           A == S(p)
           B == S(p + 1)
<1>1. IsFiniteSet(A) /\ p + 1 \notin A /\ S(0) = {}
  <2>1. IsFiniteSet(1..p)
    BY FS_Interval
  <2>2. A \subseteq 1..p
    OBVIOUS
  <2> QED
    BY <2>1, <2>2, FS_Subset
<1>2. B = IF l[p + 1] = t THEN A \cup {p + 1} ELSE A
  <2>1. 1..(p + 1) = (1..p) \cup {p + 1}
    OBVIOUS
  <2> QED
    BY <2>1
<1>3. Cardinality(S(0)) = 0 /\ Cardinality(A) \in Nat
  BY <1>1, FS_EmptySet, FS_CardinalityType
<1> HIDE DEF A, B
<1>4. Cardinality(B) = IF l[p + 1] = t THEN Cardinality(A) + 1 ELSE Cardinality(A)
  BY <1>1, <1>2, FS_AddElement
<1> QED
  BY <1>3, <1>4 DEF A, B, Occurrences

LEMMA Depths ==
    ASSUME NEW l, TextOK(l)
    PROVE  /\ Len(l) \in Nat /\ Len(l) < MaxTokens /\ DOMAIN l = 1..Len(l)
           /\ \A p \in 0..Len(l) : Opened(l, p) \in Nat
           /\ Opened(l, 0) = 0 /\ Opened(l, Len(l)) = 0
           /\ \A p \in 0..(Len(l) - 1) :
                 /\ p + 1 \in DOMAIN l
                 /\ l[p + 1] = "LBRACE" => Opened(l, p + 1) = Opened(l, p) + 1
                 /\ l[p + 1] = "RBRACE" => Opened(l, p + 1) = Opened(l, p) - 1
                 /\ l[p + 1] \notin {"LBRACE", "RBRACE"} => Opened(l, p + 1) = Opened(l, p)
<1> DEFINE C(t, n) == Occurrences(l, t, n)
<1>1. Len(l) \in Nat /\ DOMAIN l = 1..Len(l)
  BY DEF TextOK
<1>2. \A t : \A p \in Nat : /\ C(t, 0) = 0 /\ C(t, p) \in Nat
                            /\ C(t, p + 1) = IF l[p + 1] = t THEN C(t, p) + 1 ELSE C(t, p)
  BY Counted
<1>3. \A p : Opened(l, p) = C("LBRACE", p) - C("RBRACE", p)
  BY DEF Opened
<1>4. Len(l) < MaxTokens /\ Opened(l, Len(l)) = 0 /\ \A p \in 0..Len(l) : Opened(l, p) >= 0
  BY DEF TextOK, Bracketed
<1> HIDE DEF C
<1>5. \A p \in 0..Len(l) : Opened(l, p) \in Nat
  BY <1>1, <1>2, <1>3, <1>4
<1>6. Opened(l, 0) = 0
  BY <1>2, <1>3
<1>7. ASSUME NEW p \in 0..(Len(l) - 1)
      PROVE  /\ p + 1 \in DOMAIN l
             /\ l[p + 1] = "LBRACE" => Opened(l, p + 1) = Opened(l, p) + 1
             /\ l[p + 1] = "RBRACE" => Opened(l, p + 1) = Opened(l, p) - 1
             /\ l[p + 1] \notin {"LBRACE", "RBRACE"} => Opened(l, p + 1) = Opened(l, p)
  <2>1. p \in Nat /\ p + 1 \in DOMAIN l
    BY <1>1
  <2>2. /\ C("LBRACE", p) \in Nat /\ C("RBRACE", p) \in Nat
        /\ C("LBRACE", p + 1) = IF l[p + 1] = "LBRACE" THEN C("LBRACE", p) + 1 ELSE C("LBRACE", p)
        /\ C("RBRACE", p + 1) = IF l[p + 1] = "RBRACE" THEN C("RBRACE", p) + 1 ELSE C("RBRACE", p)
    BY <1>2, <2>1
  <2> QED
    BY <1>3, <2>1, <2>2
<1> QED
  BY <1>1, <1>4, <1>5, <1>6, <1>7

\* p is reached from b without leaving a block that is open at b.
Inside(l, b, p) == p \in b..Len(l) /\ \A r \in b..p : Opened(l, r) >= Opened(l, b)

LEMMA InsideSelf ==
    ASSUME NEW l, TextOK(l), NEW p \in 0..Len(l)
    PROVE  Inside(l, p, p)
<1>1. \A r \in p..p : r = p
  OBVIOUS
<1>2. p \in Nat /\ Len(l) \in Nat /\ Opened(l, p) \in Nat
  BY Depths
<1> QED
  BY <1>1, <1>2 DEF Inside

LEMMA InsideInside ==
    ASSUME NEW l, TextOK(l), NEW a \in Nat, NEW b \in Nat, NEW c,
           Inside(l, a, b), Inside(l, b, c)
    PROVE  Inside(l, a, c)
<1>1. Len(l) \in Nat /\ \A p \in 0..Len(l) : Opened(l, p) \in Nat
  BY Depths
<1>2. b \in a..Len(l) /\ c \in b..Len(l) /\ c \in a..Len(l)
  BY <1>1 DEF Inside
<1>3. Opened(l, b) >= Opened(l, a)
  BY <1>1, <1>2 DEF Inside
<1>4. ASSUME NEW r \in a..c PROVE Opened(l, r) >= Opened(l, a)
  <2>1. CASE r <= b
    <3>1. r \in a..b
      BY <2>1, <1>2
    <3> QED
      BY <3>1 DEF Inside
  <2>2. CASE b <= r
    <3>1. r \in b..c /\ r \in 0..Len(l) /\ a \in 0..Len(l) /\ b \in 0..Len(l)
      BY <1>1, <1>2, <2>2
    <3>2. Opened(l, r) >= Opened(l, b)
      BY <3>1 DEF Inside
    <3> QED
      BY <1>1, <1>3, <3>1, <3>2
  <2> QED
    BY <1>2, <2>1, <2>2
<1> QED
  BY <1>2, <1>4 DEF Inside

\* Tokens that close no block.
LEMMA InsidePath ==
    ASSUME NEW l, TextOK(l), NEW p \in 0..Len(l), NEW q \in p..Len(l),
           \A r \in p..(q - 1) : l[r + 1] # "RBRACE"
    PROVE  Inside(l, p, q)
<1>1. Len(l) \in Nat /\ \A r \in 0..Len(l) : Opened(l, r) \in Nat
  BY Depths
<1> DEFINE S == {r \in p..q : ~(Opened(l, r) >= Opened(l, p))}
<1>2. S = {}
  <2> SUFFICES ASSUME S # {} PROVE FALSE
    OBVIOUS
  <2>1. S \in SUBSET Nat
    BY <1>1
  <2>2. PICK r \in S : \A m \in S : r <= m
    <3> HIDE DEF S
    <3> QED
      BY <2>1, LeastElement
  <2>3. /\ r \in p..q /\ r # p /\ r - 1 \in p..(q - 1) /\ r - 1 \in p..q
        /\ r - 1 \in 0..(Len(l) - 1) /\ r - 1 \notin S /\ (r - 1) + 1 = r
    BY <1>1, <2>2
  <2>4. Opened(l, r - 1) >= Opened(l, p) /\ Opened(l, p) \in Nat /\ Opened(l, r - 1) \in Nat
    BY <1>1, <2>3
  <2>5. l[(r - 1) + 1] # "RBRACE"
    BY <2>3
  <2>6. Opened(l, r) \in {Opened(l, r - 1), Opened(l, r - 1) + 1}
    BY <2>3, <2>5, Depths
  <2>7. Opened(l, r) >= Opened(l, p)
    BY <2>4, <2>6
  <2> QED
    BY <2>2, <2>7
<1> QED
  BY <1>1, <1>2 DEF Inside

\* The token array is what tokenize makes of such a text.
Text(l) == TextOK(l) /\ tokens = Tokenize(l, <<>>)

LEMMA TextTokens ==
    ASSUME NEW l, Text(l)
    PROVE  /\ \A p \in Nat : Token(p) = IF p < Len(l) THEN l[p + 1] ELSE "EOF"
           /\ tokens \in [0..Len(l) -> Tokens] /\ Len(l) \in Nat
           /\ \A p \in 0..(Len(l) - 1) : p + 1 \in DOMAIN l /\ l[p + 1] \in Tokens \ {"EOF"}
<1>1. /\ Len(l) \in Nat /\ Len(l) < MaxTokens /\ DOMAIN l = 1..Len(l)
      /\ l \in Seq(Tokens \ {"EOF"})
  BY Depths DEF Text, TextOK
<1>2. \A p \in 1..Len(l) : l[p] \in Tokens \ {"EOF"}
  BY <1>1, ElementOfSeq
<1> DEFINE old == <<>>
<1>3. DOMAIN old = {}
  OBVIOUS
<1> HIDE DEF old
<1>4. Tokenize(l, old) = [p \in 0..Len(l) |-> IF p < Len(l) THEN l[p + 1]
                                              ELSE IF p = Len(l) THEN "EOF" ELSE old[p]]
  BY <1>1, <1>3 DEF Tokenize
<1>5. tokens = [p \in 0..Len(l) |-> IF p < Len(l) THEN l[p + 1] ELSE "EOF"]
  <2>1. tokens = Tokenize(l, old)
    BY DEF Text, old
  <2>2. \A n \in Nat : \A p \in 0..n : p < n \/ p = n
    OBVIOUS
  <2>3. \A p \in 0..Len(l) : p < Len(l) \/ p = Len(l)
    BY <1>1, <2>2, Zenon
  <2> QED
    BY <1>4, <2>1, <2>3
<1>6. "EOF" \in Tokens
  BY DEF Tokens, TokenType
<1>7. \A p \in 0..(Len(l) - 1) : p + 1 \in DOMAIN l /\ l[p + 1] \in Tokens \ {"EOF"}
  BY <1>1, <1>2
<1>8. tokens \in [0..Len(l) -> Tokens]
  BY <1>1, <1>5, <1>6, <1>7
<1>9. \A p \in Nat : Token(p) = IF p < Len(l) THEN l[p + 1] ELSE "EOF"
  BY <1>1, <1>5 DEF Token
<1> QED
  BY <1>1, <1>7, <1>8, <1>9

LEMMA TextArray ==
    ASSUME NEW l, Text(l)
    PROVE  ArrayOK(Len(l))
<1>1. Len(l) \in 0..(MaxTokens - 1) /\ Len(l) \in Nat
  BY Depths, LimitsAssumption DEF Text
<1>2. tokens[Len(l)] = "EOF" /\ \A p \in 0..(Len(l) - 1) : tokens[p] # "EOF"
  <2>1. \A p \in 0..Len(l) : tokens[p] = Token(p)
    BY TextTokens DEF Token
  <2> QED
    BY <1>1, <2>1, TextTokens
<1> QED
  BY <1>1, <1>2, TextTokens DEF ArrayOK

LEMMA TextTypes ==
    ASSUME NEW l, Text(l), NEW p \in Nat
    PROVE  /\ Type(p) = "EOF" <=> p >= Len(l)
           /\ p < Len(l) => \A k \in TokenType \ {"EOF", "IDENT"} : Type(p) = k <=> l[p + 1] = k
<1>1. Len(l) \in Nat /\ ArrayOK(Len(l))
  BY TextTokens, TextArray
<1>2. Token(p) = IF p < Len(l) THEN l[p + 1] ELSE "EOF"
  BY TextTokens
<1>3. p < Len(l) => l[p + 1] \in Tokens \ {"EOF"}
  BY <1>1, TextTokens
<1>4. Type(p) = "EOF" <=> p >= Len(l)
  BY <1>1, <1>2, <1>3, TokenTypes
<1>5. \A k \in TokenType \ {"EOF", "IDENT"} : Type(p) = k <=> Token(p) = k
  <2>1. /\ Token(p) \in TokenType => Type(p) = Token(p)
        /\ Type(p) = (IF Token(p) \in Names THEN "IDENT" ELSE Token(p))
    BY <1>1, TokenTypes DEF Type
  <2> QED
    BY <2>1
<1> QED
  BY <1>2, <1>4, <1>5

\* Where the engine gets to from p, and what it can see there.
LEMMA NewlinesSkipped ==
    ASSUME NEW l, Text(l), NEW p \in 0..Len(l)
    PROVE  /\ SkipNewlines(p) \in 0..Len(l) /\ Inside(l, p, SkipNewlines(p))
           /\ BraceNext(l, p) <=> Type(SkipNewlines(p)) = "RBRACE"
           /\ BraceNext(l, SkipNewlines(p)) <=> BraceNext(l, p)
           /\ Type(p) # "NEWLINE" => SkipNewlines(p) = p
<1> DEFINE q == SkipNewlines(p)
           n == Len(l)
<1>1. n \in Nat /\ p \in Nat /\ ArrayOK(n) /\ TextOK(l)
  BY TextTokens, TextArray DEF Text
<1>2. /\ q \in p..(IF p < n THEN n ELSE p)
      /\ \A r \in p..(q - 1) : Token(r) = "NEWLINE"
      /\ Token(q) # "NEWLINE"
  BY <1>1, SkipNewlinesProperties
<1> HIDE DEF q
<1>3. q \in p..n /\ q \in Nat
  BY <1>1, <1>2
<1>4. \A r \in p..(q - 1) : r + 1 \in 1..n /\ l[r + 1] = "NEWLINE"
  <2> TAKE r \in p..(q - 1)
  <2>1. r \in Nat /\ r < n /\ r + 1 \in 1..n /\ Token(r) = "NEWLINE"
    BY <1>1, <1>2, <1>3
  <2>2. Token(r) = l[r + 1]
    BY <2>1, TextTokens
  <2> QED
    BY <2>1, <2>2
<1>5. Inside(l, p, q)
  BY <1>1, <1>3, <1>4, InsidePath
<1>6. q < n => l[q + 1] # "NEWLINE"
  BY <1>2, <1>3, TextTokens
<1>7. Type(q) = "RBRACE" <=> q < n /\ l[q + 1] = "RBRACE"
  BY <1>1, <1>3, TextTypes DEF TokenType
<1>8. \A i \in (p + 1)..q : l[i] = "NEWLINE"
  <2> TAKE i \in (p + 1)..q
  <2>1. i - 1 \in p..(q - 1) /\ (i - 1) + 1 = i
    BY <1>1, <1>3
  <2> QED
    BY <1>4, <2>1
<1>9. ASSUME NEW r \in p..q PROVE BraceNext(l, r) <=> q < n /\ l[q + 1] = "RBRACE"
  <2>1. r \in Nat /\ r <= q /\ p <= r
    BY <1>1, <1>3
  <2>2. ASSUME q < n, l[q + 1] = "RBRACE" PROVE BraceNext(l, r)
    <3>1. q + 1 \in (r + 1)..n
      BY <1>1, <1>3, <2>1, <2>2
    <3>2. \A j \in (r + 1)..((q + 1) - 1) : l[j] = "NEWLINE"
      BY <1>1, <1>3, <1>8, <2>1
    <3> QED
      BY <2>2, <3>1, <3>2 DEF BraceNext
  <2>3. ASSUME NEW i \in (r + 1)..n, l[i] = "RBRACE", \A j \in (r + 1)..(i - 1) : l[j] = "NEWLINE"
        PROVE  q < n /\ l[q + 1] = "RBRACE"
    <3>1. i > q
      BY <1>1, <1>3, <1>8, <2>1, <2>3
    <3>2. q + 1 \in (r + 1)..(i - 1) \/ q + 1 = i
      BY <1>1, <1>3, <2>1, <3>1
    <3>3. q < n
      BY <1>1, <1>3, <3>1
    <3> QED
      BY <1>6, <2>3, <3>2, <3>3
  <2> QED
    BY <2>2, <2>3 DEF BraceNext
<1>10. p \in p..q /\ q \in p..q
  BY <1>1, <1>3
<1>11. Type(p) # "NEWLINE" => q = p
  <2>1. ASSUME q # p PROVE Type(p) = "NEWLINE"
    <3>1. p \in p..(q - 1)
      BY <1>1, <1>3, <2>1
    <3>2. p < n /\ l[p + 1] = "NEWLINE"
      BY <1>1, <1>3, <1>4, <3>1
    <3> QED
      BY <1>1, <3>2, TextTypes DEF TokenType
  <2> QED
    BY <2>1
<1> QED
  BY <1>1, <1>3, <1>5, <1>7, <1>9, <1>10, <1>11 DEF q

\* A token that closes no block, and one that may open one.
LEMMA TokenPassed ==
    ASSUME NEW l, Text(l), NEW p \in 0..Len(l), Type(p) \notin {"EOF", "RBRACE"}
    PROVE  /\ p + 1 \in DOMAIN l /\ p + 1 \in 0..Len(l) /\ Inside(l, p, p + 1)
           /\ Type(p) = "LBRACE" => l[p + 1] = "LBRACE" /\ Opened(l, p + 1) = Opened(l, p) + 1
           /\ Type(p) \in AwaitsOperand => ~BraceNext(l, p + 1)
<1>1. Len(l) \in Nat /\ TextOK(l) /\ DOMAIN l = 1..Len(l)
  BY Depths DEF Text
<1>2. p < Len(l) /\ p \in Nat
  BY <1>1, TextTypes
<1>3. p + 1 \in p..Len(l) /\ p + 1 \in DOMAIN l /\ p \in 0..(Len(l) - 1)
  BY <1>1, <1>2
<1>4. \A k \in TokenType \ {"EOF", "IDENT"} : Type(p) = k <=> l[p + 1] = k
  BY <1>2, TextTypes
<1>5. Inside(l, p, p + 1)
  <2>1. \A r \in p..((p + 1) - 1) : r = p
    BY <1>2
  <2>2. l[p + 1] # "RBRACE"
    BY <1>4 DEF TokenType
  <2> QED
    BY <1>1, <1>3, <2>1, <2>2, InsidePath
<1>6. Type(p) = "LBRACE" => l[p + 1] = "LBRACE" /\ Opened(l, p + 1) = Opened(l, p) + 1
  BY <1>1, <1>3, <1>4, Depths DEF TokenType
<1>7. Type(p) \in AwaitsOperand => l[p + 1] \in AwaitsOperand
  BY <1>4 DEF TokenType, AwaitsOperand
<1>8. Type(p) \in AwaitsOperand => ~BraceNext(l, p + 1)
  BY <1>1, <1>3, <1>7 DEF TextOK, Bracketed
<1> QED
  BY <1>1, <1>3, <1>5, <1>6, <1>8

LEMMA NearestPassed ==
    ASSUME NEW l, Text(l), NEW p \in 0..Len(l), NEW types, {"EOF", "RBRACE"} \subseteq types
    PROVE  Nearest(p, types) \in 0..Len(l) /\ Inside(l, p, Nearest(p, types))
<1>1. Len(l) \in Nat /\ TextOK(l) /\ ArrayOK(Len(l))
  BY Depths, TextArray DEF Text
<1> DEFINE q == Nearest(p, types)
<1>2. q \in p..Len(l) /\ \A r \in p..(q - 1) : Type(r) \notin types
  BY <1>1, NearestProperties
<1> HIDE DEF q
<1>3. ASSUME NEW r \in p..(q - 1) PROVE l[r + 1] # "RBRACE"
  <2>1. r \in Nat /\ r < Len(l) /\ Type(r) # "RBRACE"
    BY <1>1, <1>2
  <2> QED
    BY <2>1, TextTypes DEF TokenType
<1>4. Inside(l, p, q) /\ q \in 0..Len(l)
  BY <1>1, <1>2, <1>3, InsidePath
<1> QED
  BY <1>4 DEF q

\* skip_block ends behind the brace that closes the innermost open block.
LEMMA BlockSkipped ==
    ASSUME NEW l, Text(l), NEW p \in 0..Len(l), Opened(l, p) >= 1
    PROVE  /\ SkipBlock(p) \in p..Len(l) /\ Opened(l, SkipBlock(p)) = Opened(l, p) - 1
           /\ \A r \in p..(SkipBlock(p) - 1) : Opened(l, r) >= Opened(l, p)
<1> DEFINE n == Len(l)
           d == Opened(l, p)
           I == {x \in Nat \X Nat : /\ x[1] \in p..n /\ x[2] = Opened(l, x[1]) - d + 1
                                    /\ \A r \in p..(x[1] - 1) : Opened(l, r) >= d}
<1>1. /\ n \in Nat /\ p \in Nat /\ ArrayOK(n) /\ TextOK(l) /\ d \in Nat /\ d >= 1
      /\ \A r \in 0..n : Opened(l, r) \in Nat
  BY Depths, TextArray DEF Text
<1>2. <<p, 1>> \in I
  BY <1>1
<1>3. ASSUME NEW x \in I, Token(x[1]) # "EOF", x[2] # 0
      PROVE  <<x[1] + 1, DepthBehind(x[1], x[2])>> \in I
  <2> DEFINE q == x[1]
             e == x[2]
  <2>1. /\ q \in p..n /\ q \in Nat /\ e \in Nat /\ e = Opened(l, q) - d + 1 /\ Opened(l, q) \in Nat
        /\ \A r \in p..(q - 1) : Opened(l, r) >= d
    BY <1>1
  <2>2. q < n /\ q \in 0..(n - 1) /\ q + 1 \in p..n
    BY <1>1, <1>3, <2>1, TokenTypes
  <2>3. Token(q) = l[q + 1]
    BY <2>1, <2>2, TextTokens
  <2>4. /\ Token(q) = "LBRACE" => Opened(l, q + 1) = Opened(l, q) + 1
        /\ Token(q) = "RBRACE" => Opened(l, q + 1) = Opened(l, q) - 1
        /\ Token(q) \notin {"LBRACE", "RBRACE"} => Opened(l, q + 1) = Opened(l, q)
    BY <1>1, <2>2, <2>3, Depths
  <2>5. Opened(l, q) >= d /\ e >= 1
    BY <1>1, <1>3, <2>1
  <2>6. \A r \in p..((q + 1) - 1) : Opened(l, r) >= d
    BY <2>1, <2>5
  <2> HIDE DEF q, e, d, I
  <2>7. DepthBehind(q, e) \in Nat /\ DepthBehind(q, e) = Opened(l, q + 1) - d + 1
    BY <1>1, <2>1, <2>4, <2>5 DEF DepthBehind
  <2>8. q + 1 \in Nat
    BY <2>1
  <2>9. <<q + 1, DepthBehind(q, e)>> \in I
    BY <2>2, <2>6, <2>7, <2>8 DEF I
  <2> QED
    BY <2>9 DEF q, e
<1>4. I \in SUBSET (Nat \X Nat)
  OBVIOUS
<1>5. \A x \in I : /\ x[1] \in p..n /\ x[1] \in Nat /\ x[2] = Opened(l, x[1]) - d + 1
                   /\ \A r \in p..(x[1] - 1) : Opened(l, r) >= d
  OBVIOUS
<1> HIDE DEF I, d
<1>6. PICK x \in I : (Token(x[1]) = "EOF" \/ x[2] = 0) /\ SkipBlock(p) = x[1]
  BY <1>1, <1>2, <1>3, <1>4, SkipBlockResult
<1>7. Token(x[1]) = "EOF" => x[1] = n
  <2>1. x[1] \in p..n /\ x[1] \in Nat
    BY <1>5, <1>6
  <2>2. x[1] < n => x[1] \in 0..(n - 1)
    BY <1>1, <2>1
  <2>3. x[1] < n => Token(x[1]) # "EOF"
    BY <2>1, <2>2, TextTokens
  <2> QED
    BY <1>1, <2>1, <2>3
<1>8. Token(x[1]) = "EOF" => Opened(l, x[1]) = 0
  BY <1>1, <1>7, Depths
<1>9. Opened(l, x[1]) = d - 1
  <2>1. x[2] = Opened(l, x[1]) - d + 1 /\ x[2] \in Nat
    BY <1>4, <1>5, <1>6
  <2>2. Opened(l, x[1]) \in Nat
    BY <1>1, <1>5, <1>6
  <2> QED
    BY <1>1, <1>6, <1>8, <2>1, <2>2
<1> QED
  BY <1>5, <1>6, <1>9 DEF d

\* A parameter list has no braces.
LEMMA ParametersPassed ==
    ASSUME NEW l, Text(l), NEW p \in 0..Len(l)
    PROVE  Parameters(p).next \in 0..Len(l) /\ Inside(l, p, Parameters(p).next)
<1> DEFINE n == Len(l)
           J == {q \in 0..n : Inside(l, p, q)}
           I == {x \in Nat \X Seq(Names) : x[1] \in J}
           e == <<>>
<1>1. n \in Nat /\ p \in Nat /\ ArrayOK(n) /\ TextOK(l) /\ e \in Seq(Names)
  BY Depths, TextArray DEF Text
<1>2. p \in J
  BY <1>1, InsideSelf
<1>3. \A q \in J : \A r \in 0..n : Inside(l, q, r) => r \in J
  <2> TAKE q \in J
  <2> TAKE r \in 0..n
  <2>1. q \in Nat /\ Inside(l, p, q)
    BY <1>1
  <2> QED
    BY <1>1, <2>1, InsideInside
<1>4. \A q \in J : SkipNewlines(q) \in J /\ (Type(q) \notin {"EOF", "RBRACE"} => q + 1 \in J)
  <2> TAKE q \in J
  <2>1. q \in 0..n
    OBVIOUS
  <2> HIDE DEF J
  <2>2. SkipNewlines(q) \in 0..n /\ Inside(l, q, SkipNewlines(q))
    BY <2>1, NewlinesSkipped
  <2>3. Type(q) \notin {"EOF", "RBRACE"} => q + 1 \in 0..n /\ Inside(l, q, q + 1)
    BY <2>1, TokenPassed
  <2> QED
    BY <1>3, <2>2, <2>3
<1>5. J \subseteq 0..n
  OBVIOUS
<1>6. <<p, <<>>>> \in I
  <2> HIDE DEF e, J
  <2>1. <<p, e>> \in I
    BY <1>1, <1>2
  <2> QED
    BY <2>1 DEF e
<1>7. ASSUME NEW x \in I
      PROVE  /\ x[2] \in Seq(Names) /\ ParameterAt(x[1]) \in J
             /\ Type(ParameterAt(x[1])) = "IDENT" =>
                   BehindParameter(x[1]) \in J /\ Token(ParameterAt(x[1])) \in Names
  <2>1. x[1] \in J /\ x[2] \in Seq(Names)
    OBVIOUS
  <2> HIDE DEF I, J
  <2>2. ParameterAt(x[1]) \in J
    BY <1>4, <2>1 DEF ParameterAt
  <2> DEFINE i == ParameterAt(x[1])
  <2>3. BehindParameter(x[1]) = SkipNewlines(i + 1) /\ i \in J
    BY <2>2 DEF BehindParameter
  <2> HIDE DEF i
  <2>4. Type(i) = "IDENT" => i + 1 \in J
    BY <1>4, <2>3
  <2>5. Type(i) = "IDENT" => SkipNewlines(i + 1) \in J
    BY <1>4, <2>4
  <2>6. Type(i) = "IDENT" => Token(i) \in Names
    BY <1>1, <1>5, <2>3, TokenTypes
  <2> QED
    BY <2>1, <2>2, <2>3, <2>5, <2>6 DEF i
<1>8. ASSUME NEW x \in I, AnotherParameter(x)
      PROVE  <<BehindParameter(x[1]) + 1, Append(x[2], Token(ParameterAt(x[1])))>> \in I
  <2> DEFINE c == BehindParameter(x[1])
  <2>1. c \in J /\ Type(c) = "COMMA" /\ Append(x[2], Token(ParameterAt(x[1]))) \in Seq(Names)
    BY <1>7, <1>8 DEF AnotherParameter
  <2> HIDE DEF J, c
  <2>2. c + 1 \in J
    BY <1>4, <2>1
  <2>3. c + 1 \in Nat
    <3>1. c + 1 \in 0..n
      BY <1>5, <2>2
    <3> QED
      BY <1>1, <3>1
  <2> QED
    BY <2>1, <2>2, <2>3 DEF c
<1>9. I \in SUBSET (Nat \X Seq(Names))
  OBVIOUS
<1> HIDE DEF I
<1>10. PICK x \in I : ~AnotherParameter(x) /\ Parameters(p) = ParametersRead(x)
  BY <1>1, <1>6, <1>8, <1>9, ParametersResult
<1>11. ParametersRead(x).next \in J
  <2>1. CASE Type(ParameterAt(x[1])) # "IDENT"
    BY <1>7, <2>1 DEF ParametersRead
  <2>2. CASE Type(ParameterAt(x[1])) = "IDENT"
    <3>1. BehindParameter(x[1]) \in J
      BY <1>7, <2>2
    <3> HIDE DEF J
    <3>2. ParametersRead(x).next = BehindParameter(x[1])
      BY <2>2 DEF ParametersRead
    <3> QED
      BY <3>1, <3>2
  <2> QED
    BY <2>1, <2>2
<1> QED
  BY <1>10, <1>11

-----------------------------------------------------------------------------
(* The blocks around the running code.  The positions that the waiting       *)
(* activations will go on at lie in all the blocks that were open when they   *)
(* began to wait; a call is the end of what a jump can leave.                 *)
Within(l, S, p) == p \in 0..Len(l) /\ \A b \in S : Inside(l, b, p)

\* A block that starts at p, in those that start at S.
BlockIn(l, p, S) ==
    /\ p \in DOMAIN l /\ l[p] = "LBRACE"
    /\ Within(l, S, p) /\ \A b \in S : Opened(l, b) < Opened(l, p)

\* The j-th frame of s is a block of the call that its frames behind i are in.
Open(s, i, j) ==
    j > i /\ s[j].k = "block" /\ \A m \in (i + 1)..(j - 1) : s[m].k # "call"

\* The start of each block that is open behind the first i frames of s.
Around(s, i) == {s[j].start : j \in {j \in 1..Len(s) : Open(s, i, j)}}

Placed(l, f, S) ==
    /\ f.k = "block" => BlockIn(l, f.start, S)
    /\ f.k = "call" => Within(l, S, f.back)
    /\ f.k = "while" => Within(l, S, f.cond) /\ ~BraceNext(l, f.cond)
    /\ f.k \in LoopKinds => f.body = 0 \/ BlockIn(l, f.body, S)
    /\ f.k = "card" => f.paren

\* The block on a call is the body of the function, among those of F; a loop
\* that runs has found its body.
StartsBody(F, f, g) ==
    f.k = "block" => /\ g.k = "call" => f.start = F[g.fn].start
                     /\ g.k \in LoopKinds => g.body # 0

Nested(l, F, s) ==
    /\ \A i \in 1..Len(s) : Placed(l, s[i], Around(s, i))
    /\ \A i \in 1..(Len(s) - 1) : StartsBody(F, s[i], s[i + 1])

LEMMA WithinMoves ==
    ASSUME NEW l, TextOK(l), NEW S \in SUBSET Nat, NEW p, Within(l, S, p), NEW q, Inside(l, p, q)
    PROVE  Within(l, S, q)
<1>1. Len(l) \in Nat /\ p \in 0..Len(l)
  BY Depths DEF Within
<1>2. q \in 0..Len(l) /\ p \in Nat
  BY <1>1 DEF Inside
<1>3. ASSUME NEW b \in S PROVE Inside(l, b, q)
  <2>1. Inside(l, b, p) /\ b \in Nat
    BY DEF Within
  <2> QED
    BY <1>2, <2>1, InsideInside
<1> QED
  BY <1>2, <1>3 DEF Within

\* Where the engine gets to without leaving a block.
LEMMA Reached ==
    ASSUME NEW l, Text(l), NEW S \in SUBSET Nat, NEW p, Within(l, S, p)
    PROVE  /\ p \in 0..Len(l) /\ Within(l, S, SkipNewlines(p)) /\ Within(l, S, Closed(p))
           /\ Type(p) \notin {"EOF", "RBRACE"} => Within(l, S, p + 1)
           /\ Type(p) = "LBRACE" => BlockIn(l, p + 1, S)
           /\ \A types : {"EOF", "RBRACE"} \subseteq types => Within(l, S, Nearest(p, types))
           /\ Within(l, S, Parameters(p).next)
<1>1. p \in 0..Len(l) /\ TextOK(l)
  BY DEF Within, Text
<1>2. Within(l, S, SkipNewlines(p))
  BY <1>1, NewlinesSkipped, WithinMoves
<1>3. Type(p) \notin {"EOF", "RBRACE"} => Within(l, S, p + 1)
  BY <1>1, TokenPassed, WithinMoves
<1>4. Within(l, S, Closed(p))
  BY <1>3 DEF Closed
<1>5. ASSUME NEW types, {"EOF", "RBRACE"} \subseteq types
      PROVE  Within(l, S, Nearest(p, types))
  BY <1>1, <1>5, NearestPassed, WithinMoves
<1>6. Within(l, S, Parameters(p).next)
  BY <1>1, ParametersPassed, WithinMoves
<1>7. ASSUME Type(p) = "LBRACE" PROVE BlockIn(l, p + 1, S)
  <2>1. /\ p + 1 \in DOMAIN l /\ p + 1 \in 0..Len(l) /\ l[p + 1] = "LBRACE"
        /\ Opened(l, p + 1) = Opened(l, p) + 1
    BY <1>1, <1>7, TokenPassed
  <2>2. ASSUME NEW b \in S PROVE Opened(l, b) < Opened(l, p + 1)
    <3>1. Inside(l, b, p) /\ Len(l) \in Nat /\ \A r \in 0..Len(l) : Opened(l, r) \in Nat
      BY Depths, <1>1 DEF Within
    <3>2. b \in Nat /\ p \in b..Len(l) /\ p \in b..p /\ b \in 0..Len(l)
      BY <1>1, <3>1 DEF Inside
    <3>3. Opened(l, p) >= Opened(l, b) /\ Opened(l, b) \in Nat /\ Opened(l, p) \in Nat
      BY <1>1, <3>1, <3>2 DEF Inside
    <3> QED
      BY <2>1, <3>3
  <2> QED
    BY <1>3, <1>7, <2>1, <2>2 DEF BlockIn
<1> QED
  BY <1>1, <1>2, <1>3, <1>4, <1>5, <1>6, <1>7

\* Behind the innermost of the blocks around.
LEMMA BlockPassed ==
    ASSUME NEW l, Text(l), NEW S \in SUBSET Nat, NEW b, BlockIn(l, b, S), NEW p, Inside(l, b, p)
    PROVE  /\ Within(l, S, SkipBlock(p)) /\ Type(p) # "EOF"
           /\ Type(p) = "RBRACE" => Within(l, S, p + 1)
<1>1. /\ TextOK(l) /\ Len(l) \in Nat /\ DOMAIN l = 1..Len(l)
      /\ \A r \in 0..Len(l) : Opened(l, r) \in Nat
  BY Depths DEF Text
<1>2. b \in 1..Len(l) /\ TextOK(l) /\ Len(l) \in Nat /\ l[b] = "LBRACE"
  BY <1>1 DEF BlockIn
<1>3. Opened(l, b) >= 1
  <2>1. b - 1 \in 0..(Len(l) - 1) /\ b - 1 \in 0..Len(l) /\ (b - 1) + 1 = b
    BY <1>2
  <2>2. Opened(l, (b - 1) + 1) = Opened(l, b - 1) + 1 /\ Opened(l, b - 1) \in Nat
    BY <1>1, <1>2, <2>1, Depths
  <2> QED
    BY <2>1, <2>2
<1>4. p \in b..Len(l) /\ p \in 0..Len(l) /\ p \in b..p /\ b \in 0..Len(l)
  BY <1>2 DEF Inside
<1>5. Opened(l, p) >= Opened(l, b) /\ Opened(l, p) \in Nat /\ Opened(l, b) \in Nat
  BY <1>1, <1>4 DEF Inside
<1>6. Opened(l, p) >= 1
  BY <1>3, <1>5
\* Any position with one block fewer, behind positions in the block.
<1>7. ASSUME NEW q \in p..Len(l), Opened(l, q) >= Opened(l, p) - 1,
             \A r \in p..(q - 1) : Opened(l, r) >= Opened(l, p)
      PROVE  Within(l, S, q)
  <2>1. q \in 0..Len(l) /\ q \in Nat /\ p \in Nat /\ p <= q
    BY <1>2, <1>4
  <2>2. ASSUME NEW a \in S PROVE Inside(l, a, q)
    <3>1. Inside(l, a, b) /\ Opened(l, a) < Opened(l, b) /\ a \in Nat
      BY DEF BlockIn, Within
    <3>2. Inside(l, a, p)
      BY <1>2, <1>4, <3>1, InsideInside
    <3>3. p \in a..Len(l) /\ a \in 0..Len(l) /\ q \in a..Len(l)
      BY <1>2, <1>4, <2>1, <3>1, <3>2 DEF Inside
    <3>4. Opened(l, a) \in Nat
      BY <1>1, <3>3
    <3>5. ASSUME NEW r \in a..q PROVE Opened(l, r) >= Opened(l, a)
      <4>0. r \in Nat /\ Opened(l, r) \in Nat
        BY <1>1, <1>2, <3>3
      <4>1. CASE r <= p
        <5>1. r \in a..p
          BY <3>3, <4>1, <4>0
        <5> QED
          BY <3>2, <5>1 DEF Inside
      <4>2. CASE p < r /\ r < q
        <5>1. r \in p..(q - 1)
          BY <2>1, <4>0, <4>2
        <5> QED
          BY <1>5, <1>7, <3>1, <3>4, <4>0, <5>1
      <4>3. CASE r = q
        BY <1>5, <1>7, <3>1, <3>4, <4>0, <4>3
      <4> QED
        BY <2>1, <3>3, <4>0, <4>1, <4>2, <4>3
    <3> QED
      BY <3>3, <3>5 DEF Inside
  <2> QED
    BY <2>1, <2>2 DEF Within
<1>8. Within(l, S, SkipBlock(p))
  <2>1. /\ SkipBlock(p) \in p..Len(l) /\ Opened(l, SkipBlock(p)) = Opened(l, p) - 1
        /\ \A r \in p..(SkipBlock(p) - 1) : Opened(l, r) >= Opened(l, p)
    BY <1>4, <1>6, BlockSkipped
  <2>2. Opened(l, SkipBlock(p)) >= Opened(l, p) - 1
    BY <1>5, <2>1
  <2> QED
    BY <1>7, <2>1, <2>2
<1>9. Type(p) # "EOF" /\ p < Len(l)
  <2>1. p # Len(l)
    BY <1>2, <1>6, Depths
  <2> QED
    BY <1>2, <1>4, <2>1, TextTypes
<1>10. ASSUME Type(p) = "RBRACE" PROVE Within(l, S, p + 1)
  <2>1. p \in Nat /\ p \in 0..(Len(l) - 1) /\ p + 1 \in p..Len(l)
    BY <1>2, <1>4, <1>9
  <2>2. l[p + 1] = "RBRACE"
    BY <1>9, <1>10, <2>1, TextTypes DEF TokenType
  <2>3. Opened(l, p + 1) = Opened(l, p) - 1
    BY <1>2, <2>1, <2>2, Depths
  <2>4. \A r \in p..((p + 1) - 1) : r = p
    BY <2>1
  <2> QED
    BY <1>5, <1>7, <2>1, <2>3, <2>4
<1> QED
  BY <1>8, <1>9, <1>10

\* The cursor is in the blocks around; only outside of all blocks can an
\* operand or a statement be missing before a closing brace.
CursorIn(l, p, a, s) ==
    /\ Within(l, Around(s, 0), p)
    /\ a \in {"stmt", "primary"} /\ BraceNext(l, p) => Around(s, 0) = {}
    /\ a = "loop" /\ BraceNext(l, p) => s = <<>> \/ l[p + 1] = "RBRACE"
    /\ a \in {"flow", "iter"} /\ s # <<>> => (Head(s).k \in LoopKinds => Head(s).body # 0)

LEMMA AroundPushed ==
    ASSUME NEW A, NEW s \in Seq(A), NEW f \in A, NEW t, t = <<f>> \o s
    PROVE  /\ Around(t, 0) = (CASE f.k = "call" -> {}
                                [] f.k = "block" -> {f.start} \cup Around(s, 0)
                                [] OTHER -> Around(s, 0))
           /\ \A i \in Nat : Around(t, i + 1) = Around(s, i)
<1>1. /\ Len(s) \in Nat /\ Len(t) = Len(s) + 1 /\ t[1] = f
      /\ \A j \in 1..Len(s) : t[j + 1] = s[j]
  OBVIOUS
<1>2. ASSUME NEW i \in Nat, NEW j \in 1..Len(s)
      PROVE  Open(t, i + 1, j + 1) <=> Open(s, i, j)
  <2>1. t[j + 1] = s[j] /\ j \in Nat
    BY <1>1
  <2>2. ASSUME \A m \in (i + 1)..(j - 1) : s[m].k # "call"
        PROVE  \A m \in ((i + 1) + 1)..((j + 1) - 1) : t[m].k # "call"
    <3> TAKE m \in ((i + 1) + 1)..((j + 1) - 1)
    <3>1. m - 1 \in (i + 1)..(j - 1) /\ m - 1 \in 1..Len(s) /\ (m - 1) + 1 = m
      BY <1>1, <2>1
    <3>2. t[(m - 1) + 1] = s[m - 1]
      BY <1>1, <3>1
    <3> QED
      BY <2>2, <3>1, <3>2
  <2>3. ASSUME \A m \in ((i + 1) + 1)..((j + 1) - 1) : t[m].k # "call"
        PROVE  \A m \in (i + 1)..(j - 1) : s[m].k # "call"
    <3> TAKE m \in (i + 1)..(j - 1)
    <3>1. m \in 1..Len(s) /\ m + 1 \in ((i + 1) + 1)..((j + 1) - 1)
      BY <1>1, <2>1
    <3>2. t[m + 1] = s[m]
      BY <1>1, <3>1
    <3> QED
      BY <2>3, <3>1, <3>2
  <2>4. j + 1 > i + 1 <=> j > i
    BY <2>1
  <2> QED
    BY <2>1, <2>2, <2>3, <2>4 DEF Open
<1>3. \A i \in Nat : ~Open(t, i + 1, 1)
  <2>1. \A i \in Nat : ~(1 > i + 1)
    OBVIOUS
  <2> QED
    BY <2>1 DEF Open
<1>4. ASSUME NEW j \in 1..Len(t) PROVE j = 1 \/ (j - 1 \in 1..Len(s) /\ (j - 1) + 1 = j)
  BY <1>1
<1>5. ASSUME NEW i \in Nat PROVE Around(t, i + 1) = Around(s, i)
  <2>1. ASSUME NEW x \in Around(t, i + 1) PROVE x \in Around(s, i)
    <3>1. PICK j \in 1..Len(t) : Open(t, i + 1, j) /\ x = t[j].start
      BY <2>1 DEF Around
    <3>2. j - 1 \in 1..Len(s) /\ (j - 1) + 1 = j
      BY <1>3, <1>4, <3>1
    <3>3. Open(s, i, j - 1)
      BY <1>2, <3>1, <3>2
    <3>4. t[j] = s[j - 1]
      BY <1>1, <3>2
    <3> QED
      BY <3>1, <3>2, <3>3, <3>4 DEF Around
  <2>2. ASSUME NEW x \in Around(s, i) PROVE x \in Around(t, i + 1)
    <3>1. PICK j \in 1..Len(s) : Open(s, i, j) /\ x = s[j].start
      BY <2>2 DEF Around
    <3>2. Open(t, i + 1, j + 1)
      BY <1>2, <3>1
    <3>3. j + 1 \in 1..Len(t) /\ t[j + 1] = s[j]
      BY <1>1
    <3> QED
      BY <3>1, <3>2, <3>3 DEF Around
  <2> QED
    BY <2>1, <2>2
<1>6. ASSUME NEW j \in 1..Len(s)
      PROVE  Open(t, 0, j + 1) <=> f.k # "call" /\ Open(s, 0, j)
  <2>1. Open(t, 0 + 1, j + 1) <=> Open(s, 0, j)
    BY <1>2
  <2>2. Open(t, 0 + 1, j + 1) <=>
           t[j + 1].k = "block" /\ \A m \in 2..j : t[m].k # "call"
    <3>1. (0 + 1) + 1 = 2 /\ (j + 1) - 1 = j /\ j + 1 > 0 + 1
      BY <1>1
    <3> QED
      BY <3>1 DEF Open
  <2>3. Open(t, 0, j + 1) <=>
           t[j + 1].k = "block" /\ \A m \in 1..j : t[m].k # "call"
    <3>1. 0 + 1 = 1 /\ (j + 1) - 1 = j /\ j + 1 > 0
      BY <1>1
    <3> QED
      BY <3>1 DEF Open
  <2>4. (\A m \in 1..j : t[m].k # "call") <=> f.k # "call" /\ \A m \in 2..j : t[m].k # "call"
    <3>1. 1..j = {1} \cup 2..j
      BY <1>1
    <3> QED
      BY <1>1, <3>1
  <2> QED
    BY <2>1, <2>2, <2>3, <2>4
<1>7. Open(t, 0, 1) <=> f.k = "block"
  <2>1. \A m \in (0 + 1)..(1 - 1) : FALSE
    OBVIOUS
  <2> QED
    BY <1>1, <2>1 DEF Open
<1>8. ASSUME NEW x PROVE x \in Around(t, 0) <=> \/ f.k = "block" /\ x = f.start
                                                \/ f.k # "call" /\ x \in Around(s, 0)
  <2>1. ASSUME x \in Around(t, 0)
        PROVE  (f.k = "block" /\ x = f.start) \/ (f.k # "call" /\ x \in Around(s, 0))
    <3>1. PICK j \in 1..Len(t) : Open(t, 0, j) /\ x = t[j].start
      BY <2>1 DEF Around
    <3>2. CASE j = 1
      BY <1>1, <1>7, <3>1, <3>2
    <3>3. CASE j # 1
      <4>1. j - 1 \in 1..Len(s) /\ (j - 1) + 1 = j
        BY <1>4, <3>3
      <4>2. f.k # "call" /\ Open(s, 0, j - 1) /\ t[j] = s[j - 1]
        BY <1>1, <1>6, <3>1, <4>1
      <4> QED
        BY <3>1, <4>1, <4>2 DEF Around
    <3> QED
      BY <3>2, <3>3
  <2>2. ASSUME f.k = "block", x = f.start PROVE x \in Around(t, 0)
    <3>1. 1 \in 1..Len(t)
      BY <1>1
    <3> QED
      BY <1>1, <1>7, <2>2, <3>1 DEF Around
  <2>3. ASSUME f.k # "call", x \in Around(s, 0) PROVE x \in Around(t, 0)
    <3>1. PICK j \in 1..Len(s) : Open(s, 0, j) /\ x = s[j].start
      BY <2>3 DEF Around
    <3>2. j + 1 \in 1..Len(t) /\ Open(t, 0, j + 1) /\ t[j + 1] = s[j]
      BY <1>1, <1>6, <2>3, <3>1
    <3> QED
      BY <3>1, <3>2 DEF Around
  <2> QED
    BY <2>1, <2>2, <2>3
<1>9. Around(t, 0) = (CASE f.k = "call" -> {}
                        [] f.k = "block" -> {f.start} \cup Around(s, 0)
                        [] OTHER -> Around(s, 0))
  <2>1. CASE f.k = "call"
    BY <1>8, <2>1
  <2>2. CASE f.k = "block"
    BY <1>8, <2>2
  <2>3. CASE f.k \notin {"call", "block"}
    BY <1>8, <2>3
  <2> QED
    BY <2>1, <2>2, <2>3
<1> QED
  BY <1>5, <1>9

LEMMA HeadPushed ==
    ASSUME NEW A, NEW s \in Seq(A), s # <<>>
    PROVE  Head(s) \in A /\ Tail(s) \in Seq(A) /\ s = <<Head(s)>> \o Tail(s)
<1> DEFINE t == Tail(s)
           m == Len(t)
           f == Head(s)
           u == <<f>> \o t
<1>1. t \in Seq(A) /\ f \in A /\ \A i \in 1..m : s[i + 1] = t[i]
  BY HeadTailProperties
<1>2. m \in Nat /\ Len(s) = m + 1 /\ s[1] = f
  BY HeadTailProperties, EmptySeq
<1>3. u \in Seq(A) /\ Len(u) = m + 1 /\ u[1] = f /\ \A i \in 1..m : u[i + 1] = t[i]
  BY <1>1
<1> HIDE DEF u, t, m, f
<1>4. \A i \in 1..Len(s) : s[i] = u[i]
  <2> TAKE i \in 1..Len(s)
  <2>1. CASE i = 1
    BY <1>2, <1>3, <2>1
  <2>2. CASE i # 1
    <3>1. i - 1 \in 1..m /\ (i - 1) + 1 = i
      BY <1>2, <2>2
    <3>2. s[(i - 1) + 1] = t[i - 1] /\ u[(i - 1) + 1] = t[i - 1]
      BY <1>1, <1>3, <3>1
    <3> QED
      BY <3>1, <3>2
  <2> QED
    BY <2>1, <2>2
<1>5. s = u
  BY <1>2, <1>3, <1>4, SeqEqual
<1> QED
  BY <1>1, <1>5 DEF u, t, f

\* A stack is nested if what is below its top is, and the top is placed in it.
LEMMA NestedPushed ==
    ASSUME NEW A, NEW s \in Seq(A), NEW f \in A, NEW t, t = <<f>> \o s, NEW l, NEW F
    PROVE  Nested(l, F, t) <=> /\ Nested(l, F, s) /\ Placed(l, f, Around(s, 0))
                               /\ s # <<>> => StartsBody(F, f, Head(s))
<1>1. /\ Len(s) \in Nat /\ Len(t) = Len(s) + 1 /\ t[1] = f
      /\ \A j \in 1..Len(s) : t[j + 1] = s[j]
      /\ s # <<>> => Len(s) # 0 /\ Head(s) = s[1]
  BY EmptySeq
<1>2. Around(t, 0 + 1) = Around(s, 0) /\ \A i \in 1..Len(s) : Around(t, i + 1) = Around(s, i)
  <2>1. \A i \in Nat : Around(t, i + 1) = Around(s, i)
    BY AroundPushed
  <2>2. 0 \in Nat /\ \A i \in 1..Len(s) : i \in Nat
    BY <1>1
  <2> QED
    BY <2>1, <2>2
<1>3. \A j \in 1..Len(t) : j = 1 \/ (j - 1 \in 1..Len(s) /\ (j - 1) + 1 = j)
  BY <1>1
<1>4. \A j \in 1..Len(s) : j + 1 \in 1..Len(t) /\ j \in 1..(Len(t) - 1)
  BY <1>1
<1>5. \A j \in 1..(Len(s) - 1) : j \in 1..Len(s) /\ j + 1 \in 1..Len(s) /\ j + 1 \in 1..(Len(t) - 1)
  BY <1>1
<1>6. \A j \in 1..(Len(t) - 1) : j = 1 \/ (j - 1 \in 1..(Len(s) - 1) /\ (j - 1) + 1 = j)
  BY <1>1
<1>7. ASSUME Nested(l, F, t)
      PROVE  /\ Nested(l, F, s) /\ Placed(l, f, Around(s, 0))
             /\ s # <<>> => StartsBody(F, f, Head(s))
  <2>1. \A i \in 1..Len(t) : Placed(l, t[i], Around(t, i))
    BY <1>7 DEF Nested
  <2>2. \A i \in 1..(Len(t) - 1) : StartsBody(F, t[i], t[i + 1])
    BY <1>7 DEF Nested
  <2>3. Placed(l, f, Around(s, 0))
    <3>1. 1 \in 1..Len(t) /\ 0 + 1 = 1
      BY <1>1
    <3> QED
      BY <1>1, <1>2, <2>1, <3>1
  <2>4. ASSUME NEW i \in 1..Len(s) PROVE Placed(l, s[i], Around(s, i))
    <3>1. Placed(l, t[i + 1], Around(t, i + 1))
      BY <1>4, <2>1
    <3> QED
      BY <1>1, <1>2, <3>1
  <2>5. ASSUME NEW i \in 1..(Len(s) - 1) PROVE StartsBody(F, s[i], s[i + 1])
    <3>1. StartsBody(F, t[i + 1], t[(i + 1) + 1])
      BY <1>5, <2>2
    <3>2. t[i + 1] = s[i] /\ t[(i + 1) + 1] = s[i + 1]
      BY <1>1, <1>5
    <3> QED
      BY <3>1, <3>2
  <2>6. ASSUME s # <<>> PROVE StartsBody(F, f, Head(s))
    <3>1. 1 \in 1..Len(s) /\ 1 \in 1..(Len(t) - 1)
      BY <1>1, <2>6
    <3>2. StartsBody(F, t[1], t[1 + 1]) /\ t[1 + 1] = s[1]
      BY <1>1, <2>2, <3>1
    <3> QED
      BY <1>1, <2>6, <3>2
  <2> QED
    BY <2>3, <2>4, <2>5, <2>6 DEF Nested
<1>8. ASSUME Nested(l, F, s), Placed(l, f, Around(s, 0)), s # <<>> => StartsBody(F, f, Head(s))
      PROVE  Nested(l, F, t)
  <2>1. \A i \in 1..Len(s) : Placed(l, s[i], Around(s, i))
    BY <1>8 DEF Nested
  <2>2. \A i \in 1..(Len(s) - 1) : StartsBody(F, s[i], s[i + 1])
    BY <1>8 DEF Nested
  <2>3. ASSUME NEW i \in 1..Len(t) PROVE Placed(l, t[i], Around(t, i))
    <3>1. CASE i = 1
      <4>1. Around(t, i) = Around(s, 0) /\ t[i] = f
        BY <1>1, <1>2, <3>1
      <4> QED
        BY <1>8, <4>1
    <3>2. CASE i # 1
      <4>1. i - 1 \in 1..Len(s) /\ (i - 1) + 1 = i
        BY <1>3, <3>2
      <4>2. t[i] = s[i - 1] /\ Around(t, i) = Around(s, i - 1) /\ Placed(l, s[i - 1], Around(s, i - 1))
        BY <1>1, <1>2, <2>1, <4>1
      <4> QED
        BY <4>2
    <3> QED
      BY <3>1, <3>2
  <2>4. ASSUME NEW i \in 1..(Len(t) - 1) PROVE StartsBody(F, t[i], t[i + 1])
    <3>1. CASE i = 1
      <4>1. 1 \in 1..Len(s) /\ s # <<>>
        BY <1>1, <2>4, <3>1, EmptySeq
      <4>2. t[i] = f /\ t[i + 1] = Head(s)
        BY <1>1, <3>1, <4>1
      <4> QED
        BY <1>8, <4>1, <4>2
    <3>2. CASE i # 1
      <4>1. i - 1 \in 1..(Len(s) - 1) /\ (i - 1) + 1 = i
        BY <1>6, <3>2
      <4>2. t[(i - 1) + 1] = s[i - 1] /\ t[((i - 1) + 1) + 1] = s[(i - 1) + 1]
        BY <1>1, <1>5, <4>1
      <4>3. StartsBody(F, s[i - 1], s[(i - 1) + 1])
        BY <2>2, <4>1
      <4> QED
        BY <4>1, <4>2, <4>3
    <3> QED
      BY <3>1, <3>2
  <2> QED
    BY <2>3, <2>4 DEF Nested
<1> QED
  BY <1>7, <1>8

LEMMA AroundPositions ==
    ASSUME NEW A, NEW s \in Seq(A), NEW l, TextOK(l), NEW F, Nested(l, F, s)
    PROVE  \A i : Around(s, i) \in SUBSET Nat
<1> SUFFICES ASSUME NEW i, NEW x \in Around(s, i) PROVE x \in Nat
  OBVIOUS
<1>1. PICK j \in 1..Len(s) : s[j].k = "block" /\ x = s[j].start
  BY DEF Around, Open
<1>2. x \in DOMAIN l
  BY <1>1 DEF Nested, Placed, BlockIn
<1> QED
  BY <1>2, Depths

-----------------------------------------------------------------------------
(* The invariant of a program that is one text whose braces match.  d is a   *)
(* definition whose body ends where the innermost block open at its start     *)
(* does.                                                                      *)
BodyOf(l, d) ==
    /\ d.line = 1 /\ d.start \in DOMAIN l /\ l[d.start] = "LBRACE"
    /\ d.end \in d.start..Len(l) /\ Opened(l, d.end) < Opened(l, d.start)

Contained(l) ==
    /\ Text(l) /\ line = 1
    /\ \A i \in DOMAIN fns : BodyOf(l, fns[i])
    /\ Nested(l, fns, stack)
    /\ CursorIn(l, current, at, stack)

Blocks == Around(stack, 0)

BlocksBelow == Around(Rest, 0)

\* What holds of the cursor and of the activation on top.
LEMMA Standing ==
    ASSUME NEW l, NEW L, Inv(L), Contained(l)
    PROVE  /\ Text(l) /\ TextOK(l) /\ Blocks \in SUBSET Nat
           /\ stack \in Seq(Activation(L, Len(fns))) /\ Nested(l, fns, stack)
           /\ Within(l, Blocks, current) /\ Within(l, Blocks, Here)
           /\ BraceNext(l, Here) <=> BraceNext(l, current)
           /\ BraceNext(l, current) <=> Type(Here) = "RBRACE"
           /\ at \in {"stmt", "primary"} /\ BraceNext(l, current) => Blocks = {}
           /\ stack # <<>> =>
                 /\ Top \in Activation(L, Len(fns)) /\ Rest \in Seq(Activation(L, Len(fns)))
                 /\ Nested(l, fns, Rest) /\ Placed(l, Top, BlocksBelow)
                 /\ BlocksBelow \in SUBSET Nat
                 /\ Rest # <<>> => StartsBody(fns, Top, Head(Rest))
                 /\ Top.k = "block" => Blocks = {Top.start} \cup BlocksBelow
                 /\ Top.k \notin {"block", "call"} => Blocks = BlocksBelow
                 /\ stack = <<Top>> \o Rest
                 /\ at \in {"flow", "iter"} => (Top.k \in LoopKinds => Top.body # 0)
<1> DEFINE A == Activation(L, Len(fns))
<1>1. stack \in Seq(A) /\ Text(l) /\ TextOK(l) /\ Nested(l, fns, stack)
  BY Cursor DEF StackOK, Contained, Text
<1> HIDE DEF A
<1>2. Within(l, Blocks, current) /\ current \in 0..Len(l)
  BY DEF Contained, CursorIn, Within, Blocks
<1>3. Blocks \in SUBSET Nat
  BY <1>1, AroundPositions DEF Blocks
<1>4. Within(l, Blocks, Here)
  BY <1>1, <1>2, <1>3, Reached DEF Here
<1>5. /\ BraceNext(l, Here) <=> BraceNext(l, current)
      /\ BraceNext(l, current) <=> Type(Here) = "RBRACE"
  BY <1>1, <1>2, NewlinesSkipped DEF Here
<1>6. at \in {"stmt", "primary"} /\ BraceNext(l, current) => Blocks = {}
  BY DEF Contained, CursorIn, Blocks
<1>7. ASSUME stack # <<>>
      PROVE  /\ Top \in A /\ Rest \in Seq(A)
             /\ Nested(l, fns, Rest) /\ Placed(l, Top, BlocksBelow)
             /\ BlocksBelow \in SUBSET Nat
             /\ Rest # <<>> => StartsBody(fns, Top, Head(Rest))
             /\ Top.k = "block" => Blocks = {Top.start} \cup BlocksBelow
             /\ Top.k \notin {"block", "call"} => Blocks = BlocksBelow
             /\ stack = <<Top>> \o Rest
             /\ at \in {"flow", "iter"} => (Top.k \in LoopKinds => Top.body # 0)
  <2>1. Top \in A /\ Rest \in Seq(A) /\ stack = <<Top>> \o Rest
    BY <1>1, <1>7, HeadPushed DEF Top, Rest
  <2>2. /\ Nested(l, fns, Rest) /\ Placed(l, Top, BlocksBelow)
        /\ Rest # <<>> => StartsBody(fns, Top, Head(Rest))
    BY <1>1, <2>1, NestedPushed DEF BlocksBelow
  <2>3. Blocks = CASE Top.k = "call" -> {}
                   [] Top.k = "block" -> {Top.start} \cup BlocksBelow
                   [] OTHER -> BlocksBelow
    BY <2>1, AroundPushed DEF Blocks, BlocksBelow
  <2>4. at \in {"flow", "iter"} => (Top.k \in LoopKinds => Top.body # 0)
    BY <1>7 DEF Contained, CursorIn, Top
  <2>5. BlocksBelow \in SUBSET Nat
    BY <1>1, <2>1, <2>2, AroundPositions DEF BlocksBelow
  <2> QED
    BY <2>1, <2>2, <2>3, <2>4, <2>5
<1> QED
  BY <1>1, <1>2, <1>3, <1>4, <1>5, <1>6, <1>7 DEF A

-----------------------------------------------------------------------------
(* How a step leaves the cursor in its blocks. *)

LEMMA StillContained ==
    ASSUME NEW l, Contained(l), UNCHANGED <<programVars, fns>>,
           Nested(l, fns, stack'), CursorIn(l, current', at', stack')
    PROVE  Contained(l)'
<1>1. tokens' = tokens /\ line' = line /\ fns' = fns
  BY DEF programVars
<1>2. Text(l)' /\ line' = 1
  BY <1>1 DEF Contained, Text
<1>3. \A i \in DOMAIN fns' : BodyOf(l, fns'[i])
  BY <1>1 DEF Contained
<1>4. Nested(l, fns', stack')
  BY <1>1
<1> QED
  BY <1>2, <1>3, <1>4 DEF Contained

LEMMA EndStatementContained ==
    ASSUME NEW l, NEW L, Inv(L), Contained(l), stack # <<>>, Top.k \in {"top", "block"},
           NEW p, Within(l, Blocks, p), NEW f, EndStatement(p, f)
    PROVE  Contained(l)'
<1>1. stack' = stack /\ at' = "flow" /\ current' = p /\ UNCHANGED <<programVars, fns>>
  BY DEF EndStatement
<1>2. CursorIn(l, p, "flow", stack)
  BY DEF CursorIn, Blocks, Top, LoopKinds
<1>3. Nested(l, fns, stack)
  BY Standing
<1> QED
  BY <1>1, <1>2, <1>3, StillContained

LEMMA EndFrameContained ==
    ASSUME NEW l, NEW L, Inv(L), Contained(l), stack # <<>>,
           Top.k \in StatementKinds \cup {"block"},
           NEW p, Within(l, BlocksBelow, p), NEW f, NEW v, EndFrame(p, f, v)
    PROVE  Contained(l)'
<1>1. stack' = Rest /\ at' = "flow" /\ current' = p /\ UNCHANGED <<programVars, fns>>
  BY DEF EndFrame
<1>2. Nested(l, fns, Rest) /\ Rest # <<>> /\ Over(Top, Head(Rest)) /\ StartsBody(fns, Top, Head(Rest))
  BY Standing, TopFrame DEF StatementKinds
<1>3. Head(Rest).k \in LoopKinds => Head(Rest).body # 0
  BY <1>2 DEF Over, StartsBody, StatementKinds, LoopKinds
<1>4. CursorIn(l, p, "flow", Rest)
  BY <1>3 DEF CursorIn, BlocksBelow
<1> QED
  BY <1>1, <1>2, <1>4, StillContained

LEMMA YieldContained ==
    ASSUME NEW l, Contained(l), NEW below, Nested(l, fns, below),
           NEW p, Within(l, Around(below, 0), p), NEW v, Yield(p, below, v)
    PROVE  Contained(l)'
<1>1. stack' = below /\ at' = "value" /\ current' = p /\ UNCHANGED <<programVars, fns>>
  BY DEF Yield
<1>2. CursorIn(l, p, "value", below)
  BY DEF CursorIn
<1> QED
  BY <1>1, <1>2, StillContained

\* An activation is pushed.
LEMMA PushContained ==
    ASSUME NEW A, NEW l, NEW F, NEW s \in Seq(A), Nested(l, F, s), NEW f \in A,
           Placed(l, f, Around(s, 0)), f.k = "block" => (s # <<>> => StartsBody(F, f, Head(s)))
    PROVE  /\ <<f>> \o s \in Seq(A) /\ Nested(l, F, <<f>> \o s)
           /\ <<f>> \o s # <<>> /\ Head(<<f>> \o s) = f
           /\ f.k \notin {"block", "call"} => Around(<<f>> \o s, 0) = Around(s, 0)
           /\ f.k = "call" => Around(<<f>> \o s, 0) = {}
           /\ f.k = "block" => Around(<<f>> \o s, 0) = {f.start} \cup Around(s, 0)
<1> DEFINE t == <<f>> \o s
<1>1. t \in Seq(A) /\ t # <<>> /\ Head(t) = f
  OBVIOUS
<1>2. s # <<>> => StartsBody(F, f, Head(s))
  BY DEF StartsBody
<1>3. t = <<f>> \o s
  OBVIOUS
<1> HIDE DEF t
<1>4. Nested(l, F, t)
  BY <1>2, <1>3, NestedPushed
<1>5. Around(t, 0) = (CASE f.k = "call" -> {}
                        [] f.k = "block" -> {f.start} \cup Around(s, 0)
                        [] OTHER -> Around(s, 0))
  BY <1>3, AroundPushed
<1> QED
  BY <1>1, <1>4, <1>5 DEF t

LEMMA EvaluateContained ==
    ASSUME NEW l, NEW L, Inv(L), Contained(l), NEW below \in Seq(Activation(L, Len(fns))),
           Nested(l, fns, below), NEW fr, fr.k \notin {"block", "call"},
           Placed(l, fr, Around(below, 0)),
           NEW p, Within(l, Around(below, 0), p), BraceNext(l, p) => Around(below, 0) = {},
           Evaluate(p, fr, below)
    PROVE  Contained(l)'
<1> DEFINE g == [k |-> "ops", used |-> FALSE]
           A == Activation(L, Len(fns)) \cup {fr, g}
           t == <<fr>> \o below
           S == Around(below, 0)
<1>1. g \in A /\ g.k = "ops" /\ fr \in A /\ below \in Seq(A)
  BY SeqMonotonic
<1>2. stack' = <<g, fr>> \o below /\ at' = "primary" /\ current' = p /\ UNCHANGED <<programVars, fns>>
  BY DEF Evaluate
<1>3. \A T : Placed(l, g, T)
  BY <1>1 DEF Placed, LoopKinds
<1> HIDE DEF A, g
<1>4. t \in Seq(A) /\ Nested(l, fns, t) /\ Around(t, 0) = S
  BY <1>1, PushContained
<1>5. <<g, fr>> \o below = <<g>> \o t
  BY <1>1, PairInFront
<1> HIDE DEF t
<1>6. Nested(l, fns, <<g>> \o t) /\ Around(<<g>> \o t, 0) = S
  BY <1>1, <1>3, <1>4, PushContained
<1>7. CursorIn(l, p, "primary", <<g>> \o t)
  BY <1>6 DEF CursorIn
<1> QED
  BY <1>2, <1>5, <1>6, <1>7, StillContained

\* A block starts that has no statement only if it is closed at once.
LEMMA ExecuteContained ==
    ASSUME NEW l, NEW L, Inv(L), Contained(l), NEW below \in Seq(Activation(L, Len(fns))),
           Nested(l, fns, below), NEW fr, fr.k # "block",
           Placed(l, fr, Around(below, 0)),
           NEW S, S = (IF fr.k = "call" THEN {} ELSE Around(below, 0)),
           NEW p, BlockIn(l, p, S), fr.k = "call" => p = fns[fr.fn].start,
           fr.k \in LoopKinds => fr.body # 0,
           NEW b, Execute(p, fr, below, b)
    PROVE  Contained(l)'
<1> DEFINE g == [k |-> "block", rv |-> b, start |-> p, stmt |-> p]
           A == Activation(L, Len(fns)) \cup {fr, g}
           t == <<fr>> \o below
<1>1. g \in A /\ g.k = "block" /\ g.start = p /\ fr \in A /\ below \in Seq(A)
  BY SeqMonotonic
<1>2. stack' = <<g, fr>> \o below /\ at' = "loop" /\ current' = p /\ UNCHANGED <<programVars, fns>>
  BY DEF Execute
<1> HIDE DEF A, g
<1>3. t \in Seq(A) /\ Nested(l, fns, t) /\ Around(t, 0) = S /\ t # <<>> /\ Head(t) = fr
  BY <1>1, PushContained
<1>4. <<g, fr>> \o below = <<g>> \o t
  BY <1>1, PairInFront
<1> HIDE DEF t
<1>5. Placed(l, g, S) /\ StartsBody(fns, g, fr)
  BY <1>1 DEF Placed, LoopKinds, StartsBody
<1>6. Nested(l, fns, <<g>> \o t) /\ Around(<<g>> \o t, 0) = {p} \cup S /\ Head(<<g>> \o t) = g
  <2>1. Placed(l, g, Around(t, 0)) /\ StartsBody(fns, g, Head(t))
    BY <1>3, <1>5
  <2>2. Around(<<g>> \o t, 0) = {g.start} \cup Around(t, 0)
    BY <1>1, <1>3, <2>1, PushContained
  <2>3. Nested(l, fns, <<g>> \o t) /\ Head(<<g>> \o t) = g
    BY <1>1, <1>3, <2>1, PushContained
  <2> QED
    BY <1>1, <1>3, <2>2, <2>3
<1>7. Within(l, {p} \cup S, p) /\ (BraceNext(l, p) => l[p + 1] = "RBRACE")
  <2>1. TextOK(l) /\ p \in DOMAIN l /\ l[p] = "LBRACE" /\ Within(l, S, p)
    BY DEF BlockIn, Contained, Text
  <2>2. p \in 0..Len(l)
    BY <2>1 DEF Within
  <2>3. Inside(l, p, p)
    BY <2>1, <2>2, InsideSelf
  <2> QED
    BY <2>1, <2>3 DEF Within, TextOK, Bracketed
<1>8. CursorIn(l, p, "loop", <<g>> \o t)
  BY <1>6, <1>7 DEF CursorIn
<1> QED
  BY <1>2, <1>4, <1>6, <1>8, StillContained

\* The activation on top goes on as another one.
LEMMA ContinueContained ==
    ASSUME NEW l, NEW L, Inv(L), Contained(l), stack # <<>>, Top.k \notin {"block", "call"},
           NEW fr, fr.k \notin {"block", "call"}, Placed(l, fr, BlocksBelow), NEW p, Within(l, Blocks, p),
           NEW a \in {"primary", "value", "call", "elifs", "iter"},
           a = "primary" /\ BraceNext(l, p) => Blocks = {},
           a = "iter" => (fr.k \in LoopKinds => fr.body # 0),
           Continue(p, fr, a)
    PROVE  Contained(l)'
<1> DEFINE A == Activation(L, Len(fns)) \cup {fr}
           t == <<fr>> \o Rest
<1>1. stack' = t /\ at' = a /\ current' = p /\ UNCHANGED <<programVars, fns>>
  BY DEF Continue
<1>2. /\ Rest \in Seq(Activation(L, Len(fns))) /\ Nested(l, fns, Rest)
      /\ Blocks = BlocksBelow
  BY Standing
<1>3. Rest \in Seq(A) /\ fr \in A
  BY <1>2, SeqMonotonic
<1> HIDE DEF A
<1>4. Nested(l, fns, t) /\ Around(t, 0) = Blocks /\ Head(t) = fr
  BY <1>2, <1>3, PushContained DEF BlocksBelow
<1> HIDE DEF t
<1>5. CursorIn(l, p, a, t)
  BY <1>4 DEF CursorIn
<1> QED
  BY <1>1, <1>4, <1>5, StillContained

\* What can be reached by stepping over the next tokens.
LEMMA Ahead ==
    ASSUME NEW l, NEW L, Inv(L), Contained(l)
    PROVE  /\ Type(Here) \notin {"EOF", "RBRACE"} =>
                 /\ Within(l, Blocks, Here + 1)
                 /\ Type(Here) \in AwaitsOperand => ~BraceNext(l, Here + 1)
                 /\ Type(Here) = "LBRACE" => BlockIn(l, Here + 1, Blocks)
                 /\ Type(Here + 1) \notin {"EOF", "RBRACE"} =>
                       /\ Within(l, Blocks, Here + 2)
                       /\ Type(Here + 1) \in AwaitsOperand => ~BraceNext(l, Here + 2)
                       /\ Type(Here + 2) \notin {"EOF", "RBRACE"} =>
                             /\ Within(l, Blocks, Here + 3)
                             /\ Type(Here + 2) \in AwaitsOperand => ~BraceNext(l, Here + 3)
           /\ Within(l, Blocks, Closed(current)) /\ Within(l, Blocks, Closed(Here))
<1>1. Text(l) /\ TextOK(l) /\ Blocks \in SUBSET Nat /\ Within(l, Blocks, current) /\ Within(l, Blocks, Here)
  BY Standing
<1>2. ASSUME NEW p, Within(l, Blocks, p), Type(p) \notin {"EOF", "RBRACE"}
      PROVE  Within(l, Blocks, p + 1) /\ (Type(p) \in AwaitsOperand => ~BraceNext(l, p + 1))
  <2>1. Within(l, Blocks, p + 1) /\ p \in 0..Len(l)
    BY <1>1, <1>2, Reached
  <2> QED
    BY <1>1, <1>2, <2>1, TokenPassed
<1>3. Here \in Nat /\ (Here + 1) + 1 = Here + 2 /\ (Here + 2) + 1 = Here + 3
  <2>1. Here \in 0..Len(l)
    BY <1>1, Reached
  <2> QED
    BY <2>1
<1>4. Type(Here) = "LBRACE" => BlockIn(l, Here + 1, Blocks)
  BY <1>1, Reached
<1>5. Within(l, Blocks, Closed(current)) /\ Within(l, Blocks, Closed(Here))
  BY <1>1, Reached
<1> DEFINE h == Here
<1>6. Type(h) \notin {"EOF", "RBRACE"} =>
         Within(l, Blocks, h + 1) /\ (Type(h) \in AwaitsOperand => ~BraceNext(l, h + 1))
  BY <1>1, <1>2
<1>7. Within(l, Blocks, h + 1) /\ Type(h + 1) \notin {"EOF", "RBRACE"} =>
         Within(l, Blocks, h + 2) /\ (Type(h + 1) \in AwaitsOperand => ~BraceNext(l, h + 2))
  BY <1>2, <1>3
<1>8. Within(l, Blocks, h + 2) /\ Type(h + 2) \notin {"EOF", "RBRACE"} =>
         Within(l, Blocks, h + 3) /\ (Type(h + 2) \in AwaitsOperand => ~BraceNext(l, h + 3))
  BY <1>2, <1>3
<1> HIDE DEF h
<1>9. h = Here
  BY DEF h
<1> QED
  BY <1>4, <1>5, <1>6, <1>7, <1>8, <1>9

\* Most activations say nothing about the text.
LEMMA PlacedAnywhere ==
    ASSUME NEW f, f.k \notin {"block", "call", "while", "for", "card"}
    PROVE  \A l, S : Placed(l, f, S)
  BY DEF Placed, LoopKinds

\* Any place does where there is no block around.
LEMMA NoBlocks ==
    ASSUME NEW A, NEW f \in A, f.k # "block"
    PROVE  Around(<<>>, 0) = {} /\ Around(<<f>>, 0) = {}
<1>1. Around(<<>>, 0) = {}
  <2>1. 1..Len(<<>>) = {}
    OBVIOUS
  <2> QED
    BY <2>1 DEF Around
<1>2. Len(<<f>>) = 1 /\ <<f>>[1] = f
  OBVIOUS
<1>3. \A j \in 1..1 : j = 1
  OBVIOUS
<1>4. \A j \in 1..Len(<<f>>) : ~Open(<<f>>, 0, j)
  BY <1>2, <1>3 DEF Open
<1> QED
  BY <1>1, <1>4 DEF Around

LEMMA MainStatementContained ==
    ASSUME NEW l, NEW L, Inv(L), Contained(l), MainStatement
    PROVE  Contained(l)'
<1> DEFINE f == [k |-> "top", rv |-> Repl, start |-> 0, stmt |-> Here]
           A == {f}
<1>1. /\ stack' = <<f>> /\ at' = "stmt" /\ current' = Here /\ UNCHANGED <<programVars, fns>>
      /\ f \in A /\ f.k = "top"
  BY DEF MainStatement
<1>2. Text(l) /\ Within(l, Blocks, Here)
  BY Standing
<1> HIDE DEF f, A
<1>3. Around(<<f>>, 0) = {} /\ Around(<<>>, 0) = {}
  BY <1>1, NoBlocks
<1>4. Nested(l, fns, <<f>>)
  <2>1. Len(<<f>>) = 1 /\ <<f>>[1] = f /\ \A i \in 1..1 : i = 1
    OBVIOUS
  <2>2. \A i \in 1..(1 - 1) : FALSE
    OBVIOUS
  <2> QED
    BY <1>1, <2>1, <2>2, PlacedAnywhere DEF Nested
<1>5. CursorIn(l, Here, "stmt", <<f>>)
  BY <1>2, <1>3 DEF CursorIn, Within
<1> QED
  BY <1>1, <1>4, <1>5, StillContained

LEMMA MainStatementDoneContained ==
    ASSUME NEW l, NEW L, Inv(L), Contained(l), MainStatementDone
    PROVE  Contained(l)'
<1>1. stack # <<>> /\ Top.k = "top"
  BY DEF MainStatementDone, TopIs
<1>2. Rest = <<>>
  BY <1>1, TopFrame
<1>3. stack' = Rest /\ at' = "loop" /\ UNCHANGED <<programVars, fns>>
  BY DEF MainStatementDone
<1>4. Text(l) /\ Within(l, Blocks, Here) /\ Nested(l, fns, Rest)
  BY <1>1, Standing
<1>5. Around(Rest, 0) = {}
  BY <1>1, <1>2, NoBlocks
<1>6. current' \in 0..Len(l)
  <2>1. Here \in 0..Len(l) /\ Len(l) \in Nat
    BY <1>4, TextTokens DEF Within
  <2>2. Type(Here) # "EOF" => Here + 1 \in 0..Len(l)
    <3>1. Here \in Nat
      BY <2>1
    <3>2. Type(Here) # "EOF" => Here < Len(l)
      BY <1>4, <2>1, <3>1, TextTypes
    <3> QED
      BY <2>1, <3>2
  <2> QED
    BY <2>1, <2>2 DEF MainStatementDone
<1>7. CursorIn(l, current', "loop", Rest)
  BY <1>2, <1>5, <1>6 DEF CursorIn, Within
<1> QED
  BY <1>3, <1>4, <1>7, StillContained

LEMMA ExitContained ==
    ASSUME NEW l, NEW L, Inv(L), Contained(l), Exit
    PROVE  Contained(l)'
<1>1. stack' = stack /\ at' = "end" /\ current' = Here /\ UNCHANGED <<programVars, fns>>
  BY DEF Exit
<1>2. Within(l, Blocks, Here) /\ Nested(l, fns, stack)
  BY Standing
<1>3. CursorIn(l, Here, "end", stack)
  BY <1>2 DEF CursorIn, Blocks
<1> QED
  BY <1>1, <1>2, <1>3, StillContained

LEMMA BlockStatementContained ==
    ASSUME NEW l, NEW L, Inv(L), Contained(l), BlockStatement
    PROVE  Contained(l)'
<1>1. /\ at = "loop" /\ stack # <<>> /\ Top.k = "block"
      /\ Type(current) \notin {"RBRACE", "EOF"}
  BY DEF BlockStatement, InBlock, TopIs
<1> DEFINE f == [k |-> "block", rv |-> Top.rv, start |-> Top.start, stmt |-> Here]
           A == Activation(L, Len(fns)) \cup {f}
           t == <<f>> \o Rest
<1>2. Top \in BodyFrames(L)
  BY <1>1, TopFrame, Frames
<1>3. f = [Top EXCEPT !.stmt = Here] /\ f \in A /\ f.k = "block" /\ f.start = Top.start
  BY <1>1, <1>2 DEF BodyFrames
<1>4. stack' = t /\ at' = "stmt" /\ current' = current /\ UNCHANGED <<programVars, fns>>
  BY <1>3 DEF BlockStatement
<1>5. /\ Rest \in Seq(Activation(L, Len(fns))) /\ Nested(l, fns, Rest) /\ Placed(l, Top, BlocksBelow)
      /\ Rest # <<>> => StartsBody(fns, Top, Head(Rest))
      /\ Blocks = {Top.start} \cup BlocksBelow
      /\ Text(l) /\ Within(l, Blocks, current)
  BY <1>1, Standing
<1>6. Rest \in Seq(A)
  BY <1>5, SeqMonotonic
<1> HIDE DEF f, A
<1>7. Placed(l, f, Around(Rest, 0)) /\ (Rest # <<>> => StartsBody(fns, f, Head(Rest)))
  BY <1>1, <1>3, <1>5 DEF Placed, StartsBody, BlocksBelow, LoopKinds
<1>8. Nested(l, fns, t) /\ t # <<>> /\ Around(t, 0) = Blocks
  <2>1. f \in A /\ f.k = "block" /\ Nested(l, fns, Rest)
    BY <1>3, <1>5
  <2>2. Nested(l, fns, t) /\ t # <<>>
    BY <1>6, <1>7, <2>1, PushContained
  <2>3. Around(t, 0) = {f.start} \cup Around(Rest, 0)
    BY <1>6, <1>7, <2>1, PushContained
  <2> QED
    BY <1>3, <1>5, <2>2, <2>3 DEF BlocksBelow
<1> HIDE DEF t
<1>9. ~BraceNext(l, current)
  <2>1. BraceNext(l, current) => l[current + 1] = "RBRACE"
    BY <1>1 DEF Contained, CursorIn
  <2>2. current \in 0..Len(l) /\ Len(l) \in Nat
    BY <1>5, TextTokens DEF Within
  <2>3. current \in Nat /\ current < Len(l)
    BY <1>1, <1>5, <2>2, TextTypes
  <2>4. Type(current) = "RBRACE" <=> l[current + 1] = "RBRACE"
    BY <1>5, <2>3, TextTypes DEF TokenType
  <2> QED
    BY <1>1, <2>1, <2>4
<1>10. CursorIn(l, current, "stmt", t)
  BY <1>5, <1>8, <1>9 DEF CursorIn
<1> QED
  BY <1>4, <1>8, <1>10, StillContained

\* The block on top, and the cursor in it.
LEMMA InTopBlock ==
    ASSUME NEW l, NEW L, Inv(L), Contained(l), stack # <<>>, Top.k = "block"
    PROVE  /\ Type(current) # "EOF" /\ Within(l, BlocksBelow, SkipBlock(current))
           /\ Type(current) = "RBRACE" => Within(l, BlocksBelow, current + 1)
<1>1. /\ Text(l) /\ BlocksBelow \in SUBSET Nat /\ Blocks = {Top.start} \cup BlocksBelow
      /\ Placed(l, Top, BlocksBelow) /\ Within(l, Blocks, current)
  BY Standing
<1>2. BlockIn(l, Top.start, BlocksBelow) /\ Inside(l, Top.start, current)
  BY <1>1 DEF Placed, Within
<1> QED
  BY <1>1, <1>2, BlockPassed

LEMMA BlockEndContained ==
    ASSUME NEW l, NEW L, Inv(L), Contained(l), BlockEnd
    PROVE  Contained(l)'
<1>1. stack # <<>> /\ Top.k = "block" /\ Type(current) \in {"RBRACE", "EOF"}
  BY DEF BlockEnd, InBlock, TopIs
<1>2. Within(l, BlocksBelow, current + 1) /\ Type(current) = "RBRACE"
  BY <1>1, InTopBlock
<1>3. EndFrame(current + 1, "NORMAL", "nil")
  BY <1>2 DEF BlockEnd
<1> QED
  BY <1>1, <1>2, <1>3, EndFrameContained

LEMMA BlockGoesOnContained ==
    ASSUME NEW l, NEW L, Inv(L), Contained(l), BlockGoesOn
    PROVE  Contained(l)'
<1>1. stack # <<>> /\ Top.k = "block" /\ Continue(Here, Top, "loop")
  BY DEF BlockGoesOn, TopIs
<1>2. stack' = <<Top>> \o Rest /\ at' = "loop" /\ current' = Here /\ UNCHANGED <<programVars, fns>>
  BY <1>1 DEF Continue
<1>3. stack = <<Top>> \o Rest /\ Nested(l, fns, stack) /\ Within(l, Blocks, Here) /\ Text(l)
  BY <1>1, Standing
<1>4. BraceNext(l, Here) => l[Here + 1] = "RBRACE"
  <2>1. BraceNext(l, Here) => Type(Here) = "RBRACE"
    BY Standing
  <2>2. Here \in Nat /\ (Type(Here) # "EOF" => Here < Len(l))
    <3>1. Here \in 0..Len(l) /\ Len(l) \in Nat
      BY <1>3, TextTokens DEF Within
    <3> QED
      BY <1>3, <3>1, TextTypes
  <2>3. Type(Here) = "RBRACE" => l[Here + 1] = "RBRACE"
    BY <1>3, <2>2, TextTypes DEF TokenType
  <2> QED
    BY <2>1, <2>3
<1>5. CursorIn(l, Here, "loop", stack)
  BY <1>3, <1>4 DEF CursorIn, Blocks
<1> QED
  BY <1>2, <1>3, <1>5, StillContained

LEMMA BlockLeftContained ==
    ASSUME NEW l, NEW L, Inv(L), Contained(l), BlockLeft
    PROVE  Contained(l)'
<1>1. stack # <<>> /\ Top.k = "block"
  BY DEF BlockLeft, TopIs
<1>2. Within(l, BlocksBelow, SkipBlock(current))
  BY <1>1, InTopBlock
<1> QED
  BY <1>1, <1>2, EndFrameContained DEF BlockLeft

\* eval_expr is called on top of the waiting activations, or for the one on
\* top once more.
LEMMA EvaluatesOnStack ==
    ASSUME NEW l, NEW L, Inv(L), Contained(l), NEW p, Within(l, Blocks, p),
           BraceNext(l, p) => Blocks = {}, NEW fr, fr.k \notin {"block", "call"},
           Placed(l, fr, Blocks), Evaluate(p, fr, stack)
    PROVE  Contained(l)'
<1>1. stack \in Seq(Activation(L, Len(fns))) /\ Nested(l, fns, stack)
  BY Standing
<1> QED
  BY <1>1, EvaluateContained DEF Blocks

LEMMA EvaluatesOnRest ==
    ASSUME NEW l, NEW L, Inv(L), Contained(l), stack # <<>>, Top.k \notin {"block", "call"},
           NEW p, Within(l, Blocks, p), BraceNext(l, p) => Blocks = {},
           NEW fr, fr.k \notin {"block", "call"}, Placed(l, fr, BlocksBelow), Evaluate(p, fr, Rest)
    PROVE  Contained(l)'
<1>1. /\ Rest \in Seq(Activation(L, Len(fns))) /\ Nested(l, fns, Rest)
      /\ Blocks = BlocksBelow
  BY Standing
<1> QED
  BY <1>1, EvaluateContained DEF BlocksBelow

LEMMA PlainStatementContained ==
    ASSUME NEW l, NEW L, Inv(L), Contained(l),
           \/ StatementAtEnd \/ FnWithoutName \/ FnWithoutParameters \/ Break \/ ContinueLoop
    PROVE  Contained(l)'
<1>1. at = "stmt"
  BY DEF StatementAtEnd, FnWithoutName, FnWithoutParameters, Break, ContinueLoop, Statement
<1>2. stack # <<>> /\ Top.k \in {"top", "block"} /\ Within(l, Blocks, Here)
  BY <1>1, AtStatement, Standing
<1>3. PICK p, f : EndStatement(p, f) /\ Within(l, Blocks, p)
  <2>1. CASE StatementAtEnd
    BY <1>2, <2>1 DEF StatementAtEnd, Done
  <2>2. CASE FnWithoutName
    BY <2>2, Ahead DEF FnWithoutName, Fail, Statement
  <2>3. CASE FnWithoutParameters
    BY <2>3, Ahead DEF FnWithoutParameters, Fail, Statement
  <2>4. CASE Break
    BY <2>4, Ahead DEF Break, Done, Statement
  <2>5. CASE ContinueLoop
    BY <2>5, Ahead DEF ContinueLoop, Done, Statement
  <2> QED
    BY <2>1, <2>2, <2>3, <2>4, <2>5
<1> QED
  BY <1>2, <1>3, EndStatementContained

LEMMA ReturnContained ==
    ASSUME NEW l, NEW L, Inv(L), Contained(l), Return
    PROVE  Contained(l)'
<1> DEFINE f == [k |-> "return"]
<1>1. at = "stmt" /\ Type(Here) = "RETURN"
  BY DEF Return, Statement
<1>2. stack # <<>> /\ Top.k \in {"top", "block"} /\ Within(l, Blocks, Here + 1)
  BY <1>1, AtStatement, Ahead
<1>3. \/ /\ Type(Here + 1) \notin {"NEWLINE", "RBRACE", "EOF"}
         /\ Evaluate(Here + 1, f, stack)
      \/ EndStatement(Here + 1, "RETURN")
  BY DEF Return, Done
<1>4. CASE /\ Type(Here + 1) \notin {"NEWLINE", "RBRACE", "EOF"}
           /\ Evaluate(Here + 1, f, stack)
  <2> DEFINE p == Here + 1
  <2>1. Text(l) /\ p \in 0..Len(l) /\ Type(p) \notin {"NEWLINE", "RBRACE", "EOF"}
    BY <1>2, <1>4, Standing DEF Within
  <2> HIDE DEF p
  <2>2. ~BraceNext(l, p)
    BY <2>1, NewlinesSkipped
  <2>3. f.k = "return" /\ \A m, S : Placed(m, f, S)
    BY PlacedAnywhere
  <2> HIDE DEF f
  <2> QED
    BY <1>2, <1>4, <2>2, <2>3, EvaluatesOnStack DEF p
<1>5. CASE EndStatement(Here + 1, "RETURN")
  BY <1>2, <1>5, EndStatementContained
<1> QED
  BY <1>3, <1>4, <1>5

LEMMA PrintListContained ==
    ASSUME NEW l, NEW L, Inv(L), Contained(l), PrintList
    PROVE  Contained(l)'
<1> DEFINE paren == Type(Here + 1) = "LPAREN"
           q == IF paren THEN Here + 2 ELSE Here + 1
           p == SkipNewlines(q)
           f == [k |-> "print", paren |-> paren]
<1>1. at = "stmt" /\ Type(Here) = "PRINT"
  BY DEF PrintList, Statement
<1>2. stack # <<>> /\ Top.k \in {"top", "block"} /\ Text(l) /\ Blocks \in SUBSET Nat
  BY <1>1, AtStatement, Standing
<1>3. Within(l, Blocks, q) /\ ~BraceNext(l, q)
  BY <1>1, Ahead DEF AwaitsOperand
<1>4. \/ Type(p) = "RPAREN" /\ EndStatement(p + 1, "NORMAL")
      \/ Evaluate(p, f, stack)
  BY DEF PrintList, Done
<1>5. f.k = "print" /\ \A m, S : Placed(m, f, S)
  BY PlacedAnywhere
<1> HIDE DEF q, f
<1>6. q \in 0..Len(l) /\ Within(l, Blocks, p)
  BY <1>2, <1>3, Reached
<1>7. ~BraceNext(l, p)
  BY <1>2, <1>3, <1>6, NewlinesSkipped
<1> HIDE DEF p
<1>8. CASE Type(p) = "RPAREN" /\ EndStatement(p + 1, "NORMAL")
  <2>1. Within(l, Blocks, p + 1)
    BY <1>2, <1>6, <1>8, Reached
  <2> QED
    BY <1>2, <1>8, <2>1, EndStatementContained
<1>9. CASE Evaluate(p, f, stack)
  BY <1>5, <1>6, <1>7, <1>9, EvaluatesOnStack
<1> QED
  BY <1>4, <1>8, <1>9

LEMMA CardContained ==
    ASSUME NEW l, NEW L, Inv(L), Contained(l), NEW t \in {"ALERT", "TIMELINE"}, NEW more, Card(t, more)
    PROVE  Contained(l)'
<1> DEFINE f == [k |-> "card", paren |-> TRUE, more |-> more]
<1>1. at = "stmt" /\ Type(Here) = t
  BY DEF Card, Statement
<1>2. Type(Here + 1) = "LPAREN"
  <2>1. Text(l) /\ Here \in 0..Len(l) /\ Len(l) \in Nat
    BY Standing, TextTokens DEF Within
  <2>2. Here \in Nat /\ Here < Len(l) /\ Here + 1 \in DOMAIN l
    BY <1>1, <2>1, TextTypes, TokenPassed
  <2>3. l[Here + 1] = t
    BY <1>1, <2>1, <2>2, TextTypes DEF TokenType
  <2>4. Here + 1 < Len(l) /\ l[(Here + 1) + 1] = "LPAREN"
    BY <2>1, <2>2, <2>3 DEF Text, TextOK, Bracketed
  <2>5. Here + 1 \in Nat
    BY <2>2
  <2> QED
    BY <2>1, <2>4, <2>5, TextTypes DEF TokenType
<1>3. Evaluate(Here + 2, f, stack)
  BY <1>2 DEF Card
<1>4. Within(l, Blocks, Here + 2) /\ ~BraceNext(l, Here + 2)
  BY <1>1, <1>2, Ahead DEF AwaitsOperand
<1>5. f.k = "card" /\ \A m, S : Placed(m, f, S)
  BY DEF Placed, LoopKinds
<1> HIDE DEF f
<1> QED
  BY <1>3, <1>4, <1>5, EvaluatesOnStack

LEMMA LetContained ==
    ASSUME NEW l, NEW L, Inv(L), Contained(l), Let
    PROVE  Contained(l)'
<1> DEFINE f == [k |-> "assign", name |-> Token(Here + 1)]
<1>1. at = "stmt" /\ Type(Here) = "LET"
  BY DEF Let, Statement
<1>2. stack # <<>> /\ Top.k \in {"top", "block"}
  BY <1>1, AtStatement
<1>3. \/ EndStatement(Here + 1, "NORMAL")
      \/ Type(Here + 1) = "IDENT" /\ EndStatement(Here + 2, "NORMAL")
      \/ Type(Here + 1) = "IDENT" /\ Type(Here + 2) = "ASSIGN" /\ Evaluate(Here + 3, f, stack)
  BY DEF Let, Fail
<1>4. f.k = "assign" /\ \A m, S : Placed(m, f, S)
  BY PlacedAnywhere
<1> HIDE DEF f
<1>5. CASE EndStatement(Here + 1, "NORMAL")
  BY <1>1, <1>2, <1>5, Ahead, EndStatementContained
<1>6. CASE Type(Here + 1) = "IDENT" /\ EndStatement(Here + 2, "NORMAL")
  BY <1>1, <1>2, <1>6, Ahead, EndStatementContained
<1>7. CASE Type(Here + 1) = "IDENT" /\ Type(Here + 2) = "ASSIGN" /\ Evaluate(Here + 3, f, stack)
  <2>1. Within(l, Blocks, Here + 3) /\ ~BraceNext(l, Here + 3)
    BY <1>1, <1>7, Ahead DEF AwaitsOperand
  <2> QED
    BY <1>4, <1>7, <2>1, EvaluatesOnStack
<1> QED
  BY <1>3, <1>5, <1>6, <1>7

LEMMA ForContained ==
    ASSUME NEW l, NEW L, Inv(L), Contained(l), For
    PROVE  Contained(l)'
<1> DEFINE f == [k |-> "for", body |-> 0, name |-> Token(Here + 1)]
<1>1. at = "stmt" /\ Type(Here) = "FOR"
  BY DEF For, Statement
<1>2. stack # <<>> /\ Top.k \in {"top", "block"}
  BY <1>1, AtStatement
<1>3. \/ EndStatement(Here + 1, "NORMAL")
      \/ Type(Here + 1) = "IDENT" /\ EndStatement(Here + 2, "NORMAL")
      \/ Type(Here + 1) = "IDENT" /\ Type(Here + 2) = "IN" /\ Evaluate(Here + 3, f, stack)
  BY DEF For, Fail
<1>4. f.k = "for" /\ \A m, S : Placed(m, f, S)
  BY DEF Placed
<1> HIDE DEF f
<1>5. CASE EndStatement(Here + 1, "NORMAL")
  BY <1>1, <1>2, <1>5, Ahead, EndStatementContained
<1>6. CASE Type(Here + 1) = "IDENT" /\ EndStatement(Here + 2, "NORMAL")
  BY <1>1, <1>2, <1>6, Ahead, EndStatementContained
<1>7. CASE Type(Here + 1) = "IDENT" /\ Type(Here + 2) = "IN" /\ Evaluate(Here + 3, f, stack)
  <2>1. Within(l, Blocks, Here + 3) /\ ~BraceNext(l, Here + 3)
    BY <1>1, <1>7, Ahead DEF AwaitsOperand
  <2> QED
    BY <1>4, <1>7, <2>1, EvaluatesOnStack
<1> QED
  BY <1>3, <1>5, <1>6, <1>7

LEMMA ConditionContained ==
    ASSUME NEW l, NEW L, Inv(L), Contained(l), Assign \/ If \/ While \/ ExpressionStatement
    PROVE  Contained(l)'
<1>1. CASE Assign
  <2> DEFINE f == [k |-> "assign", name |-> Token(Here)]
  <2>1. Within(l, Blocks, Here + 2) /\ ~BraceNext(l, Here + 2) /\ Evaluate(Here + 2, f, stack)
    BY <1>1, Ahead DEF Assign, Statement, AwaitsOperand
  <2>2. f.k = "assign" /\ \A m, S : Placed(m, f, S)
    BY PlacedAnywhere
  <2> HIDE DEF f
  <2> QED
    BY <2>1, <2>2, EvaluatesOnStack
<1>2. CASE If
  <2> DEFINE f == [k |-> "if", rv |-> Top.rv]
  <2>1. Within(l, Blocks, Here + 1) /\ ~BraceNext(l, Here + 1) /\ Evaluate(Here + 1, f, stack)
    BY <1>2, Ahead DEF If, Statement, AwaitsOperand
  <2>2. f.k = "if" /\ \A m, S : Placed(m, f, S)
    BY PlacedAnywhere
  <2> HIDE DEF f
  <2> QED
    BY <2>1, <2>2, EvaluatesOnStack
<1>3. CASE While
  <2> DEFINE f == [k |-> "while", cond |-> Here + 1, body |-> 0]
  <2>1. Within(l, Blocks, Here + 1) /\ ~BraceNext(l, Here + 1) /\ Evaluate(Here + 1, f, stack)
    BY <1>3, Ahead DEF While, Statement, AwaitsOperand
  <2>2. f.k = "while" /\ Placed(l, f, Blocks)
    BY <2>1 DEF Placed
  <2> HIDE DEF f
  <2> QED
    BY <2>1, <2>2, EvaluatesOnStack
<1>4. CASE ExpressionStatement
  <2> DEFINE f == [k |-> "expression"]
  <2>1. Within(l, Blocks, Here) /\ Evaluate(Here, f, stack) /\ (BraceNext(l, Here) => Blocks = {})
    BY <1>4, Standing DEF ExpressionStatement
  <2>2. f.k = "expression" /\ \A m, S : Placed(m, f, S)
    BY PlacedAnywhere
  <2> HIDE DEF f
  <2> QED
    BY <2>1, <2>2, EvaluatesOnStack
<1> QED
  BY <1>1, <1>2, <1>3, <1>4

\* Definitions are only added.
LEMMA NestedGrows ==
    ASSUME NEW L, NEW F \in Seq(FnDef(L)), NEW d, NEW G, G = Append(F, d),
           NEW s \in Seq(Activation(L, Len(F))), NEW l, Nested(l, F, s)
    PROVE  Nested(l, G, s)
<1>1. Len(F) \in Nat /\ \A i \in 1..Len(F) : G[i] = F[i]
  OBVIOUS
<1>2. ASSUME NEW i \in 1..(Len(s) - 1) PROVE StartsBody(G, s[i], s[i + 1])
  <2>1. StartsBody(F, s[i], s[i + 1])
    BY DEF Nested
  <2>2. s[i + 1] \in Activation(L, Len(F))
    BY ElementOfSeq
  <2>3. s[i + 1].k = "call" => s[i + 1].fn \in 1..Len(F)
    BY <2>2, Frames DEF CallFrames
  <2> QED
    BY <1>1, <2>1, <2>3 DEF StartsBody
<1> QED
  BY <1>2 DEF Nested

LEMMA FnDefinitionContained ==
    ASSUME NEW l, NEW L, Inv(L), Contained(l), FnDefinition
    PROVE  Contained(l)'
<1> DEFINE ps == Parameters(Here + 3)
           brace == SkipNewlines(ps.next + 1)
           start == brace + 1
           end == SkipBlock(start)
           name == Token(Here + 1)
           d == [name |-> name, params |-> Kept(ps.names, MaxParams),
                 start |-> start, line |-> line, end |-> end]
<1>1. /\ at = "stmt" /\ Type(Here) = "FN" /\ Type(Here + 1) = "IDENT"
      /\ Type(Here + 2) = "LPAREN"
  BY DEF FnDefinition, Statement
<1>2. /\ stack # <<>> /\ Top.k \in {"top", "block"} /\ Text(l) /\ TextOK(l)
      /\ Blocks \in SUBSET Nat /\ line = 1
  BY <1>1, AtStatement, Standing DEF Contained
<1>3. \/ EndStatement(ps.next, "NORMAL")
      \/ Type(ps.next) = "RPAREN" /\ EndStatement(brace, "NORMAL")
      \/ /\ Type(ps.next) = "RPAREN" /\ Type(brace) = "LBRACE"
         /\ current' = end /\ at' = "flow"
         /\ fns' = Append(fns, d) \/ fns' = fns
         /\ UNCHANGED <<programVars, stack>>
  BY DEF FnDefinition, Fail
<1>4. d.start = start /\ d.line = line /\ d.end = end
  OBVIOUS
<1> HIDE DEF d, ps
<1>5. Within(l, Blocks, ps.next)
  <2>1. Within(l, Blocks, Here + 3)
    BY <1>1, Ahead
  <2> QED
    BY <1>2, <2>1, Reached DEF ps
<1>6. Type(ps.next) = "RPAREN" => Within(l, Blocks, brace)
  <2>1. Type(ps.next) = "RPAREN" => Within(l, Blocks, ps.next + 1)
    BY <1>2, <1>5, Reached
  <2> QED
    BY <1>2, <2>1, Reached
<1>7. CASE EndStatement(ps.next, "NORMAL")
  BY <1>2, <1>5, <1>7, EndStatementContained
<1>8. CASE Type(ps.next) = "RPAREN" /\ EndStatement(brace, "NORMAL")
  BY <1>2, <1>6, <1>8, EndStatementContained
<1> HIDE DEF brace
<1>9. CASE /\ Type(ps.next) = "RPAREN" /\ Type(brace) = "LBRACE"
           /\ current' = end /\ at' = "flow"
           /\ fns' = Append(fns, d) \/ fns' = fns
           /\ UNCHANGED <<programVars, stack>>
  <2>1. BlockIn(l, start, Blocks)
    BY <1>2, <1>6, <1>9, Reached
  <2> HIDE DEF start
  <2>2. start \in 0..Len(l) /\ start \in DOMAIN l /\ l[start] = "LBRACE" /\ Inside(l, start, start)
    BY <1>2, <2>1, InsideSelf DEF BlockIn, Within
  <2>3. Within(l, Blocks, end)
    BY <1>2, <2>1, <2>2, BlockPassed
  <2>4. Opened(l, start) >= 1 /\ Opened(l, start) \in Nat
    <3>1. DOMAIN l = 1..Len(l) /\ Len(l) \in Nat
      BY <1>2, Depths
    <3>2. start - 1 \in 0..(Len(l) - 1) /\ start - 1 \in 0..Len(l) /\ (start - 1) + 1 = start
      BY <2>2, <3>1
    <3>3. Opened(l, (start - 1) + 1) = Opened(l, start - 1) + 1 /\ Opened(l, start - 1) \in Nat
      BY <1>2, <2>2, <3>2, Depths
    <3> QED
      BY <3>2, <3>3
  <2>5. end \in start..Len(l) /\ Opened(l, end) < Opened(l, start)
    <3>1. end \in start..Len(l) /\ Opened(l, end) = Opened(l, start) - 1
      BY <1>2, <2>2, <2>4, BlockSkipped
    <3> QED
      BY <2>4, <3>1
  <2>6. BodyOf(l, d)
    BY <1>2, <1>4, <2>2, <2>5 DEF BodyOf
  <2>7. fns \in Seq(FnDef(L)) /\ stack \in Seq(Activation(L, Len(fns))) /\ Nested(l, fns, stack)
    BY Cursor, Standing
  <2>8. \A i \in DOMAIN fns' : BodyOf(l, fns'[i])
    <3> DEFINE S == FnDef(L)
    <3>1. fns \in Seq(S)
      BY <2>7
    <3> HIDE DEF S
    <3>2. DOMAIN fns = 1..Len(fns) /\ Len(fns) \in Nat /\ \A i \in DOMAIN fns : BodyOf(l, fns[i])
      BY <3>1, LenProperties DEF Contained
    <3>3. CASE fns' = fns
      BY <3>2, <3>3
    <3>4. CASE fns' = Append(fns, d)
      <4> DEFINE n == Len(fns)
                 g == Append(fns, d)
      <4>1. DOMAIN g = 1..(n + 1) /\ g[n + 1] = d /\ \A i \in 1..n : g[i] = fns[i]
        BY <3>1
      <4>2. \A i \in 1..(n + 1) : i = n + 1 \/ i \in 1..n
        BY <3>2
      <4> HIDE DEF n, g
      <4>3. \A i \in DOMAIN g : BodyOf(l, g[i])
        BY <2>6, <3>2, <4>1, <4>2 DEF n
      <4> QED
        BY <3>4, <4>3 DEF g
    <3> QED
      BY <1>9, <3>3, <3>4
  <2>9. Nested(l, fns', stack)
    BY <1>9, <2>7, NestedGrows
  <2>10. CursorIn(l, end, "flow", stack)
    BY <1>2, <2>3 DEF CursorIn, Blocks, Top, LoopKinds
  <2>11. /\ tokens' = tokens /\ line' = line /\ current' = end /\ at' = "flow"
         /\ stack' = stack
    BY <1>9 DEF programVars
  <2>12. Text(l)' /\ line' = 1
    BY <1>2, <2>11 DEF Text
  <2>13. Nested(l, fns', stack') /\ CursorIn(l, current', at', stack')
    BY <2>9, <2>10, <2>11
  <2> QED
    BY <2>8, <2>12, <2>13 DEF Contained
<1> QED
  BY <1>3, <1>7, <1>8, <1>9

-----------------------------------------------------------------------------
(* Expressions in their blocks. *)

LEMMA OperandContained ==
    ASSUME NEW l, NEW L, Inv(L), Contained(l), LiteralOperand \/ Group \/ Variable \/ BadOperand
    PROVE  Contained(l)'
<1>1. Nested(l, fns, stack) /\ Text(l) /\ at = "primary"
  BY Standing DEF LiteralOperand, Group, Variable, BadOperand, Operand
<1>2. CASE Group
  <2> DEFINE f == [k |-> "group"]
  <2>1. Within(l, Blocks, Here + 1) /\ ~BraceNext(l, Here + 1) /\ Evaluate(Here + 1, f, stack)
    BY <1>2, Ahead DEF Group, AwaitsOperand
  <2>2. f.k = "group" /\ \A m, S : Placed(m, f, S)
    BY PlacedAnywhere
  <2> HIDE DEF f
  <2> QED
    BY <2>1, <2>2, EvaluatesOnStack
<1>3. CASE LiteralOperand \/ Variable
  <2>1. Within(l, Around(stack, 0), Here + 1)
    BY <1>3, Ahead DEF LiteralOperand, Variable, Blocks
  <2>2. PICK v : Yield(Here + 1, stack, v)
    BY <1>3 DEF LiteralOperand, Variable
  <2> QED
    BY <1>1, <2>1, <2>2, YieldContained
<1>4. CASE BadOperand
  <2> DEFINE p == IF Type(Here) = "EOF" THEN Here ELSE Here + 1
  <2>1. Yield(p, stack, "nil")
    BY <1>4 DEF BadOperand
  <2>2. CASE Type(Here) # "RBRACE"
    <3>1. Within(l, Around(stack, 0), p)
      BY <2>2, Ahead, Standing DEF Blocks
    <3> HIDE DEF p
    <3> QED
      BY <1>1, <2>1, <3>1, YieldContained
  <2>3. CASE Type(Here) = "RBRACE"
    <3>1. Blocks = {}
      BY <1>1, <2>3, Standing
    <3>2. Here \in 0..Len(l) /\ Len(l) \in Nat
      BY <1>1, Standing, TextTokens DEF Within
    <3>3. Here \in Nat /\ Here < Len(l)
      BY <1>1, <2>3, <3>2, TextTypes
    <3>4. Here + 1 \in 0..Len(l) /\ p = Here + 1
      BY <2>3, <3>2, <3>3
    <3>5. Within(l, Around(stack, 0), p)
      BY <3>1, <3>4 DEF Blocks, Within
    <3> HIDE DEF p
    <3> QED
      BY <1>1, <2>1, <3>5, YieldContained
  <2> QED
    BY <2>2, <2>3
<1> QED
  BY <1>2, <1>3, <1>4

\* The expression on top ends.
LEMMA YieldsOnRest ==
    ASSUME NEW l, NEW L, Inv(L), Contained(l), stack # <<>>, Top.k \notin {"block", "call"},
           NEW p, Within(l, Blocks, p), NEW v, Yield(p, Rest, v)
    PROVE  Contained(l)'
<1>1. Nested(l, fns, Rest) /\ Within(l, Around(Rest, 0), p)
  BY Standing DEF BlocksBelow
<1> QED
  BY <1>1, YieldContained

LEMMA OperatorContained ==
    ASSUME NEW l, NEW L, Inv(L), Contained(l), Operator
    PROVE  Contained(l)'
<1>1. stack # <<>> /\ Top.k = "ops"
  BY DEF Operator, TopIs
<1>2. Text(l) /\ Within(l, Blocks, current) /\ Blocks \in SUBSET Nat
  BY Standing
<1>3. CASE Type(current) # "OP"
  <2>1. PICK v : Yield(current, Rest, v)
    BY <1>3 DEF Operator
  <2> QED
    BY <1>1, <1>2, <2>1, YieldsOnRest
<1>4. CASE Type(current) = "OP"
  <2> DEFINE f == [Top EXCEPT !.used = TRUE]
  <2>1. Continue(current + 1, f, "primary")
    BY <1>4 DEF Operator
  <2>2. f.k = "ops"
    <3>1. Top \in OpsFrames
      BY <1>1, TopFrame, Frames
    <3> QED
      BY <1>1, <3>1 DEF OpsFrames
  <2> HIDE DEF f
  <2>3. Placed(l, f, BlocksBelow)
    BY <2>2, PlacedAnywhere
  <2>4. Within(l, Blocks, current + 1) /\ current \in 0..Len(l)
    BY <1>2, <1>4, Reached
  <2>5. ~BraceNext(l, current + 1)
    BY <1>2, <1>4, <2>4, TokenPassed DEF AwaitsOperand
  <2> QED
    BY <1>1, <2>1, <2>2, <2>3, <2>4, <2>5, ContinueContained
<1> QED
  BY <1>3, <1>4

LEMMA GroupEndContained ==
    ASSUME NEW l, NEW L, Inv(L), Contained(l), GroupEnd
    PROVE  Contained(l)'
<1>1. stack # <<>> /\ Top.k = "group" /\ Yield(Closed(current), Rest, val)
  BY DEF GroupEnd, TopIs
<1>2. Within(l, Blocks, Closed(current))
  BY Ahead
<1> QED
  BY <1>1, <1>2, YieldsOnRest

LEMMA UnknownFunctionContained ==
    ASSUME NEW l, NEW L, Inv(L), Contained(l), UnknownFunction
    PROVE  Contained(l)'
<1>1. stack # <<>> /\ Top.k = "args" /\ Yield(Closed(current), Rest, "nil")
  BY DEF UnknownFunction, TopIs
<1>2. Within(l, Blocks, Closed(current))
  BY Ahead
<1> QED
  BY <1>1, <1>2, YieldsOnRest

LEMMA StackOverflowContained ==
    ASSUME NEW l, NEW L, Inv(L), Contained(l), StackOverflow
    PROVE  Contained(l)'
<1>1. stack' = stack /\ current' = current /\ at' = "crash" /\ UNCHANGED <<programVars, fns>>
  BY DEF StackOverflow
<1>2. Nested(l, fns, stack) /\ Within(l, Blocks, current)
  BY Standing
<1>3. CursorIn(l, current, "crash", stack)
  BY <1>2 DEF CursorIn, Blocks
<1> QED
  BY <1>1, <1>2, <1>3, StillContained

LEMMA CallBeginContained ==
    ASSUME NEW l, NEW L, Inv(L), Contained(l), CallBegin
    PROVE  Contained(l)'
<1> DEFINE p == SkipNewlines(Here + 2)
           f == [k |-> "args", name |-> Token(Here), args |-> <<>>]
           A == Activation(L, Len(fns)) \cup {f}
           t == <<f>> \o stack
<1>1. Type(Here) = "IDENT" /\ Type(Here + 1) = "LPAREN"
  BY DEF CallBegin
<1>2. /\ Text(l) /\ Blocks \in SUBSET Nat /\ Nested(l, fns, stack)
      /\ stack \in Seq(Activation(L, Len(fns)))
  BY Standing
<1>3. Within(l, Blocks, Here + 2) /\ ~BraceNext(l, Here + 2)
  BY <1>1, Ahead DEF AwaitsOperand
<1>4. Within(l, Blocks, p) /\ ~BraceNext(l, p)
  <2>1. Here + 2 \in 0..Len(l)
    BY <1>3 DEF Within
  <2> QED
    BY <1>2, <1>3, <2>1, Reached, NewlinesSkipped
<1>5. \/ /\ current' = p /\ stack' = t /\ at' = "call"
         /\ UNCHANGED <<programVars, fns>>
      \/ Evaluate(p, f, stack)
  BY DEF CallBegin
<1>6. f.k = "args" /\ f \in A /\ stack \in Seq(A) /\ \A m, S : Placed(m, f, S)
  BY <1>2, SeqMonotonic, PlacedAnywhere
<1> HIDE DEF p, f, A
<1>7. CASE Evaluate(p, f, stack)
  BY <1>4, <1>6, <1>7, EvaluatesOnStack
<1>8. CASE /\ current' = p /\ stack' = t /\ at' = "call"
           /\ UNCHANGED <<programVars, fns>>
  <2>1. Nested(l, fns, t) /\ Around(t, 0) = Blocks
    BY <1>2, <1>6, PushContained DEF Blocks
  <2> HIDE DEF t
  <2>2. CursorIn(l, p, "call", t)
    BY <1>4, <2>1 DEF CursorIn
  <2> QED
    BY <1>8, <2>1, <2>2, StillContained
<1> QED
  BY <1>5, <1>7, <1>8

LEMMA ArgumentContained ==
    ASSUME NEW l, NEW L, Inv(L), Contained(l), Argument
    PROVE  Contained(l)'
<1> DEFINE f == [Top EXCEPT !.args = Append(@, val)]
           types == TokenType \ {"COMMA", "NEWLINE"}
<1>1. stack # <<>> /\ Top.k = "args"
  BY DEF Argument, TopIs
<1>2. f.k = "args"
  <2>1. Top \in ArgsFrames
    BY <1>1, BelowTop, Frames
  <2> QED
    BY <1>1, <2>1 DEF ArgsFrames
<1>3. \/ Type(Here) = "COMMA" /\ Evaluate(SkipNewlines(Here + 1), f, Rest)
      \/ Continue(Nearest(Here, types), f, "call")
  BY DEF Argument
<1> HIDE DEF f
<1>4. Text(l) /\ Within(l, Blocks, Here) /\ Blocks \in SUBSET Nat
  BY Standing
<1>5. Placed(l, f, BlocksBelow)
  BY <1>2, PlacedAnywhere
<1>6. CASE Type(Here) = "COMMA" /\ Evaluate(SkipNewlines(Here + 1), f, Rest)
  <2>1. Within(l, Blocks, Here + 1) /\ ~BraceNext(l, Here + 1)
    BY <1>6, Ahead DEF AwaitsOperand
  <2>2. Within(l, Blocks, SkipNewlines(Here + 1)) /\ Here + 1 \in 0..Len(l)
    BY <1>4, <2>1, Reached
  <2>3. ~BraceNext(l, SkipNewlines(Here + 1))
    BY <1>4, <2>1, <2>2, NewlinesSkipped
  <2> QED
    BY <1>1, <1>2, <1>5, <1>6, <2>2, <2>3, EvaluatesOnRest
<1>7. CASE Continue(Nearest(Here, types), f, "call")
  <2>1. {"EOF", "RBRACE"} \subseteq types
    BY DEF TokenType
  <2> HIDE DEF types
  <2>2. Within(l, Blocks, Nearest(Here, types))
    BY <1>4, <2>1, Reached
  <2> QED
    BY <1>1, <1>2, <1>5, <1>7, <2>2, ContinueContained
<1> QED
  BY <1>3, <1>6, <1>7

LEMMA CallContained ==
    ASSUME NEW l, NEW L, Inv(L), Contained(l), Call
    PROVE  Contained(l)'
<1> DEFINE i == Callee(Top.name)
           f == [k |-> "call", back |-> Closed(current), fn |-> i]
<1>1. stack # <<>> /\ Top.k = "args" /\ IsFunction(Top.name)
  BY DEF Call, TopIs
<1>2. Execute(fns[i].start, f, Rest, TRUE)
  BY DEF Call
<1>3. i \in DOMAIN fns
  <2>1. i \in 1..Len(fns)
    BY <1>1, CalleeProperties
  <2> DEFINE S == FnDef(L)
  <2>2. fns \in Seq(S)
    BY Cursor
  <2> HIDE DEF S, i
  <2> QED
    BY <2>1, <2>2, LenProperties
<1>4. /\ Rest \in Seq(Activation(L, Len(fns))) /\ Nested(l, fns, Rest) /\ Blocks = BlocksBelow
      /\ Within(l, Blocks, Closed(current)) /\ TextOK(l)
  BY <1>1, Standing, Ahead
<1> HIDE DEF i
<1>5. BodyOf(l, fns[i])
  BY <1>3 DEF Contained
<1>6. BlockIn(l, fns[i].start, {})
  BY <1>4, <1>5, Depths DEF BodyOf, BlockIn, Within
<1>7. f.k = "call" /\ f.fn = i /\ f.k \notin LoopKinds /\ Placed(l, f, Around(Rest, 0))
  BY <1>4 DEF Placed, LoopKinds, BlocksBelow
<1> HIDE DEF f
<1> DEFINE S == {}
<1>8. S = (IF f.k = "call" THEN {} ELSE Around(Rest, 0)) /\ BlockIn(l, fns[i].start, S)
  BY <1>6, <1>7
<1> HIDE DEF S
<1> QED
  BY <1>2, <1>4, <1>7, <1>8, ExecuteContained

LEMMA CallEndContained ==
    ASSUME NEW l, NEW L, Inv(L), Contained(l), CallEnd
    PROVE  Contained(l)'
<1>1. stack # <<>> /\ Top.k = "call"
  BY DEF CallEnd, TopIs
<1>2. PICK v : Yield(Top.back, Rest, v)
  BY DEF CallEnd
<1>3. Nested(l, fns, Rest) /\ Within(l, Around(Rest, 0), Top.back)
  BY <1>1, Standing DEF Placed, BlocksBelow
<1> QED
  BY <1>2, <1>3, YieldContained

-----------------------------------------------------------------------------
(* The waiting statements in their blocks. *)

\* The statement on top ends.
LEMMA EndsOnRest ==
    ASSUME NEW l, NEW L, Inv(L), Contained(l), stack # <<>>, Top.k \in StatementKinds,
           NEW p, Within(l, Blocks, p), NEW f, NEW v, EndFrame(p, f, v)
    PROVE  Contained(l)'
<1>1. Blocks = BlocksBelow
  BY Standing DEF StatementKinds
<1> QED
  BY <1>1, EndFrameContained

\* The statement on top executes a block.
LEMMA ExecutesOnRest ==
    ASSUME NEW l, NEW L, Inv(L), Contained(l), stack # <<>>, Top.k \in StatementKinds,
           NEW fr, fr.k \in StatementKinds, Placed(l, fr, BlocksBelow),
           fr.k \in LoopKinds => fr.body # 0,
           NEW p, BlockIn(l, p, Blocks), NEW b, Execute(p, fr, Rest, b)
    PROVE  Contained(l)'
<1>1. /\ Rest \in Seq(Activation(L, Len(fns))) /\ Nested(l, fns, Rest)
      /\ Blocks = BlocksBelow
  BY Standing DEF StatementKinds
<1>2. fr.k # "block" /\ fr.k # "call"
  BY DEF StatementKinds
<1> DEFINE S == Blocks
<1>3. S = (IF fr.k = "call" THEN {} ELSE Around(Rest, 0)) /\ BlockIn(l, p, S)
  BY <1>1, <1>2 DEF BlocksBelow
<1> HIDE DEF S
<1>4. Placed(l, fr, Around(Rest, 0))
  BY DEF BlocksBelow
<1> QED
  BY <1>1, <1>2, <1>3, <1>4, ExecuteContained

\* Behind a brace at p there is a block, and behind the block the text goes on.
LEMMA BehindBraceIn ==
    ASSUME NEW l, NEW L, Inv(L), Contained(l), NEW p, Within(l, Blocks, p), Type(p) = "LBRACE"
    PROVE  BlockIn(l, p + 1, Blocks) /\ Within(l, Blocks, SkipBlock(p + 1)) /\ p + 1 # 0
<1>1. Text(l) /\ TextOK(l) /\ Blocks \in SUBSET Nat
  BY Standing
<1> DEFINE q == p + 1
<1>2. BlockIn(l, q, Blocks) /\ p \in 0..Len(l)
  BY <1>1, Reached
<1>3. q # 0
  BY <1>2
<1> HIDE DEF q
<1>4. q \in 0..Len(l)
  BY <1>2 DEF BlockIn, Within
<1>5. Inside(l, q, q)
  BY <1>1, <1>4, InsideSelf
<1>6. Within(l, Blocks, SkipBlock(q))
  BY <1>1, <1>2, <1>5, BlockPassed
<1> QED
  BY <1>2, <1>3, <1>6 DEF q

\* The body of the loop on top, once it is found.
LEMMA BodyBehind ==
    ASSUME NEW l, NEW L, Inv(L), Contained(l), stack # <<>>, Top.k \in LoopKinds, Top.body # 0
    PROVE  BlockIn(l, Top.body, Blocks) /\ Within(l, Blocks, SkipBlock(Top.body))
<1>1. /\ Text(l) /\ TextOK(l) /\ Blocks \in SUBSET Nat /\ Placed(l, Top, BlocksBelow)
      /\ Blocks = BlocksBelow
  BY Standing DEF LoopKinds
<1> DEFINE q == Top.body
<1>2. BlockIn(l, q, Blocks)
  BY <1>1 DEF Placed
<1> HIDE DEF q
<1>3. q \in 0..Len(l)
  BY <1>2 DEF BlockIn, Within
<1>4. Inside(l, q, q)
  BY <1>1, <1>3, InsideSelf
<1>5. Within(l, Blocks, SkipBlock(q))
  BY <1>1, <1>2, <1>4, BlockPassed
<1> QED
  BY <1>2, <1>5 DEF q

LEMMA ValueDoneContained ==
    ASSUME NEW l, NEW L, Inv(L), Contained(l),
           ReturnValue \/ ExpressionDone \/ AssignValue \/ NoBlock \/ ElseDone \/ ElifsEnd
    PROVE  Contained(l)'
<1>1. Within(l, Blocks, current) /\ Within(l, Blocks, Here)
  BY Standing
<1>2. PICK p, f, v : EndFrame(p, f, v) /\ Within(l, Blocks, p)
  BY <1>1 DEF ReturnValue, ExpressionDone, AssignValue, NoBlock, ElseDone, ElifsEnd
<1>3. stack # <<>> /\ Top.k \in StatementKinds
  <2>1. CASE ElifsEnd
    BY <2>1, AtChain DEF ElifsEnd, StatementKinds
  <2>2. CASE ReturnValue \/ ExpressionDone \/ AssignValue \/ NoBlock \/ ElseDone
    BY <2>2 DEF ReturnValue, ExpressionDone, AssignValue, NoBlock, ElseDone, TopIs, StatementKinds
  <2> QED
    BY <2>1, <2>2
<1> QED
  BY <1>2, <1>3, EndsOnRest

LEMMA PrintItemContained ==
    ASSUME NEW l, NEW L, Inv(L), Contained(l), PrintItem
    PROVE  Contained(l)'
<1> DEFINE p == SkipNewlines(Here + 1)
           closed == IF Top.paren THEN Closed(Here) ELSE Here
<1>1. stack # <<>> /\ Top.k = "print" /\ Top.k \in StatementKinds
  BY DEF PrintItem, TopIs, StatementKinds
<1>2. \/ EndFrame(closed, "NORMAL", "nil")
      \/ /\ Type(Here) = "COMMA"
         /\ \/ Type(p) = "RPAREN" /\ EndFrame(p + 1, "NORMAL", "nil")
            \/ Evaluate(p, Top, Rest)
  BY DEF PrintItem
<1>3. Text(l) /\ Blocks \in SUBSET Nat /\ Within(l, Blocks, closed)
  BY Standing, Ahead
<1>4. Type(Here) = "COMMA" => Within(l, Blocks, p) /\ ~BraceNext(l, p)
  <2> SUFFICES ASSUME Type(Here) = "COMMA" PROVE Within(l, Blocks, p) /\ ~BraceNext(l, p)
    OBVIOUS
  <2>1. Within(l, Blocks, Here + 1) /\ ~BraceNext(l, Here + 1)
    BY Ahead DEF AwaitsOperand
  <2>2. Here + 1 \in 0..Len(l)
    BY <2>1 DEF Within
  <2> QED
    BY <1>3, <2>1, <2>2, Reached, NewlinesSkipped
<1>5. Type(Here) = "COMMA" /\ Type(p) = "RPAREN" => Within(l, Blocks, p + 1)
  BY <1>3, <1>4, Reached
<1> HIDE DEF p, closed
<1>6. CASE EndFrame(closed, "NORMAL", "nil")
  BY <1>1, <1>3, <1>6, EndsOnRest
<1>7. CASE Type(Here) = "COMMA" /\ Type(p) = "RPAREN" /\ EndFrame(p + 1, "NORMAL", "nil")
  BY <1>1, <1>5, <1>7, EndsOnRest
<1>8. CASE Type(Here) = "COMMA" /\ Evaluate(p, Top, Rest)
  <2>1. Placed(l, Top, BlocksBelow)
    BY <1>1, PlacedAnywhere
  <2> QED
    BY <1>1, <1>4, <1>8, <2>1, EvaluatesOnRest
<1> QED
  BY <1>2, <1>6, <1>7, <1>8

\* A card in parentheses takes an expression only behind a comma.
LEMMA CardItemContained ==
    ASSUME NEW l, NEW L, Inv(L), Contained(l), CardItem
    PROVE  Contained(l)'
<1> DEFINE p == IF Top.more = 0 THEN current ELSE Here
           r == IF Top.paren THEN Closed(p) ELSE p
           f == [Top EXCEPT !.more = @ - 1]
<1>1. stack # <<>> /\ Top.k = "card" /\ Top.k \in StatementKinds
  BY DEF CardItem, TopIs, StatementKinds
<1>2. Top.paren /\ Top \in CardFrames
  <2>1. Placed(l, Top, BlocksBelow)
    BY <1>1, Standing
  <2>2. Top \in CardFrames
    BY <1>1, TopFrame, Frames
  <2> QED
    BY <1>1, <2>1, <2>2 DEF Placed
<1>3. \/ Type(Here) = "COMMA" /\ Evaluate(Here + 1, f, Rest)
      \/ EndFrame(r, "NORMAL", "nil")
  <2>1. Top.more > 0 => Top.more # 0
    BY <1>2 DEF CardFrames
  <2> QED
    BY <1>2, <2>1 DEF CardItem
<1>4. f.k = "card" /\ \A m, S : Placed(m, f, S)
  <2>1. f.k = "card" /\ f.paren
    BY <1>1, <1>2 DEF CardFrames
  <2> HIDE DEF f
  <2> QED
    BY <2>1 DEF Placed, LoopKinds
<1>5. Within(l, Blocks, r)
  BY Standing, Ahead
<1> HIDE DEF f, r
<1>6. CASE Type(Here) = "COMMA" /\ Evaluate(Here + 1, f, Rest)
  <2>1. Within(l, Blocks, Here + 1) /\ ~BraceNext(l, Here + 1)
    BY <1>6, Ahead DEF AwaitsOperand
  <2> QED
    BY <1>1, <1>4, <1>6, <2>1, EvaluatesOnRest
<1>7. CASE EndFrame(r, "NORMAL", "nil")
  BY <1>1, <1>5, <1>7, EndsOnRest
<1> QED
  BY <1>3, <1>6, <1>7

\* The statement on top goes on as a chain of elifs.
LEMMA ContinuesAsChain ==
    ASSUME NEW l, NEW L, Inv(L), Contained(l), stack # <<>>, Top.k \in StatementKinds,
           NEW f, f.k = "elifs", NEW p, Within(l, Blocks, p), Continue(p, f, "elifs")
    PROVE  Contained(l)'
<1>1. Top.k \notin {"block", "call"} /\ f.k \notin {"block", "call"}
  BY DEF StatementKinds
<1>2. Placed(l, f, BlocksBelow)
  BY PlacedAnywhere
<1> QED
  BY <1>1, <1>2, ContinueContained

LEMMA IfConditionContained ==
    ASSUME NEW l, NEW L, Inv(L), Contained(l), IfCondition
    PROVE  Contained(l)'
<1> DEFINE f == [k |-> "elifs", rv |-> Top.rv, taken |-> Truthy(val),
                 flow |-> "NORMAL", val |-> "nil"]
<1>1. stack # <<>> /\ Top.k = "if" /\ Type(Here) = "LBRACE" /\ Top.k \in StatementKinds
  BY DEF IfCondition, TopIs, Brace, StatementKinds
<1>2. \/ Execute(Here + 1, f, Rest, Top.rv)
      \/ Continue(SkipBlock(Here + 1), f, "elifs")
  BY DEF IfCondition
<1>3. f.k = "elifs" /\ f.k \in StatementKinds /\ f.k \notin LoopKinds /\ Placed(l, f, BlocksBelow)
  BY PlacedAnywhere DEF StatementKinds, LoopKinds
<1> HIDE DEF f
<1>4. BlockIn(l, Here + 1, Blocks) /\ Within(l, Blocks, SkipBlock(Here + 1))
  BY <1>1, Standing, BehindBraceIn
<1>5. CASE Execute(Here + 1, f, Rest, Top.rv)
  BY <1>1, <1>3, <1>4, <1>5, ExecutesOnRest
<1>6. CASE Continue(SkipBlock(Here + 1), f, "elifs")
  BY <1>1, <1>3, <1>4, <1>6, ContinuesAsChain
<1> QED
  BY <1>2, <1>5, <1>6

LEMMA BranchDoneContained ==
    ASSUME NEW l, NEW L, Inv(L), Contained(l), BranchDone
    PROVE  Contained(l)'
<1> DEFINE f == [Top EXCEPT !.flow = flow, !.val = val]
<1>1. stack # <<>> /\ Top.k = "elifs" /\ Top.k \in StatementKinds /\ Continue(current, f, "elifs")
  BY DEF BranchDone, TopIs, StatementKinds
<1>2. f.k = "elifs"
  <2>1. Top \in ChainFrames
    BY <1>1, BelowTop, Frames
  <2> QED
    BY <1>1, <2>1 DEF ChainFrames
<1> HIDE DEF f
<1>3. Within(l, Blocks, current)
  BY Standing
<1> QED
  BY <1>1, <1>2, <1>3, ContinuesAsChain

LEMMA ElifContained ==
    ASSUME NEW l, NEW L, Inv(L), Contained(l), Elif
    PROVE  Contained(l)'
<1> DEFINE f == [Top EXCEPT !.k = "elif"]
<1>1. /\ stack # <<>> /\ Top.k = "elifs" /\ Type(Here) = "ELIF" /\ Evaluate(Here + 1, f, Rest)
  BY AtChain DEF Elif
<1>2. f.k = "elif"
  BY <1>1, TopChain
<1> HIDE DEF f
<1>3. Placed(l, f, BlocksBelow)
  BY <1>2, PlacedAnywhere
<1>4. Within(l, Blocks, Here + 1) /\ ~BraceNext(l, Here + 1)
  BY <1>1, Ahead DEF AwaitsOperand
<1> QED
  BY <1>1, <1>2, <1>3, <1>4, EvaluatesOnRest

LEMMA ElifConditionContained ==
    ASSUME NEW l, NEW L, Inv(L), Contained(l), ElifCondition
    PROVE  Contained(l)'
<1> DEFINE f == [Top EXCEPT !.k = "elifs"]
           h == [f EXCEPT !.taken = TRUE]
<1>1. stack # <<>> /\ Top.k = "elif" /\ Top.k \in StatementKinds
  BY DEF ElifCondition, TopIs, StatementKinds
<1>2. \/ EndFrame(Here, Top.flow, Top.val)
      \/ Type(Here) = "LBRACE" /\ Execute(Here + 1, h, Rest, Top.rv)
      \/ Type(Here) = "LBRACE" /\ Continue(SkipBlock(Here + 1), f, "elifs")
  BY DEF ElifCondition, Brace
<1>3. f.k = "elifs" /\ h.k = "elifs"
  BY <1>1, TopChain
<1> HIDE DEF f, h
<1>4. h.k \in StatementKinds /\ h.k \notin LoopKinds /\ Placed(l, h, BlocksBelow)
  BY <1>3, PlacedAnywhere DEF StatementKinds, LoopKinds
<1>5. Within(l, Blocks, Here)
  BY Standing
<1>6. CASE EndFrame(Here, Top.flow, Top.val)
  BY <1>1, <1>5, <1>6, EndsOnRest
<1>7. CASE Type(Here) = "LBRACE" /\ Execute(Here + 1, h, Rest, Top.rv)
  BY <1>1, <1>4, <1>5, <1>7, BehindBraceIn, ExecutesOnRest
<1>8. CASE Type(Here) = "LBRACE" /\ Continue(SkipBlock(Here + 1), f, "elifs")
  BY <1>1, <1>3, <1>5, <1>8, BehindBraceIn, ContinuesAsChain
<1> QED
  BY <1>2, <1>6, <1>7, <1>8

LEMMA ElseContained ==
    ASSUME NEW l, NEW L, Inv(L), Contained(l), Else
    PROVE  Contained(l)'
<1> DEFINE p == SkipNewlines(Here + 1)
           f == [k |-> "else"]
<1>1. stack # <<>> /\ Top.k = "elifs" /\ Top.k \in StatementKinds /\ Type(Here) = "ELSE"
  BY AtChain DEF Else, StatementKinds
<1>2. \/ EndFrame(p, Top.flow, Top.val)
      \/ Type(p) = "LBRACE" /\ EndFrame(SkipBlock(p + 1), Top.flow, Top.val)
      \/ Type(p) = "LBRACE" /\ Execute(p + 1, f, Rest, Top.rv)
  BY DEF Else
<1>3. Within(l, Blocks, p)
  <2>1. Text(l) /\ Blocks \in SUBSET Nat /\ Within(l, Blocks, Here + 1)
    BY <1>1, Standing, Ahead
  <2> QED
    BY <2>1, Reached
<1>4. f.k = "else" /\ f.k \in StatementKinds /\ f.k \notin LoopKinds /\ Placed(l, f, BlocksBelow)
  BY PlacedAnywhere DEF StatementKinds, LoopKinds
<1> HIDE DEF p, f
<1>5. CASE EndFrame(p, Top.flow, Top.val)
  BY <1>1, <1>3, <1>5, EndsOnRest
<1>6. CASE Type(p) = "LBRACE" /\ EndFrame(SkipBlock(p + 1), Top.flow, Top.val)
  BY <1>1, <1>3, <1>6, BehindBraceIn, EndsOnRest
<1>7. CASE Type(p) = "LBRACE" /\ Execute(p + 1, f, Rest, Top.rv)
  BY <1>1, <1>3, <1>4, <1>7, BehindBraceIn, ExecutesOnRest
<1> QED
  BY <1>2, <1>5, <1>6, <1>7

LEMMA WhileConditionContained ==
    ASSUME NEW l, NEW L, Inv(L), Contained(l), WhileCondition
    PROVE  Contained(l)'
<1> DEFINE f == [Top EXCEPT !.body = Body]
<1>1. /\ stack # <<>> /\ Top.k = "while" /\ Top.k \in StatementKinds /\ Top.k \in LoopKinds
      /\ Top.body # 0 \/ Type(Here) = "LBRACE"
      /\ \/ Execute(Body, f, Rest, TRUE)
         \/ EndFrame(SkipBlock(Body), "NORMAL", "nil")
  BY DEF WhileCondition, TopIs, Brace, StatementKinds, LoopKinds
<1>2. BlockIn(l, Body, Blocks) /\ Within(l, Blocks, SkipBlock(Body)) /\ Body # 0
  <2>1. CASE Top.body = 0
    <3>1. Within(l, Blocks, Here) /\ Type(Here) = "LBRACE" /\ Body = Here + 1
      BY <1>1, <2>1, Standing DEF Body
    <3> QED
      BY <3>1, BehindBraceIn
  <2>2. CASE Top.body # 0
    BY <1>1, <2>2, BodyBehind DEF Body
  <2> QED
    BY <2>1, <2>2
<1>3. f.k = "while" /\ f.cond = Top.cond /\ f.body = Body
  <2>1. Top \in WhileFrames(L)
    BY <1>1, BelowTop, Frames
  <2> QED
    BY <1>1, <2>1 DEF WhileFrames
<1> HIDE DEF f
<1>4. Placed(l, f, BlocksBelow)
  <2>1. Placed(l, Top, BlocksBelow) /\ Blocks = BlocksBelow
    BY <1>1, Standing
  <2> QED
    BY <1>1, <1>2, <1>3, <2>1 DEF Placed
<1>5. CASE Execute(Body, f, Rest, TRUE)
  <2>1. f.k \in StatementKinds /\ f.body # 0
    BY <1>2, <1>3 DEF StatementKinds
  <2> QED
    BY <1>1, <1>2, <1>4, <1>5, <2>1, ExecutesOnRest
<1>6. CASE EndFrame(SkipBlock(Body), "NORMAL", "nil")
  BY <1>1, <1>2, <1>6, EndsOnRest
<1> QED
  BY <1>1, <1>5, <1>6

LEMMA WhileAgainContained ==
    ASSUME NEW l, NEW L, Inv(L), Contained(l), WhileAgain
    PROVE  Contained(l)'
<1>1. stack # <<>> /\ Top.k = "while" /\ Evaluate(Top.cond, Top, Rest)
  BY DEF WhileAgain, TopIs
<1>2. Placed(l, Top, BlocksBelow) /\ Blocks = BlocksBelow
  BY <1>1, Standing
<1>3. Within(l, Blocks, Top.cond) /\ ~BraceNext(l, Top.cond)
  BY <1>1, <1>2 DEF Placed
<1> QED
  BY <1>1, <1>2, <1>3, EvaluatesOnRest

LEMMA LoopLeftContained ==
    ASSUME NEW l, NEW L, Inv(L), Contained(l), LoopLeft \/ ForEnd
    PROVE  Contained(l)'
<1>1. /\ stack # <<>> /\ Top.k \in LoopKinds /\ at \in {"flow", "iter"}
      /\ \E f, v : EndFrame(SkipBlock(Top.body), f, v)
  <2>1. CASE LoopLeft
    BY <2>1 DEF LoopLeft
  <2>2. CASE ForEnd
    BY <2>2, AtIteration DEF ForEnd, LoopKinds
  <2> QED
    BY <2>1, <2>2
<1>2. Within(l, Blocks, SkipBlock(Top.body)) /\ Top.k \in StatementKinds
  <2>1. Top.body # 0
    BY <1>1, Standing
  <2> QED
    BY <1>1, <2>1, BodyBehind DEF LoopKinds, StatementKinds
<1> QED
  BY <1>1, <1>2, EndsOnRest

LEMMA ForContinues ==
    ASSUME NEW l, NEW L, Inv(L), Contained(l), ForList \/ ForAgain
    PROVE  Contained(l)'
<1>1. stack # <<>> /\ Top.k = "for"
  BY DEF ForList, ForAgain, TopIs
<1>2. /\ Within(l, Blocks, current) /\ Within(l, Blocks, Here)
      /\ Blocks = BlocksBelow /\ Placed(l, Top, BlocksBelow)
  BY <1>1, Standing
<1>3. CASE ForList
  <2> DEFINE f == [Top EXCEPT !.body = Here + 1]
  <2>1. Type(Here) = "LBRACE" /\ Continue(Here + 1, f, "iter")
    BY <1>3 DEF ForList, Brace
  <2>2. f.k = "for" /\ f.body = Here + 1
    BY <1>1, TopFor DEF ForFrames
  <2> HIDE DEF f
  <2>3. BlockIn(l, Here + 1, Blocks) /\ Here + 1 # 0
    BY <1>2, <2>1, BehindBraceIn
  <2>4. Placed(l, f, BlocksBelow) /\ Within(l, Blocks, Here + 1)
    BY <1>2, <2>2, <2>3 DEF Placed, BlockIn
  <2> QED
    BY <1>1, <2>1, <2>2, <2>3, <2>4, ContinueContained
<1>4. CASE ForAgain
  <2>1. Continue(current, Top, "iter") /\ Top.body # 0
    BY <1>1, <1>4, Standing DEF ForAgain, LoopKinds
  <2> QED
    BY <1>1, <1>2, <2>1, ContinueContained
<1> QED
  BY <1>3, <1>4

LEMMA ForElementContained ==
    ASSUME NEW l, NEW L, Inv(L), Contained(l), ForElement
    PROVE  Contained(l)'
<1>1. /\ at = "iter" /\ stack # <<>> /\ Top.k = "for" /\ Execute(Top.body, Top, Rest, TRUE)
      /\ Top.k \in StatementKinds /\ Top.k \in LoopKinds
  BY AtIteration DEF ForElement, StatementKinds, LoopKinds
<1>2. Top.body # 0 /\ Placed(l, Top, BlocksBelow)
  BY <1>1, Standing
<1>3. BlockIn(l, Top.body, Blocks)
  BY <1>1, <1>2, BodyBehind
<1> QED
  BY <1>1, <1>2, <1>3, ExecutesOnRest

-----------------------------------------------------------------------------
(* A call runs its body. *)

\* The text of the session, whose braces match.
ContainedText == \A l : OneFile /\ l = Lines[1] => Contained(l)

LEMMA InitContained == Init => ContainedText
<1> SUFFICES ASSUME Init, OneFile PROVE Contained(Lines[1])
  BY DEF ContainedText
<1> DEFINE l == Lines[1]
<1>1. /\ session \in DOMAIN Sessions /\ line = 1 /\ tokens = Tokenize(l, <<>>)
      /\ current = 0 /\ fns = <<>> /\ stack = <<>> /\ at = "loop"
  BY DEF Init
<1>2. Text(l)
  <2>1. Lines \in Seq(Seq(Tokens \ {"EOF"})) /\ Lines # <<>>
    BY <1>1, SessionProperties
  <2>2. 1 \in 1..Len(Lines)
    BY <2>1, EmptySeq
  <2>3. l \in Seq(Tokens \ {"EOF"})
    BY <2>1, <2>2, ElementOfSeq
  <2> QED
    BY <1>1, <2>3 DEF Text, TextOK, OneFile
<1> HIDE DEF l
<1>3. \A i \in DOMAIN fns : BodyOf(l, fns[i])
  <2>1. DOMAIN <<>> = {}
    OBVIOUS
  <2> QED
    BY <1>1, <2>1
<1>4. Nested(l, fns, stack)
  <2>1. 1..Len(<<>>) = {} /\ 1..(Len(<<>>) - 1) = {}
    OBVIOUS
  <2> QED
    BY <1>1, <2>1 DEF Nested
<1>5. CursorIn(l, current, at, stack)
  <2>1. Around(<<>>, 0) = {}
    <3> DEFINE f == [k |-> "top"]
    <3>1. f \in {f} /\ f.k # "block"
      OBVIOUS
    <3> QED
      BY <3>1, NoBlocks
  <2>2. 0 \in 0..Len(l)
    BY <1>2, TextTokens
  <2> QED
    BY <1>1, <2>1, <2>2 DEF CursorIn, Within
<1>6. Contained(l)
  BY <1>1, <1>2, <1>3, <1>4, <1>5 DEF Contained
<1> QED
  BY <1>6 DEF l

LEMMA SessionStays == Next => session' = session
<1> SUFFICES ASSUME Next PROVE session' = session
  OBVIOUS
<1>1. CASE Program \/ Block
  BY <1>1 DEF Program, Block, MainStatement, MainStatementDone, NextLine, Exit, BlockStatement,
      BlockEnd, BlockGoesOn, BlockLeft, EndFrame, Continue, programVars
<1>2. CASE StatementStart
  BY <1>2 DEF StatementStart, StatementAtEnd, FnWithoutName, FnWithoutParameters, FnDefinition,
      Return, Break, ContinueLoop, PrintList, Alert, Timeline, Card, Let, Assign, If, While,
      For, ExpressionStatement, Done, Fail, EndStatement, Evaluate, programVars
<1>3. CASE Expression
  BY <1>3 DEF Expression, LiteralOperand, Group, Variable, BadOperand, Operator, GroupEnd,
      CallBegin, Argument, Call, StackOverflow, UnknownFunction, CallEnd,
      Evaluate, Continue, Yield, Execute, programVars
<1>4. CASE StatementGoesOn
  BY <1>4 DEF StatementGoesOn, ReturnValue, ExpressionDone, AssignValue, PrintItem, CardItem,
      NoBlock, IfCondition, BranchDone, Elif, ElifCondition, Else, ElseDone, ElifsEnd,
      WhileCondition, WhileAgain, LoopLeft, ForList, ForElement, ForEnd, ForAgain,
      Evaluate, Continue, EndFrame, Execute, programVars
<1> QED
  BY <1>1, <1>2, <1>3, <1>4 DEF Next

LEMMA NextContained ==
    ASSUME NEW L, Inv(L), NEW l, Contained(l), Len(Lines) = 1, Next
    PROVE  Contained(l)'
<1>1. line = 1
  BY DEF Contained
<1>2. ~NextLine
  BY <1>1 DEF NextLine
<1>3. CASE Program \/ Block
  BY <1>2, <1>3, MainStatementContained, MainStatementDoneContained, ExitContained,
     BlockStatementContained, BlockEndContained, BlockGoesOnContained, BlockLeftContained
     DEF Program, Block
<1>4. CASE StatementStart
  BY <1>4, PlainStatementContained, FnDefinitionContained, ReturnContained, PrintListContained,
     CardContained, LetContained, ForContained, ConditionContained
     DEF StatementStart, Alert, Timeline
<1>5. CASE Expression
  BY <1>5, OperandContained, OperatorContained, GroupEndContained, CallBeginContained,
     ArgumentContained, CallContained, StackOverflowContained, UnknownFunctionContained,
     CallEndContained DEF Expression
<1>6. CASE StatementGoesOn
  BY <1>6, ValueDoneContained, PrintItemContained, CardItemContained, IfConditionContained,
     BranchDoneContained, ElifContained, ElifConditionContained, ElseContained,
     WhileConditionContained, WhileAgainContained, LoopLeftContained, ForContinues,
     ForElementContained DEF StatementGoesOn
<1> QED
  BY <1>3, <1>4, <1>5, <1>6 DEF Next

\* The text of a session does not change.
LEMMA NextContainedText == IInv /\ ContainedText /\ [Next]_vars => ContainedText'
<1> SUFFICES ASSUME IInv, ContainedText, [Next]_vars,
                    NEW l, OneFile', l = Lines'[1]
             PROVE  Contained(l)'
  BY DEF ContainedText
<1>1. PICK L \in 0..(MaxTokens - 1) : Inv(L)
  BY DEF IInv
<1>2. session' = session
  BY SessionStays DEF vars, programVars
<1>3. OneFile /\ l = Lines[1]
  BY <1>2 DEF OneFile, Lines
<1>4. Contained(l) /\ Len(Lines) = 1
  BY <1>3 DEF ContainedText, OneFile
<1>5. CASE Next
  BY <1>1, <1>4, <1>5, NextContained
<1>6. CASE UNCHANGED vars
  BY <1>4, <1>6 DEF Contained, Text, vars, programVars
<1> QED
  BY <1>5, <1>6

\* Where a statement starts, the block of the innermost call that waits is one
\* of the blocks around.
LEMMA BodyAround ==
    ASSUME NEW l, NEW L, Inv(L), Contained(l), at = "stmt",
           NEW i \in CallDepths, \A j \in CallDepths : i <= j
    PROVE  /\ stack[i].fn \in DOMAIN fns /\ fns[stack[i].fn] \in FnDef(L)
           /\ fns[stack[i].fn].start \in Blocks
<1> DEFINE A == Activation(L, Len(fns))
<1>1. /\ stack \in Seq(A) /\ \A j \in 1..(Len(stack) - 1) : Over(stack[j], stack[j + 1])
      /\ stack[1].k \in {"top", "block"} /\ fns \in Seq(FnDef(L))
  BY Cursor, TopFrame DEF StackOK, Expected, Top
<1>2. Nested(l, fns, stack)
  BY DEF Contained
<1> HIDE DEF A
<1>3. Len(stack) \in Nat /\ DOMAIN stack = 1..Len(stack)
  BY <1>1
<1>4. i \in 1..Len(stack) /\ stack[i].k = "call" /\ i # 1
  BY <1>1, <1>3 DEF CallDepths
<1>5. stack[i] \in A /\ stack[i - 1] \in A
  BY <1>1, <1>3, <1>4, ElementOfSeq
<1>6. stack[i].fn \in 1..Len(fns)
  BY <1>4, <1>5 DEF A, Activation, BodyFrames, OpsFrames, PlainFrames, ArgsFrames, CallFrames,
     AssignFrames, PrintFrames, CardFrames, IfFrames, ChainFrames, WhileFrames, ForFrames
<1>7. stack[i].fn \in DOMAIN fns /\ fns[stack[i].fn] \in FnDef(L)
  <2> DEFINE F == FnDef(L)
  <2>1. fns \in Seq(F)
    BY <1>1
  <2> HIDE DEF F
  <2>2. stack[i].fn \in DOMAIN fns /\ fns[stack[i].fn] \in F
    BY <1>6, <2>1
  <2> QED
    BY <2>2 DEF F
<1>8. i - 1 \in 1..(Len(stack) - 1) /\ (i - 1) + 1 = i
  BY <1>3, <1>4
<1>9. Over(stack[i - 1], stack[i])
  BY <1>1, <1>8
<1>10. stack[i - 1].k = "block"
  <2>1. stack[i - 1].k \in {"top", "block", "ops", "group", "args", "call"} \cup StatementKinds
    BY <1>5 DEF A, Activation, BodyFrames, OpsFrames, PlainFrames, ArgsFrames, CallFrames,
       AssignFrames, PrintFrames, CardFrames, IfFrames, ChainFrames, WhileFrames, ForFrames,
       StatementKinds
  <2> QED
    BY <1>4, <1>9, <2>1 DEF Over, ValueKinds, StatementKinds
<1>11. stack[i - 1].start = fns[stack[i].fn].start
  <2>1. StartsBody(fns, stack[i - 1], stack[(i - 1) + 1])
    BY <1>2, <1>8 DEF Nested
  <2> QED
    BY <1>4, <1>8, <1>10, <2>1 DEF StartsBody
<1>12. ASSUME NEW m \in 1..(i - 2) PROVE stack[m].k # "call"
  <2>1. m \in DOMAIN stack /\ ~(i <= m)
    BY <1>3, <1>4
  <2> QED
    BY <2>1 DEF CallDepths
<1>13. Open(stack, 0, i - 1)
  <2>1. i - 1 > 0 /\ (i - 1) - 1 = i - 2 /\ 0 + 1 = 1
    BY <1>3, <1>4
  <2> QED
    BY <1>10, <1>12, <2>1 DEF Open
<1>14. stack[i - 1].start \in Blocks
  <2>1. i - 1 \in 1..Len(stack)
    BY <1>3, <1>8
  <2> QED
    BY <1>13, <2>1 DEF Blocks, Around
<1> QED
  BY <1>7, <1>11, <1>14

LEMMA ContainedCalls == IInv /\ ContainedText => (OneFile => CallRunsItsBody)
<1> SUFFICES ASSUME IInv, ContainedText, OneFile, at = "stmt",
                    NEW i \in CallDepths, \A j \in CallDepths : i <= j
             PROVE  /\ Here \in fns[stack[i].fn].start..(fns[stack[i].fn].end - 1)
                    /\ \A p \in fns[stack[i].fn].start..(fns[stack[i].fn].end - 1) :
                          tokens[p] = Lines[fns[stack[i].fn].line][p + 1]
  BY DEF CallRunsItsBody
<1>1. PICK L \in 0..(MaxTokens - 1) : Inv(L)
  BY DEF IInv
<1>2. PICK l : l = Lines[1]
  OBVIOUS
<1>3. Contained(l)
  BY <1>2 DEF ContainedText
<1>4. PICK fn : fn = fns[stack[i].fn]
  OBVIOUS
<1>5. fn \in FnDef(L) /\ fn.start \in Blocks /\ BodyOf(l, fn)
  BY <1>1, <1>3, <1>4, BodyAround DEF Contained
<1>6. Text(l) /\ TextOK(l) /\ Within(l, Blocks, Here)
  BY <1>1, <1>3, Standing
<1>7. Len(l) \in Nat /\ DOMAIN l = 1..Len(l) /\ \A p \in 0..Len(l) : Opened(l, p) \in Nat
  BY <1>6, Depths
<1>8. /\ fn.line = 1 /\ fn.start \in 1..Len(l) /\ fn.end \in fn.start..Len(l)
      /\ Opened(l, fn.end) < Opened(l, fn.start)
  BY <1>5, <1>7 DEF BodyOf
<1>9. Inside(l, fn.start, Here)
  BY <1>5, <1>6 DEF Within
<1>10. Here \in fn.start..Len(l) /\ \A r \in fn.start..Here : Opened(l, r) >= Opened(l, fn.start)
  BY <1>9 DEF Inside
<1>11. ~(fn.end <= Here)
  <2> SUFFICES ASSUME fn.end <= Here PROVE FALSE
    OBVIOUS
  <2>1. fn.end \in fn.start..Here
    BY <1>7, <1>8, <1>10
  <2>2. Opened(l, fn.end) >= Opened(l, fn.start)
    BY <1>10, <2>1
  <2>3. Opened(l, fn.end) \in Nat /\ Opened(l, fn.start) \in Nat
    BY <1>7, <1>8
  <2> QED
    BY <1>8, <2>2, <2>3
<1>12. Here \in fn.start..(fn.end - 1)
  BY <1>7, <1>8, <1>10, <1>11
<1>13. ASSUME NEW p \in fn.start..(fn.end - 1) PROVE tokens[p] = l[p + 1]
  <2>1. p \in Nat /\ p < Len(l) /\ p \in 0..Len(l)
    BY <1>7, <1>8
  <2>2. Token(p) = l[p + 1] /\ p \in DOMAIN tokens
    BY <1>6, <2>1, TextTokens
  <2> QED
    BY <2>2 DEF Token
<1> QED
  BY <1>2, <1>4, <1>8, <1>12, <1>13

\* In a program that is one text, whose braces match and stand where neither an
\* operand nor a statement is expected, every statement that starts in a call
\* belongs to the body that the function was defined with, however the bodies
\* nest and whatever a return, break, continue or error left open
\* (rdx_engine.c, call_fn and exec_block).
THEOREM CallCorrect == Spec => [](OneFile => CallRunsItsBody)
<1>1. Init => IInv /\ ContainedText
  BY InitInv, InitContained
<1>2. (IInv /\ ContainedText) /\ [Next]_vars => (IInv /\ ContainedText)'
  BY NextInv, NextContainedText
<1>3. IInv /\ ContainedText => (OneFile => CallRunsItsBody)
  BY ContainedCalls
<1> QED
  BY <1>1, <1>2, <1>3, PTL DEF Spec
=============================================================================
