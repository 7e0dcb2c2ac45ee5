------------------------ MODULE FirstStatementProofs ------------------------
(***************************************************************************)
(* The first statement is where the text, read as a string of tokens, says *)
(* it is: for every text over every alphabet.  A text can be cut into such *)
(* tokens in one way only, so where one way of reading it stops, every     *)
(* other one that comes this far stops too.  This is an induction over the *)
(* positions of the text; it is carried out with least and greatest ones.  *)
(***************************************************************************)
EXTENDS FirstStatement, WellFoundedInduction, SequenceTheorems, TLAPS

-----------------------------------------------------------------------------
(* Least and greatest numbers                                              *)

NatLess == OpToRel(<, Nat)

(* The order of the natural numbers, as the set of pairs that WFMin wants. *)
LEMMA NatLessIs == NatLess = {p \in Nat \X Nat : p[1] < p[2]}
BY DEF NatLess, OpToRel

\* A set of numbers that is not empty has a least element.
LEMMA Least ==
    ASSUME NEW S, S \subseteq Nat, S # {}
    PROVE  \E x \in S : \A y \in S : x <= y
<1>1. IsWellFoundedOn(NatLess, Nat)
  BY NatLessThanWellFounded DEF NatLess
<1>2. PICK x \in S : \A y \in S : ~(<<y, x>> \in NatLess)
  BY <1>1, WFMin
<1>3. ASSUME NEW y \in S PROVE x <= y
  <2> SUFFICES ASSUME y < x PROVE FALSE
    OBVIOUS
  <2>1. <<y, x>> \in NatLess
    BY NatLessIs
  <2> QED BY <1>2, <2>1
<1> QED BY <1>3

(* The smallest member of a set of positions, as extract_first_statement's answer is. *)
LEMMA MinIs ==
    ASSUME NEW S, S \subseteq Nat, NEW x \in S, \A y \in S : x <= y
    PROVE  Min(S) = x
<1>1. Min(S) \in S /\ \A y \in S : Min(S) <= y
  BY Zenon DEF Min
<1>2. Min(S) <= x /\ x <= Min(S) /\ Min(S) \in Nat /\ x \in Nat
  BY <1>1
<1> QED BY <1>2

\* A set of numbers with an upper bound that is not empty has a greatest one.
LEMMA Greatest ==
    ASSUME NEW n \in Nat, NEW S, S \subseteq 0 .. n, S # {}
    PROVE  \E x \in S : \A y \in S : y <= x
<1> DEFINE Mirror == {m \in 0 .. n : n - m \in S}
<1>1. \A y \in S : n - y \in Mirror
  <2> TAKE y \in S
  <2>1. y \in 0 .. n /\ n - y \in 0 .. n /\ n - (n - y) = y
    OBVIOUS
  <2> QED BY <2>1
<1>2. Mirror \subseteq Nat /\ Mirror # {}
  <2>1. PICK y \in S : n - y \in Mirror
    BY <1>1
  <2>2. Mirror \subseteq Nat
    OBVIOUS
  <2> HIDE DEF Mirror
  <2> QED BY <2>1, <2>2
<1>3. PICK m \in Mirror : \A k \in Mirror : m <= k
  BY <1>2, Least
<1>4. n - m \in S /\ m \in 0 .. n
  BY <1>3
<1>5. ASSUME NEW y \in S PROVE y <= n - m
  <2>1. n - y \in Mirror /\ y \in 0 .. n
    BY <1>1
  <2>2. m <= n - y
    BY <1>3, <2>1
  <2> QED BY <1>4, <2>1, <2>2
<1> QED BY <1>4, <1>5

-----------------------------------------------------------------------------
(* Cutting a text into pieces                                              *)

\* The cuts that Splits speaks of.
CutsInto(cuts, i, j, pieces) ==
    /\ cuts \subseteq i .. j + 1
    /\ {i, j + 1} \subseteq cuts
    /\ \A c, d \in cuts :
          c < d /\ (\A b \in cuts : b <= c \/ b >= d) => <<c, d - 1>> \in pieces

(* A text is split into pieces by cuts that begin before its first and end *)
(* at its last character.                                                  *)
LEMMA SplitsIs ==
    ASSUME NEW i, NEW j, NEW pieces
    PROVE  Splits(i, j, pieces) <=> \E cuts : CutsInto(cuts, i, j, pieces)
BY DEF Splits, CutsInto

\* From every cut but the last a piece leads to the next one.
LEMMA NextCut ==
    ASSUME NEW i \in Nat, NEW j \in Nat, NEW pieces, NEW cuts,
           CutsInto(cuts, i, j, pieces), NEW c \in cuts, c < j + 1
    PROVE  \E d \in cuts : c < d /\ <<c, d - 1>> \in pieces
<1> DEFINE Later == {d \in cuts : c < d}
<1>1. cuts \subseteq Nat /\ j + 1 \in cuts
  BY DEF CutsInto
<1>2. Later \subseteq Nat /\ Later # {}
  BY <1>1
<1>3. PICK d \in Later : \A b \in Later : d <= b
  BY <1>2, Least
<1>4. \A b \in cuts : b <= c \/ b >= d
  BY <1>1, <1>3
<1>5. <<c, d - 1>> \in pieces
  BY <1>3, <1>4 DEF CutsInto
<1> QED BY <1>3, <1>5

\* To every cut but the first a piece leads from the one before.
LEMMA PreviousCut ==
    ASSUME NEW i \in Nat, NEW j \in Nat, NEW pieces, NEW cuts,
           CutsInto(cuts, i, j, pieces), NEW d \in cuts, i < d
    PROVE  \E c \in cuts : c < d /\ <<c, d - 1>> \in pieces
<1> DEFINE Earlier == {c \in cuts : c < d}
<1>1. cuts \subseteq 0 .. j + 1 /\ i \in cuts /\ j + 1 \in Nat
  BY DEF CutsInto
<1>2. Earlier \subseteq 0 .. j + 1 /\ Earlier # {}
  BY <1>1
<1>3. PICK c \in Earlier : \A b \in Earlier : b <= c
  BY <1>1, <1>2, Greatest
<1>4. \A b \in cuts : b <= c \/ b >= d
  BY <1>1, <1>3
<1>5. <<c, d - 1>> \in pieces
  BY <1>3, <1>4 DEF CutsInto
<1> QED BY <1>3, <1>5

\* Nothing is cut into no pieces.
LEMMA SplitsNothing ==
    ASSUME NEW i \in Nat, NEW pieces
    PROVE  Splits(i, i - 1, pieces)
<1>1. CutsInto({i}, i, i - 1, pieces)
  BY DEF CutsInto
<1> QED BY <1>1, SplitsIs

\* One more piece.
LEMMA SplitsOneMore ==
    ASSUME NEW i \in Nat, NEW c \in Nat \ {0}, NEW d \in Nat, NEW pieces, c <= d,
           Splits(i, c - 1, pieces), <<c, d>> \in pieces
    PROVE  Splits(i, d, pieces)
<1>1. PICK cuts : CutsInto(cuts, i, c - 1, pieces)
  BY SplitsIs
<1>2. cuts \subseteq i .. c /\ i \in cuts /\ c \in cuts
  BY <1>1 DEF CutsInto
<1> DEFINE more == cuts \cup {d + 1}
<1>3. more \subseteq i .. d + 1 /\ {i, d + 1} \subseteq more
  BY <1>2
<1>4. ASSUME NEW x \in more, NEW y \in more, x < y,
             \A b \in more : b <= x \/ b >= y
      PROVE  <<x, y - 1>> \in pieces
  <2>1. x \in i .. d + 1 /\ y \in i .. d + 1 /\ c \in more
    BY <1>2, <1>3
  <2>2. CASE y = d + 1
    <3>1. x \in cuts /\ x <= c /\ (c <= x \/ c >= d + 1)
      BY <1>2, <1>4, <2>1, <2>2
    <3>2. x = c /\ y - 1 = d
      BY <1>2, <2>1, <2>2, <3>1
    <3> QED BY <3>2
  <2>3. CASE y # d + 1
    <3>1. x \in cuts /\ y \in cuts
      BY <1>4, <2>1, <2>3, <1>2
    <3> QED BY <1>1, <1>4, <3>1 DEF CutsInto
  <2> QED BY <2>2, <2>3
<1>5. CutsInto(more, i, d, pieces)
  BY <1>3, <1>4 DEF CutsInto
<1> QED BY <1>5, SplitsIs

\* What is not nothing begins with a piece.
LEMMA SplitsBegin ==
    ASSUME NEW i \in Nat, NEW j \in Nat, NEW pieces, i <= j, Splits(i, j, pieces)
    PROVE  \E e \in i .. j : <<i, e>> \in pieces
<1>1. PICK cuts : CutsInto(cuts, i, j, pieces)
  BY SplitsIs
<1>2. i \in cuts /\ cuts \subseteq i .. j + 1 /\ i < j + 1
  BY <1>1 DEF CutsInto
<1>3. PICK d \in cuts : i < d /\ <<i, d - 1>> \in pieces
  BY <1>1, <1>2, NextCut
<1>4. d - 1 \in i .. j
  BY <1>2, <1>3
<1> QED BY <1>3, <1>4

\* Pieces of which no two begin at the same position.
Deterministic(pieces) ==
    \A c, d, e : <<c, d>> \in pieces /\ <<c, e>> \in pieces => d = e

\* With such pieces a text that is cut up to j is cut at every j0 on the way at
\* which another cutting from the same position ends.
LEMMA SplitsMeet ==
    ASSUME NEW i \in Nat, NEW j0 \in Nat, NEW j \in Nat, NEW pieces, j0 <= j,
           Deterministic(pieces), Splits(i, j0, pieces), Splits(i, j, pieces)
    PROVE  Splits(j0 + 1, j, pieces)
<1>1. PICK short : CutsInto(short, i, j0, pieces)
  BY SplitsIs
<1>2. PICK long : CutsInto(long, i, j, pieces)
  BY SplitsIs
<1>3. /\ short \subseteq i .. j0 + 1 /\ i \in short /\ j0 + 1 \in short
      /\ long \subseteq i .. j + 1 /\ i \in long /\ j + 1 \in long
  BY <1>1, <1>2 DEF CutsInto
<1>4. short \subseteq long
  <2> SUFFICES ASSUME short \ long # {} PROVE FALSE
    OBVIOUS
  <2>1. short \ long \subseteq Nat
    BY <1>3
  <2>2. PICK x \in short \ long : \A y \in short \ long : x <= y
    BY <2>1, Least
  <2>3. x \in short /\ x \in i .. j0 + 1 /\ i < x
    <3>1. x \in short /\ x \in i .. j0 + 1 /\ x # i
      BY <1>3, <2>2
    <3> QED BY <3>1
  <2>4. PICK c \in short : c < x /\ <<c, x - 1>> \in pieces
    <3>1. \A d \in short : i < d => \E c \in short : c < d /\ <<c, d - 1>> \in pieces
      BY <1>1, PreviousCut
    <3> QED BY <2>3, <3>1
  <2>5. c \in i .. j0 + 1 /\ c \in long /\ c < j + 1
    <3>1. c \in i .. j0 + 1 /\ ~(x <= c)
      BY <1>3, <2>3, <2>4
    <3>2. c \in long
      BY <2>2, <2>4, <3>1
    <3> QED BY <2>3, <2>4, <3>1, <3>2
  <2>6. PICK d \in long : c < d /\ <<c, d - 1>> \in pieces
    BY <1>2, <2>5, NextCut
  <2>7. d - 1 = x - 1
    BY <2>4, <2>6 DEF Deterministic
  <2>8. d = x
    BY <1>3, <2>3, <2>6, <2>7
  <2> QED BY <2>2, <2>6, <2>8
<1> DEFINE rest == {x \in long : x >= j0 + 1}
<1>5. rest \subseteq j0 + 1 .. j + 1 /\ {j0 + 1, j + 1} \subseteq rest
  <2>1. \A x \in long : x \in Nat /\ x <= j + 1
    BY <1>3
  <2>2. rest \subseteq j0 + 1 .. j + 1
    BY <2>1
  <2>3. j0 + 1 \in long /\ j + 1 \in long /\ j + 1 >= j0 + 1
    BY <1>3, <1>4
  <2> QED BY <2>2, <2>3
<1>6. ASSUME NEW c \in rest, NEW d \in rest, c < d,
             \A b \in rest : b <= c \/ b >= d
      PROVE  <<c, d - 1>> \in pieces
  <2>1. \A b \in long : b <= c \/ b >= d
    <3> TAKE b \in long
    <3>1. b \in Nat /\ c \in Nat /\ d \in Nat /\ c >= j0 + 1
      BY <1>3, <1>6
    <3>2. CASE b \in rest
      BY <1>6, <3>2
    <3>3. CASE b \notin rest
      BY <3>1, <3>3
    <3> QED BY <3>2, <3>3
  <2> QED BY <1>2, <1>6, <2>1 DEF CutsInto
<1>7. CutsInto(rest, j0 + 1, j, pieces)
  BY <1>5, <1>6 DEF CutsInto
<1> QED BY <1>7, SplitsIs

-----------------------------------------------------------------------------
(* Tokens                                                                  *)

LEMMA InStringIs ==
    ASSUME NEW quote, NEW c, NEW d
    PROVE  <<c, d>> \in InString(quote) <=>
             /\ c \in DOMAIN text /\ d \in DOMAIN text
             /\ \/ d = c + 1 /\ text[c] = "backslash"
                \/ c = d /\ text[c] \notin {quote, "backslash"}
BY DEF InString, EscapedPairs, Pieces

LiteralAt(quote, c, d) ==
    /\ c < d /\ text[c] = quote /\ text[d] = quote
    /\ Splits(c + 1, d - 1, InString(quote))

(* What a token is: a string literal, an escaped pair, or one character that opens neither. *)
LEMMA TokensIs ==
    ASSUME NEW c, NEW d
    PROVE  <<c, d>> \in Tokens <=>
             /\ c \in DOMAIN text /\ d \in DOMAIN text
             /\ \/ d = c + 1 /\ text[c] = "backslash"
                \/ c = d /\ text[c] \in {"space", "letter"}
                \/ LiteralAt("single", c, d) \/ LiteralAt("double", c, d)
<1>1. ASSUME NEW quote
      PROVE  <<c, d>> \in StringLiterals(quote) <=>
               c \in DOMAIN text /\ d \in DOMAIN text /\ LiteralAt(quote, c, d)
  BY DEF StringLiterals, Pieces, LiteralAt
<1> QED BY <1>1 DEF Tokens, EscapedPairs, Pieces

(* At one place at most one piece of the inside of a string can start. *)
LEMMA InStringDeterministic == ASSUME NEW quote PROVE Deterministic(InString(quote))
BY InStringIs DEF Deterministic

Quotes == {"single", "double"}

\* A string that could be closed earlier cannot go on.
LEMMA StringEndsOnce ==
    ASSUME text \in Seq(Characters), NEW quote \in Quotes,
           NEW i \in Nat, NEW a \in Nat, NEW b \in Nat, a < b, text[a + 1] = quote,
           Splits(i, a, InString(quote)), Splits(i, b, InString(quote))
    PROVE  FALSE
<1>1. Splits(a + 1, b, InString(quote))
  BY SplitsMeet, InStringDeterministic
<1>2. PICK e \in a + 1 .. b : <<a + 1, e>> \in InString(quote)
  BY <1>1, SplitsBegin
<1>3. text[a + 1] = "backslash" \/ text[a + 1] # quote
  BY <1>2, InStringIs
<1> QED BY <1>3 DEF Quotes

(* At one place at most one token can start: the code never has a choice either. *)
LEMMA TokensDeterministic == ASSUME text \in Seq(Characters) PROVE Deterministic(Tokens)
<1> SUFFICES ASSUME NEW c, NEW d, NEW e, <<c, d>> \in Tokens, <<c, e>> \in Tokens
             PROVE  d = e
  BY DEF Deterministic
<1>1. c \in Nat \ {0} /\ d \in Nat \ {0} /\ e \in Nat \ {0}
  BY TokensIs
<1>2. ASSUME NEW quote \in Quotes, LiteralAt(quote, c, d), LiteralAt(quote, c, e)
      PROVE  d = e
  <2>1. c + 1 \in Nat /\ d - 1 \in Nat /\ e - 1 \in Nat
        /\ (d - 1) + 1 = d /\ (e - 1) + 1 = e
    BY <1>1
  <2>2. ~(d < e)
    BY <1>1, <1>2, <2>1, StringEndsOnce DEF LiteralAt
  <2>3. ~(e < d)
    BY <1>1, <1>2, <2>1, StringEndsOnce DEF LiteralAt
  <2> QED BY <1>1, <2>2, <2>3
<1>3. CASE text[c] \in Quotes
  <2>1. LiteralAt(text[c], c, d) /\ LiteralAt(text[c], c, e)
    BY <1>3, TokensIs DEF Quotes, LiteralAt
  <2> QED BY <1>2, <1>3, <2>1
<1>4. CASE text[c] \notin Quotes
  BY <1>4, TokensIs DEF Quotes, LiteralAt
<1> QED BY <1>3, <1>4

\* A string opened at o that is not closed up to e: no token begins at o that
\* ends by then, nor one character later if that is not the quote.
LEMMA NoTokenInside ==
    ASSUME text \in Seq(Characters), NEW quote \in Quotes,
           NEW o \in Nat, NEW e \in Nat, o <= e, text[o] = quote,
           Splits(o + 1, e, InString(quote)), text[e + 1] # quote,
           NEW f, <<o, f>> \in Tokens
    PROVE  f > e + 1
<1>1. LiteralAt(quote, o, f) /\ f \in Nat \ {0} /\ o \in Nat
  BY TokensIs DEF Quotes, LiteralAt
<1>2. ASSUME f <= e PROVE FALSE
  <2>1. f - 1 \in Nat /\ f - 1 < e /\ (f - 1) + 1 = f /\ o + 1 \in Nat
    BY <1>1, <1>2
  <2> QED BY <1>1, <2>1, StringEndsOnce DEF LiteralAt
<1>3. f # e + 1
  BY <1>1 DEF LiteralAt
<1> QED BY <1>1, <1>2, <1>3

\* Within such a string no semicolon ends a statement.
LEMMA NoEndInside ==
    ASSUME text \in Seq(Characters), NEW quote \in Quotes,
           NEW o \in Nat \ {0}, NEW e \in Nat, o <= e, text[o] = quote,
           Splits(1, o - 1, Tokens),
           Splits(o + 1, e, InString(quote)), text[e + 1] # quote,
           NEW r \in Nat, o < r, r <= e + 2
    PROVE  ~Splits(1, r - 1, Tokens)
<1> SUFFICES ASSUME Splits(1, r - 1, Tokens) PROVE FALSE
  OBVIOUS
<1>1. o - 1 \in Nat /\ r - 1 \in Nat /\ o - 1 <= r - 1 /\ (o - 1) + 1 = o /\ o <= r - 1
  OBVIOUS
<1>2. Splits(o, r - 1, Tokens)
  <2>1. Splits((o - 1) + 1, r - 1, Tokens)
    BY <1>1, SplitsMeet, TokensDeterministic
  <2> QED BY <1>1, <2>1
<1>3. PICK f \in o .. r - 1 : <<o, f>> \in Tokens
  BY <1>1, <1>2, SplitsBegin
<1>4. f > e + 1
  BY <1>3, NoTokenInside
<1> QED BY <1>1, <1>3, <1>4

\* Nor does the character after a backslash.
LEMMA NoEndEscaped ==
    ASSUME text \in Seq(Characters), NEW e \in Nat,
           Splits(1, e, Tokens), text[e + 1] = "backslash"
    PROVE  ~Splits(1, e + 1, Tokens)
<1> SUFFICES ASSUME Splits(1, e + 1, Tokens) PROVE FALSE
  OBVIOUS
<1>1. Splits(e + 1, e + 1, Tokens)
  BY SplitsMeet, TokensDeterministic
<1>2. PICK f \in e + 1 .. e + 1 : <<e + 1, f>> \in Tokens
  <2>1. e + 1 \in Nat /\ e + 1 <= e + 1
    OBVIOUS
  <2> QED BY <1>1, <2>1, SplitsBegin
<1>3. f = e + 1
  BY <1>2
<1> QED BY <1>2, <1>3, TokensIs DEF LiteralAt

-----------------------------------------------------------------------------
(* The scanner                                                             *)

\* The last character read in whole: a backslash waits for its second half.
Read == IF escape_next THEN position - 2 ELSE position - 1

\* The string that is open began after whole tokens and is not closed.
Inside(quote) ==
    \E o \in 1 .. Read :
        /\ text[o] = quote
        /\ Splits(1, o - 1, Tokens)
        /\ Splits(o + 1, Read, InString(quote))

ScanTypes ==
    /\ ScanTypeOK
    /\ text \in Seq(Characters)
    /\ in_single_quote \in BOOLEAN /\ in_double_quote \in BOOLEAN
    /\ escape_next \in BOOLEAN
    /\ scanPc = "new" => position = 1 /\ ~Quoted /\ ~escape_next

\* Where the scanner is: within a token after a backslash, or in a string, or
\* after whole tokens.
WhereScanned ==
    /\ escape_next => position > 1 /\ text[position - 1] = "backslash"
    /\ in_single_quote => Inside("single")
    /\ in_double_quote => Inside("double")
    /\ ~Quoted => Splits(1, Read, Tokens)

\* No semicolon that was passed ends a statement.
NoEndPassed ==
    \A r \in 1 .. position - 1 : text[r] = "semicolon" => ~Splits(1, r - 1, Tokens)

ScanInv == ScanTypes /\ WhereScanned /\ NoEndPassed /\ FirstStatementIsFirst

\* A trimmed text is a text.
LEMMA TrimIsText ==
    ASSUME NEW s \in Seq(Characters) PROVE trim(s) \in Seq(Characters)
<1>1. CASE Printing(s) = {}
  BY <1>1 DEF trim
<1>2. CASE Printing(s) # {}
  <2>1. Printing(s) \subseteq 1 .. Len(s) /\ Len(s) \in Nat
    BY DEF Printing
  <2>2. Printing(s) \subseteq Nat /\ Printing(s) \subseteq 0 .. Len(s)
    BY <2>1
  <2>3. Min(Printing(s)) \in Printing(s)
    BY <1>2, <2>2, Least DEF Min
  <2>4. Max(Printing(s)) \in Printing(s)
    <3>1. PICK x \in Printing(s) : \A y \in Printing(s) : y <= x
      BY <1>2, <2>1, <2>2, Greatest
    <3>2. \A y \in Printing(s) : x >= y
      BY <2>2, <3>1
    <3> QED BY <3>2 DEF Max
  <2>5. SubSeq(s, Min(Printing(s)), Max(Printing(s))) \in Seq(Characters)
    BY <2>1, <2>3, <2>4, SubSeqProperties
  <2> QED BY <1>2, <2>5 DEF trim
<1> QED BY <1>1, <1>2

\* What the steps over one character have in common.
LEMMA SameText ==
    ASSUME text' = text
    PROVE  /\ Tokens' = Tokens
           /\ \A quote : InString(quote)' = InString(quote)
BY DEF Tokens, StringLiterals, InString, EscapedPairs, Pieces, Splits

\* Calling the scanner: nothing is read, nothing passed.
LEMMA CallKeeps ==
    ASSUME ScanInv, NEW query \in SeqOf(Characters, MaxTextLength), CallExtract(query)
    PROVE  ScanInv'
<1>1. query \in Seq(Characters)
  BY DEF SeqOf
<1>2. /\ text' \in Seq(Characters) /\ Len(text') \in Nat /\ scanPc' = "scan"
      /\ position' = 1 /\ in_single_quote' = FALSE /\ in_double_quote' = FALSE
      /\ escape_next' = FALSE
  <2>1. trim(query) \in Seq(Characters)
    BY <1>1, TrimIsText
  <2> QED BY <2>1 DEF CallExtract, ScanInv, ScanTypes, Quoted
<1>3. ScanTypes'
  <2>1. position' \in 1 .. Len(text') + 1
    BY <1>2
  <2>2. /\ in_single_quote' \in BOOLEAN /\ in_double_quote' \in BOOLEAN
        /\ escape_next' \in BOOLEAN /\ ~(in_single_quote' /\ in_double_quote')
    BY <1>2
  <2> QED BY <1>2, <2>1, <2>2 DEF ScanTypes, ScanTypeOK
<1>4. WhereScanned'
  <2>1. Read' = 0
    BY <1>2 DEF Read
  <2>2. Splits(1, 1 - 1, Tokens')
    BY SplitsNothing
  <2>3. Splits(1, 0, Tokens')
    BY <2>2
  <2> QED BY <1>2, <2>1, <2>3 DEF WhereScanned, Splits
<1>5. NoEndPassed'
  BY <1>2 DEF NoEndPassed
<1> QED BY <1>2, <1>3, <1>4, <1>5 DEF ScanInv, FirstStatementIsFirst

\* What a step over one character starts from.
LEMMA AtCharacter ==
    ASSUME ScanInv, Scanning
    PROVE  /\ text \in Seq(Characters) /\ position \in Nat \ {0}
           /\ position \in DOMAIN text
           /\ escape_next => position - 1 \in DOMAIN text /\ Read = position - 2
                             /\ text[position - 1] = "backslash"
                             /\ Read \in Nat
           /\ ~escape_next => Read = position - 1 /\ Read \in Nat
BY DEF ScanInv, ScanTypes, ScanTypeOK, WhereScanned, Scanning, Read

\* A step over one character keeps the types if it keeps the quotes apart.
LEMMA TypesAdvance ==
    ASSUME ScanInv, Scanning, Advance,
           in_single_quote' \in BOOLEAN, in_double_quote' \in BOOLEAN,
           escape_next' \in BOOLEAN, ~(in_single_quote' /\ in_double_quote')
    PROVE  ScanTypes'
<1>1. /\ position' = position + 1 /\ text' = text /\ scanPc' = "scan"
      /\ text \in Seq(Characters) /\ position \in DOMAIN text
  BY AtCharacter DEF Advance, Scanning
<1>2. position' \in 1 .. Len(text') + 1
  BY <1>1
<1> QED BY <1>1, <1>2 DEF ScanTypes, ScanTypeOK

\* A step that passes a character other than a semicolon, or a semicolon that
\* no whole tokens precede.
LEMMA PassKeepsEnds ==
    ASSUME ScanInv, Scanning, Advance,
           text[position] = "semicolon" => ~Splits(1, position - 1, Tokens)
    PROVE  NoEndPassed'
<1>1. position \in Nat \ {0} /\ position' = position + 1 /\ text' = text
  BY AtCharacter DEF Advance
<1>2. Tokens' = Tokens
  BY <1>1, SameText
<1>3. ASSUME NEW r \in 1 .. position, text[r] = "semicolon"
      PROVE  ~Splits(1, r - 1, Tokens)
  <2>1. CASE r = position
    BY <1>3, <2>1
  <2>2. CASE r # position
    BY <1>1, <1>3, <2>2 DEF ScanInv, NoEndPassed
  <2> QED BY <2>1, <2>2
<1>4. position' - 1 = position
  BY <1>1
<1> QED BY <1>1, <1>2, <1>3, <1>4 DEF NoEndPassed

\* A string goes on by one piece.
LEMMA StringGoesOn ==
    ASSUME ScanInv, Scanning, text' = text, NEW quote \in Quotes, Inside(quote),
           Read' \in Nat, Read + 1 <= Read', <<Read + 1, Read'>> \in InString(quote)
    PROVE  Inside(quote)'
<1>1. Read \in Nat /\ Tokens' = Tokens /\ InString(quote)' = InString(quote)
  BY AtCharacter, SameText DEF ScanInv, ScanTypes
<1>2. PICK o \in 1 .. Read : /\ text[o] = quote
                             /\ Splits(1, o - 1, Tokens)
                             /\ Splits(o + 1, Read, InString(quote))
  BY DEF Inside
<1>3. Splits(o + 1, Read', InString(quote))
  <2>1. o + 1 \in Nat /\ Read + 1 \in Nat \ {0} /\ (Read + 1) - 1 = Read
    BY <1>1, <1>2
  <2> QED BY <1>2, <2>1, SplitsOneMore
<1>4. o \in 1 .. Read'
  BY <1>1, <1>2
<1> QED BY <1>1, <1>2, <1>3, <1>4 DEF Inside

\* In a string that is open no semicolon ends a statement.
LEMMA NoEndInOpen ==
    ASSUME ScanInv, Scanning, NEW quote \in Quotes, Inside(quote),
           text[Read + 1] # quote
    PROVE  ~Splits(1, position - 1, Tokens)
<1>1. /\ text \in Seq(Characters) /\ Read \in Nat /\ position \in Nat \ {0}
      /\ Read <= position - 1 /\ position <= Read + 2
  BY AtCharacter DEF ScanInv, ScanTypes
<1>2. PICK o \in 1 .. Read : /\ text[o] = quote
                             /\ Splits(1, o - 1, Tokens)
                             /\ Splits(o + 1, Read, InString(quote))
  BY DEF Inside
<1>3. o \in Nat \ {0} /\ o <= Read /\ o < position
  BY <1>1, <1>2
<1> QED BY <1>1, <1>2, <1>3, NoEndInside

\* The character after a backslash.
LEMMA SkipKeeps == ASSUME ScanInv, Skip PROVE ScanInv'
<1>1. /\ Scanning /\ escape_next /\ escape_next' = FALSE /\ Advance
      /\ UNCHANGED <<in_single_quote, in_double_quote, text, scanPc>>
      /\ position' = position + 1
  BY DEF Skip, Advance
<1>2. /\ text \in Seq(Characters) /\ position \in Nat \ {0} /\ position \in DOMAIN text
      /\ position - 1 \in DOMAIN text /\ Read = position - 2 /\ Read \in Nat
      /\ text[position - 1] = "backslash"
  BY <1>1, AtCharacter
<1>3. /\ Read' = position /\ Read + 1 = position - 1 /\ Read + 1 <= Read'
      /\ Read' \in Nat
  BY <1>1, <1>2 DEF Read
<1>4. ScanTypes'
  <2>1. /\ in_single_quote' \in BOOLEAN /\ in_double_quote' \in BOOLEAN
        /\ ~(in_single_quote' /\ in_double_quote')
    BY <1>1 DEF ScanInv, ScanTypes, ScanTypeOK
  <2> QED BY <1>1, <2>1, TypesAdvance
<1>5. <<Read + 1, Read'>> \in Tokens
      /\ \A quote : <<Read + 1, Read'>> \in InString(quote)
  <2>1. Read' = (Read + 1) + 1 /\ Read + 1 \in DOMAIN text /\ Read' \in DOMAIN text
        /\ text[Read + 1] = "backslash"
    BY <1>2, <1>3
  <2> QED BY <2>1, InStringIs, TokensIs
<1>6. WhereScanned'
  <2>1. in_single_quote' => Inside("single")'
    BY <1>1, <1>3, <1>5, StringGoesOn DEF ScanInv, WhereScanned, Quotes
  <2>2. in_double_quote' => Inside("double")'
    BY <1>1, <1>3, <1>5, StringGoesOn DEF ScanInv, WhereScanned, Quotes
  <2>3. ASSUME ~Quoted' PROVE Splits(1, Read', Tokens)
    <3>1. Splits(1, Read, Tokens)
      BY <1>1, <2>3 DEF ScanInv, WhereScanned, Quoted
    <3>2. Read + 1 \in Nat \ {0} /\ (Read + 1) - 1 = Read
      BY <1>2
    <3> QED BY <1>3, <1>5, <3>1, <3>2, SplitsOneMore
  <2>4. Tokens' = Tokens
    BY <1>1, SameText
  <2> QED BY <1>1, <2>1, <2>2, <2>3, <2>4 DEF WhereScanned
<1>7. ~Splits(1, position - 1, Tokens)
  <2>1. ASSUME NEW quote \in Quotes, Inside(quote)
        PROVE  ~Splits(1, position - 1, Tokens)
    <3>1. text[Read + 1] # quote
      BY <1>2, <1>3 DEF Quotes
    <3> QED BY <1>1, <2>1, <3>1, NoEndInOpen
  <2>2. CASE Quoted
    BY <2>1, <2>2 DEF Quoted, Quotes, ScanInv, WhereScanned
  <2>3. CASE ~Quoted
    <3>1. Splits(1, Read, Tokens)
      BY <2>3 DEF ScanInv, WhereScanned
    <3> QED BY <1>2, <1>3, <3>1, NoEndEscaped
  <2> QED BY <2>2, <2>3
<1>8. NoEndPassed'
  BY <1>1, <1>7, PassKeepsEnds
<1> QED BY <1>1, <1>4, <1>6, <1>8 DEF ScanInv, FirstStatementIsFirst, Scanning

\* A backslash: what is read in whole stays.
LEMMA EscapeKeeps == ASSUME ScanInv, Escape PROVE ScanInv'
<1>1. /\ Scanning /\ ~escape_next /\ escape_next' = TRUE /\ Advance
      /\ text[position] = "backslash" /\ position' = position + 1
      /\ UNCHANGED <<in_single_quote, in_double_quote, text, scanPc>>
  BY DEF Escape, Advance, char
<1>2. /\ text \in Seq(Characters) /\ position \in Nat \ {0}
      /\ Read = position - 1 /\ Read' = Read
  BY <1>1, AtCharacter DEF Read
<1>3. ScanTypes'
  <2>1. /\ in_single_quote' \in BOOLEAN /\ in_double_quote' \in BOOLEAN
        /\ ~(in_single_quote' /\ in_double_quote')
    BY <1>1 DEF ScanInv, ScanTypes, ScanTypeOK
  <2> QED BY <1>1, <2>1, TypesAdvance
<1>4. WhereScanned'
  <2>1. Tokens' = Tokens /\ \A quote : InString(quote)' = InString(quote)
    BY <1>1, SameText
  <2>2. /\ Inside("single") => Inside("single")'
        /\ Inside("double") => Inside("double")'
    BY <1>1, <1>2, <2>1 DEF Inside
  <2>3. position' > 1 /\ position' - 1 = position
    BY <1>1, <1>2
  <2> QED BY <1>1, <1>2, <2>1, <2>2, <2>3 DEF ScanInv, WhereScanned, Quoted
<1>5. NoEndPassed'
  BY <1>1, PassKeepsEnds
<1> QED BY <1>1, <1>3, <1>4, <1>5 DEF ScanInv, FirstStatementIsFirst, Scanning

\* What the steps that are not about a backslash start from.
LEMMA AtPlain ==
    ASSUME ScanInv, Scanning, ~escape_next, Advance, escape_next' = escape_next
    PROVE  /\ text \in Seq(Characters) /\ position \in Nat \ {0}
           /\ position \in DOMAIN text
           /\ text' = text /\ position' = position + 1
           /\ Read = position - 1 /\ Read \in Nat
           /\ Read' = position /\ Read + 1 = position
           /\ Tokens' = Tokens /\ \A quote : InString(quote)' = InString(quote)
<1>1. /\ text' = text /\ position' = position + 1
  BY DEF Advance
<1>2. Tokens' = Tokens /\ \A quote : InString(quote)' = InString(quote)
  BY <1>1, SameText
<1> QED BY <1>1, <1>2, AtCharacter DEF Read

\* A quote opens a string after whole tokens.
LEMMA QuoteOpens ==
    ASSUME ScanInv, Scanning, ~escape_next, Advance, escape_next' = escape_next,
           ~Quoted, NEW quote \in Quotes, text[position] = quote
    PROVE  Inside(quote)'
<1>1. /\ position \in Nat \ {0} /\ text' = text /\ Read = position - 1
      /\ Read' = position /\ Tokens' = Tokens /\ InString(quote)' = InString(quote)
  BY AtPlain
<1>2. Splits(1, position - 1, Tokens)
  BY <1>1 DEF ScanInv, WhereScanned
<1>3. Splits(position + 1, position, InString(quote))
  <2>1. position + 1 \in Nat /\ (position + 1) - 1 = position
    BY <1>1
  <2>2. Splits(position + 1, (position + 1) - 1, InString(quote))
    BY <2>1, SplitsNothing
  <2> QED BY <2>1, <2>2
<1>4. position \in 1 .. Read'
  BY <1>1
<1> QED BY <1>1, <1>2, <1>3, <1>4 DEF Inside

\* The same quote closes it: a token more.
LEMMA QuoteCloses ==
    ASSUME ScanInv, Scanning, ~escape_next, Advance, escape_next' = escape_next,
           NEW quote \in Quotes, Inside(quote), text[position] = quote
    PROVE  Splits(1, Read', Tokens)
<1>1. /\ text \in Seq(Characters) /\ position \in Nat \ {0} /\ position \in DOMAIN text
      /\ Read = position - 1 /\ Read' = position
  BY AtPlain
<1>2. PICK o \in 1 .. Read : /\ text[o] = quote
                             /\ Splits(1, o - 1, Tokens)
                             /\ Splits(o + 1, Read, InString(quote))
  BY DEF Inside
<1>3. o \in Nat \ {0} /\ o < position /\ o \in DOMAIN text
  BY <1>1, <1>2
<1>4. LiteralAt(quote, o, position)
  BY <1>1, <1>2, <1>3 DEF LiteralAt
<1>5. <<o, position>> \in Tokens
  BY <1>1, <1>3, <1>4, TokensIs DEF Quotes
<1> QED BY <1>1, <1>2, <1>3, <1>5, SplitsOneMore

(* A quote opens a string, closes the one it opened, or is a character of  *)
(* the other kind of string.                                               *)
LEMMA QuoteKeeps == ASSUME ScanInv, Quote PROVE ScanInv'
<1>1. /\ Scanning /\ ~escape_next /\ escape_next' = escape_next /\ Advance
      /\ text[position] \in Quotes
      /\ UNCHANGED <<text, scanPc>>
  BY DEF Quote, Advance, char, Quotes
<1>2. /\ in_single_quote \in BOOLEAN /\ in_double_quote \in BOOLEAN
      /\ ~(in_single_quote /\ in_double_quote)
  BY DEF ScanInv, ScanTypes, ScanTypeOK
<1>3. \/ /\ text[position] = "single" /\ ~in_double_quote
         /\ in_single_quote' = ~in_single_quote /\ in_double_quote' = in_double_quote
      \/ /\ text[position] = "double" /\ ~in_single_quote
         /\ in_double_quote' = ~in_double_quote /\ in_single_quote' = in_single_quote
  BY DEF Quote, char
<1>4. ScanTypes'
  <2>1. in_single_quote' \in BOOLEAN /\ in_double_quote' \in BOOLEAN
    BY <1>2, <1>3
  <2>2. ~(in_single_quote' /\ in_double_quote')
    BY <1>2, <1>3, Zenon
  <2>3. escape_next' \in BOOLEAN
    BY <1>1 DEF ScanInv, ScanTypes
  <2> QED BY <1>1, <2>1, <2>2, <2>3, TypesAdvance
<1>5. WhereScanned'
  <2>1. ~escape_next' /\ Tokens' = Tokens
    BY <1>1, AtPlain
  <2>2. CASE ~Quoted
    <3>1. text[position] = "single" => Inside("single")'
      BY <1>1, <2>2, QuoteOpens DEF Quotes
    <3>2. text[position] = "double" => Inside("double")'
      BY <1>1, <2>2, QuoteOpens DEF Quotes
    <3>3. ~in_single_quote /\ ~in_double_quote
      BY <2>2 DEF Quoted
    <3>4. \/ text[position] = "single" /\ in_single_quote' /\ ~in_double_quote'
          \/ text[position] = "double" /\ in_double_quote' /\ ~in_single_quote'
      BY <1>3, <3>3, Zenon
    <3> QED BY <2>1, <3>1, <3>2, <3>4 DEF WhereScanned, Quoted
  <2>3. CASE Quoted
    <3>1. \/ in_single_quote /\ text[position] = "single" /\ Inside("single")
          \/ in_double_quote /\ text[position] = "double" /\ Inside("double")
      BY <1>2, <1>3, <2>3, Zenon DEF Quoted, ScanInv, WhereScanned
    <3>2. Splits(1, Read', Tokens)
      BY <1>1, <3>1, QuoteCloses DEF Quotes
    <3>3. ~in_single_quote' /\ ~in_double_quote'
      BY <1>2, <1>3, <3>1
    <3> QED BY <2>1, <3>2, <3>3 DEF WhereScanned
  <2> QED BY <2>2, <2>3
<1>6. NoEndPassed'
  <2>1. text[position] # "semicolon"
    BY <1>1 DEF Quotes
  <2> QED BY <1>1, <2>1, PassKeepsEnds
<1> QED BY <1>1, <1>4, <1>5, <1>6 DEF ScanInv, FirstStatementIsFirst, Scanning

\* Any other character is a token by itself, or one more of the string.
LEMMA PassKeeps == ASSUME ScanInv, Pass PROVE ScanInv'
<1>1. /\ Scanning /\ ~escape_next /\ escape_next' = escape_next /\ Advance
      /\ UNCHANGED <<text, scanPc, in_single_quote, in_double_quote>>
  BY DEF Pass, Advance
<1>2. \/ text[position] \in {"space", "letter"}
      \/ text[position] = "semicolon" /\ Quoted
      \/ text[position] = "single" /\ in_double_quote
      \/ text[position] = "double" /\ in_single_quote
  BY DEF Pass, char
<1>3. /\ in_single_quote \in BOOLEAN /\ in_double_quote \in BOOLEAN
      /\ ~(in_single_quote /\ in_double_quote)
  BY DEF ScanInv, ScanTypes, ScanTypeOK
<1>4. /\ position \in Nat \ {0} /\ position \in DOMAIN text /\ Read = position - 1
      /\ Read \in Nat /\ Read' = position /\ Read + 1 = position /\ Tokens' = Tokens
  BY <1>1, AtPlain
<1>5. ScanTypes'
  <2>1. /\ in_single_quote' \in BOOLEAN /\ in_double_quote' \in BOOLEAN
        /\ ~(in_single_quote' /\ in_double_quote') /\ escape_next' \in BOOLEAN
    BY <1>1, <1>3 DEF ScanInv, ScanTypes
  <2> QED BY <1>1, <2>1, TypesAdvance
<1>6. /\ in_single_quote => Inside("single") /\ text[position] # "single"
      /\ in_double_quote => Inside("double") /\ text[position] # "double"
  BY <1>2, <1>3 DEF ScanInv, WhereScanned
<1>7. ASSUME NEW quote \in Quotes, Inside(quote), text[position] # quote
      PROVE  Inside(quote)'
  <2>1. text[position] # "backslash"
    BY <1>2
  <2>2. <<Read + 1, Read'>> \in InString(quote)
    BY <1>4, <1>7, <2>1, InStringIs
  <2> QED BY <1>1, <1>4, <1>7, <2>2, StringGoesOn
<1>8. WhereScanned'
  <2>1. /\ in_single_quote' => Inside("single")'
        /\ in_double_quote' => Inside("double")'
    BY <1>1, <1>6, <1>7 DEF Quotes
  <2>2. ASSUME ~Quoted PROVE Splits(1, Read', Tokens)
    <3>1. text[position] \in {"space", "letter"}
      BY <1>2, <2>2 DEF Quoted
    <3>2. <<position, position>> \in Tokens
      BY <1>4, <3>1, TokensIs
    <3>3. Splits(1, position - 1, Tokens)
      BY <1>4, <2>2 DEF ScanInv, WhereScanned
    <3> QED BY <1>4, <3>2, <3>3, SplitsOneMore
  <2> QED BY <1>1, <1>4, <2>1, <2>2 DEF WhereScanned, Quoted
<1>9. NoEndPassed'
  <2>1. ASSUME text[position] = "semicolon" PROVE ~Splits(1, position - 1, Tokens)
    <3>1. Quoted /\ text[Read + 1] = "semicolon"
      BY <1>2, <1>4, <2>1
    <3>2. \E quote \in Quotes : Inside(quote) /\ text[Read + 1] # quote
      BY <1>6, <3>1 DEF Quoted, Quotes
    <3> QED BY <1>1, <3>2, NoEndInOpen
  <2> QED BY <1>1, <2>1, PassKeepsEnds
<1> QED BY <1>1, <1>5, <1>8, <1>9 DEF ScanInv, FirstStatementIsFirst, Scanning

\* The scanner stops at the first semicolon that whole tokens precede.
LEMMA FoundEndKeeps == ASSUME ScanInv, FoundEnd PROVE ScanInv'
<1>1. /\ Scanning /\ ~escape_next /\ text[position] = "semicolon" /\ ~Quoted
      /\ statement' = trim(SubSeq(text, 1, position - 1)) /\ scanPc' = "done"
      /\ UNCHANGED <<text, position, in_single_quote, in_double_quote, escape_next>>
  BY DEF FoundEnd, Extract, char
<1>2. /\ position \in Nat \ {0} /\ position \in DOMAIN text /\ Read = position - 1
      /\ text \in Seq(Characters)
  BY <1>1, AtCharacter
<1>3. Tokens' = Tokens /\ \A quote : InString(quote)' = InString(quote)
  BY <1>1, SameText
<1> DEFINE ends == {p \in DOMAIN text :
                      text[p] = "semicolon" /\ Splits(1, p - 1, Tokens)}
<1>4. position \in ends
  BY <1>1, <1>2 DEF ScanInv, WhereScanned
<1>5. \A p \in ends : position <= p
  <2> SUFFICES ASSUME NEW p \in ends, p < position PROVE FALSE
    BY <1>2
  <2>1. p \in 1 .. position - 1
    BY <1>2
  <2> QED BY <2>1 DEF ScanInv, NoEndPassed
<1>6. Min(ends) = position
  <2>1. ends \subseteq Nat
    BY <1>2
  <2> HIDE DEF ends
  <2> QED BY <1>4, <1>5, <2>1, MinIs
<1>7. FirstStatementIsFirst'
  BY <1>1, <1>3, <1>4, <1>6 DEF FirstStatementIsFirst
<1>8. ScanTypes' /\ WhereScanned' /\ NoEndPassed'
  BY <1>1, <1>3 DEF ScanInv, ScanTypes, ScanTypeOK, WhereScanned, NoEndPassed,
     Quoted, Read, Inside
<1> QED BY <1>7, <1>8 DEF ScanInv

\* At the end of the text no semicolon is left.
LEMMA NoEndKeeps == ASSUME ScanInv, NoEnd PROVE ScanInv'
<1>1. /\ position > Len(text) /\ statement' = text /\ scanPc' = "done"
      /\ UNCHANGED <<text, position, in_single_quote, in_double_quote, escape_next>>
  BY DEF NoEnd, Extract
<1>2. /\ text \in Seq(Characters) /\ DOMAIN text = 1 .. position - 1
  BY <1>1 DEF ScanInv, ScanTypes, ScanTypeOK
<1>3. Tokens' = Tokens /\ \A quote : InString(quote)' = InString(quote)
  BY <1>1, SameText
<1>4. {p \in DOMAIN text : text[p] = "semicolon" /\ Splits(1, p - 1, Tokens)} = {}
  BY <1>2 DEF ScanInv, NoEndPassed
<1>5. FirstStatementIsFirst'
  BY <1>1, <1>3, <1>4 DEF FirstStatementIsFirst
<1>6. ScanTypes' /\ WhereScanned' /\ NoEndPassed'
  BY <1>1, <1>3 DEF ScanInv, ScanTypes, ScanTypeOK, WhereScanned, NoEndPassed,
     Quoted, Read, Inside
<1> QED BY <1>5, <1>6 DEF ScanInv

(* Before the first character the scanner stands between two tokens. *)
LEMMA ScanInvInit == ScanInit => ScanInv
<1> SUFFICES ASSUME ScanInit PROVE ScanInv
  OBVIOUS
<1>1. /\ scanPc = "new" /\ text = <<>> /\ position = 1 /\ Read = 0
      /\ in_single_quote = FALSE /\ in_double_quote = FALSE /\ escape_next = FALSE
  BY DEF ScanInit, Read
<1>2. ScanTypes
  <2>1. Len(text) = 0 /\ text \in Seq(Characters) /\ position \in 1 .. Len(text) + 1
    BY <1>1
  <2>2. /\ in_single_quote \in BOOLEAN /\ in_double_quote \in BOOLEAN
        /\ escape_next \in BOOLEAN /\ ~Quoted /\ ~escape_next
        /\ ~(in_single_quote /\ in_double_quote)
    BY <1>1 DEF Quoted
  <2> QED BY <1>1, <2>1, <2>2 DEF ScanTypes, ScanTypeOK
<1>3. Splits(1, 1 - 1, Tokens)
  BY SplitsNothing
<1>4. WhereScanned
  BY <1>1, <1>3 DEF WhereScanned
<1>5. NoEndPassed
  BY <1>1 DEF NoEndPassed
<1> QED BY <1>1, <1>2, <1>4, <1>5 DEF ScanInv, FirstStatementIsFirst

(* Each arm of the match in extract_first_statement keeps the scanner in   *)
(* step with the tokens.                                                   *)
LEMMA ScanStep == ScanInv /\ [ScanNext]_scanVars => ScanInv'
<1> SUFFICES ASSUME ScanInv, [ScanNext]_scanVars PROVE ScanInv'
  OBVIOUS
<1>1. CASE UNCHANGED scanVars
  <2>1. /\ UNCHANGED <<scanPc, text, position, in_single_quote, in_double_quote>>
        /\ UNCHANGED <<escape_next, statement>>
    BY <1>1 DEF scanVars
  <2>2. Tokens' = Tokens /\ \A quote : InString(quote)' = InString(quote)
    BY <2>1, SameText
  <2> QED BY <2>1, <2>2 DEF ScanInv, ScanTypes, ScanTypeOK, WhereScanned, NoEndPassed,
         FirstStatementIsFirst, Quoted, Read, Inside
<1> QED BY <1>1, CallKeeps, SkipKeeps, EscapeKeeps, QuoteKeeps, PassKeeps,
        FoundEndKeeps, NoEndKeeps DEF ScanNext

\* The scanner stays within the text, and in one kind of string at a time.
THEOREM ScanStaysInText == ScanSpec => []ScanTypeOK
<1>1. ScanInv => ScanTypeOK
  BY DEF ScanInv, ScanTypes
<1> QED BY <1>1, ScanInvInit, ScanStep, PTL DEF ScanSpec

\* What extract_first_statement returns are the whole tokens before the first
\* semicolon that whole tokens precede, and the text itself if there is none.
THEOREM FirstStatementFound == ScanSpec => []FirstStatementIsFirst
<1>1. ScanInv => FirstStatementIsFirst
  BY DEF ScanInv
<1> QED BY <1>1, ScanInvInit, ScanStep, PTL DEF ScanSpec
=============================================================================
