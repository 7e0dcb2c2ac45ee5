--------------------------- MODULE FirstStatement ---------------------------
(***************************************************************************)
(* extract_first_statement, which QueryTool applies to the text it is      *)
(* given: a scanner that looks for the first semicolon outside of quotes.  *)
(* A backslash makes it skip the next character, inside and outside of     *)
(* quotes.  A character is one of the kinds that the scanner tells apart.  *)
(***************************************************************************)
EXTENDS Naturals, Sequences, SequencesExt, FiniteSetsExt

CONSTANTS
    Characters,     \* of "single", "double", "backslash", "semicolon",
                    \* "space" and "letter"
    MaxTextLength   \* bound: the length of a text

VARIABLES
    scanPc,             \* "new", "scan" or "done"
    text,
    position,           \* the next character
    in_single_quote,
    in_double_quote,
    escape_next,
    statement           \* the text returned

scanVars == <<scanPc, text, position, in_single_quote, in_double_quote,
              escape_next, statement>>

Printing(s) == {i \in DOMAIN s : s[i] # "space"}

\* str::trim
trim(s) == IF Printing(s) = {} THEN <<>>
           ELSE SubSeq(s, Min(Printing(s)), Max(Printing(s)))

ScanInit ==
    /\ scanPc = "new"
    /\ text = <<>> /\ statement = <<>>
    /\ position = 1
    /\ in_single_quote = FALSE /\ in_double_quote = FALSE /\ escape_next = FALSE

CallExtract(query) ==
    /\ scanPc = "new"
    /\ text' = trim(query)
    /\ scanPc' = "scan"
    /\ UNCHANGED <<position, in_single_quote, in_double_quote, escape_next, statement>>

Scanning == scanPc = "scan" /\ position <= Len(text)
Advance == position' = position + 1 /\ UNCHANGED <<scanPc, text, statement>>
char == text[position]
Quoted == in_single_quote \/ in_double_quote

Skip ==
    /\ Scanning /\ escape_next
    /\ escape_next' = FALSE
    /\ Advance
    /\ UNCHANGED <<in_single_quote, in_double_quote>>

Escape ==
    /\ Scanning /\ ~escape_next /\ char = "backslash"
    /\ escape_next' = TRUE
    /\ Advance
    /\ UNCHANGED <<in_single_quote, in_double_quote>>

\* Mutant: a quote of the other kind opens a string inside a string.
QuoteAnyhow ==
    /\ Scanning /\ ~escape_next
    /\ \/ /\ char = "single"
          /\ in_single_quote' = ~in_single_quote /\ UNCHANGED in_double_quote
       \/ /\ char = "double"
          /\ in_double_quote' = ~in_double_quote /\ UNCHANGED in_single_quote
    /\ Advance
    /\ UNCHANGED escape_next

Quote ==
    /\ Scanning /\ ~escape_next
    /\ \/ /\ char = "single" /\ ~in_double_quote
          /\ in_single_quote' = ~in_single_quote /\ UNCHANGED in_double_quote
       \/ /\ char = "double" /\ ~in_single_quote
          /\ in_double_quote' = ~in_double_quote /\ UNCHANGED in_single_quote
    /\ Advance
    /\ UNCHANGED escape_next

Pass ==
    /\ Scanning /\ ~escape_next
    /\ \/ char \in {"space", "letter"}
       \/ char = "semicolon" /\ Quoted
       \/ char = "single" /\ in_double_quote
       \/ char = "double" /\ in_single_quote
    /\ Advance
    /\ UNCHANGED <<in_single_quote, in_double_quote, escape_next>>

Extract(found) ==
    /\ statement' = found
    /\ scanPc' = "done"
    /\ UNCHANGED <<text, position, in_single_quote, in_double_quote, escape_next>>

FoundEnd ==
    /\ Scanning /\ ~escape_next /\ char = "semicolon" /\ ~Quoted
    /\ Extract(trim(SubSeq(text, 1, position - 1)))

NoEnd == scanPc = "scan" /\ position > Len(text) /\ Extract(text)

ScanNext ==
    \/ \E query \in SeqOf(Characters, MaxTextLength) : CallExtract(query)
    \/ Skip \/ Escape \/ Quote \/ Pass
    \/ FoundEnd \/ NoEnd

ScanSpec == ScanInit /\ [][ScanNext]_scanVars

-----------------------------------------------------------------------------
ScanTypeOK ==
    /\ scanPc \in {"new", "scan", "done"}
    /\ position \in 1 .. Len(text) + 1
    /\ ~(in_single_quote /\ in_double_quote)

(* The same without a scanner: a statement is a string of tokens.  A piece  *)
(* of the text is a pair, its first and its last position.                  *)

Pieces == (DOMAIN text) \X (DOMAIN text)

\* Characters i to j are cut, at the positions in some set, into such pieces.
Splits(i, j, pieces) ==
    \E cuts \in SUBSET (i .. j + 1) :
        /\ {i, j + 1} \subseteq cuts
        /\ \A c, d \in cuts :
              c < d /\ (\A b \in cuts : b <= c \/ b >= d) => <<c, d - 1>> \in pieces

EscapedPairs == {p \in Pieces : p[2] = p[1] + 1 /\ text[p[1]] = "backslash"}

\* What a string is made of between its quotes.
InString(quote) ==
    EscapedPairs
    \cup {p \in Pieces : p[1] = p[2] /\ text[p[1]] \notin {quote, "backslash"}}

StringLiterals(quote) ==
    {p \in Pieces :
        /\ p[1] < p[2] /\ text[p[1]] = quote /\ text[p[2]] = quote
        /\ Splits(p[1] + 1, p[2] - 1, InString(quote))}

Tokens ==
    EscapedPairs
    \cup {p \in Pieces : p[1] = p[2] /\ text[p[1]] \in {"space", "letter"}}
    \cup StringLiterals("single") \cup StringLiterals("double")

\* What is returned are the complete tokens before the first semicolon that
\* complete tokens precede; the whole text when there is no such semicolon, for
\* one when a string is not closed.
FirstStatementIsFirst ==
    scanPc = "done" =>
        LET ends == {p \in DOMAIN text :
                        text[p] = "semicolon" /\ Splits(1, p - 1, Tokens)}
        IN  statement = IF ends = {} THEN text
                        ELSE trim(SubSeq(text, 1, Min(ends) - 1))
=============================================================================
