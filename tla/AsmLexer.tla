------------------------------ MODULE AsmLexer ------------------------------
(***************************************************************************)
(* The lexical scanner of tinyasm (c2/assembler/asm_lexer.c), as AsmParse  *)
(* uses it: AsmLexerScan is called until it reports the end of the file or *)
(* an error.  One step fetches one character (AsmLexerNextChar) and does   *)
(* what the scanning function does with it.                                *)
(*                                                                         *)
(* A character stands for its class: "a" and "A" for the letters that are  *)
(* hexadecimal digits, "g" for the other ones, "0", "7" and "9" for the    *)
(* digits, " " for every space but the line feed, "(" for the brackets and *)
(* the comma, "!" for all that no token begins with.                       *)
(***************************************************************************)
EXTENDS Integers, Sequences, FiniteSets

CONSTANTS
    Alphabet,    \* the characters that occur
    Keywords,    \* the texts of asm_keywords.gperf, in lower case
    MaxLength,   \* the length of an input, at most
    MemoryFails  \* whether an allocation may fail (once)

None == "none"   \* ASM_LEXER_EOF, which is also the empty lookahead

ASSUME LexerAssumption == /\ MaxLength \in Nat
                          /\ MemoryFails \in BOOLEAN
                          /\ None \notin Alphabet

VARIABLES
    input,      \* the characters that the read callback has returned
    stream,     \* "open", "ended" (end of file) or "broken" (read error)
    lookahead,  \* the character that was put back, or None
    line,       \* the current line
    state,      \* where the scanner is in its token
    text,       \* the bytes in the buffer of the token
    tokens,     \* the tokens returned so far
    exhausted   \* whether an allocation has failed

lvars == <<input, stream, lookahead, line, state, text, tokens, exhausted>>

Space      == {" ", "\n"}
Oct        == {"0", "7"}
Digit      == Oct \cup {"9"}
Letter     == {"a", "A", "g", "x", "X"}
Hex        == Digit \cup {"a", "A"}
Word       == Letter \cup {"_"} \cup Digit
Special    == {"("}
Single     == Special \cup {":"}
Delimiters == {None} \cup Space \cup Special

\* A keyword is a name, or begins with a dot.
ASSUME KeywordAssumption == \A w \in Keywords : w # <<>> /\ w[1] \in Letter \cup {"."}

lower(c) == CASE c = "A" -> "a" [] c = "X" -> "x" [] OTHER -> c
upper(c) == CASE c = "a" -> "A" [] c = "X" -> "x" [] OTHER -> c

\* AsmKeywordLookup: the table ignores case.
IsKeyword(w) == [i \in DOMAIN w |-> lower(w[i])] \in Keywords

(***************************************************************************)
(* The characters that go on with a token, and the state they lead to.     *)
(***************************************************************************)
Begins(c) ==
    CASE c \in Letter \cup {"_"} -> "identifier"
      [] c = "@"                 -> "local"
      [] c = "."                 -> "keyword"
      [] c = "-"                 -> "minus"
      [] c = "0"                 -> "zero"
      [] c \in Digit \ {"0"}     -> "decimal"
      [] OTHER                   -> "none"

Continues(s, c) ==
    CASE s \in {"identifier", "local"} /\ c \in Word -> s
      [] s = "keyword" /\ c \in Letter               -> s
      [] s = "minus" /\ c \in Digit                  -> Begins(c)
      [] s = "zero" /\ c \in {"x", "X"}              -> "x"
      [] s \in {"zero", "octal"} /\ c \in Oct        -> "octal"
      [] s \in {"x", "hex"} /\ c \in Hex             -> "hex"
      [] s = "decimal" /\ c \in Digit                -> s
      [] OTHER                                       -> "none"

Numbers == {"zero", "octal", "hex", "decimal"}

\* Whether the token that c follows is complete.
Ends(s, w, c) ==
    \/ s \in {"identifier", "local"}
    \/ s = "keyword" /\ IsKeyword(w)
    \/ s \in Numbers /\ c \in Delimiters

TypeOf(s, w) ==
    CASE s \in {"identifier", "keyword"} -> IF IsKeyword(w) THEN "keyword" ELSE "identifier"
      [] s \in Numbers                   -> "int"
      [] OTHER                           -> s

\* The byte that is appended to the buffer: hexadecimal digits in capitals.
Byte(s, c) == IF s \in {"x", "hex"} THEN upper(c) ELSE c

-----------------------------------------------------------------------------
(***************************************************************************)
(* AsmLexerNextChar: the lookahead if there is one, else a character of    *)
(* the stream, which moves the position.  c is the character, or None at   *)
(* the end of the file, which the stream then reports again and again.     *)
(***************************************************************************)
NextChar(c) ==
    \/ /\ lookahead # None
       /\ c = lookahead
       /\ UNCHANGED <<input, stream, line>>
    \/ /\ lookahead = None
       /\ stream = "open" /\ Len(input) < MaxLength
       /\ c \in Alphabet
       /\ input' = Append(input, c)
       /\ line' = line + IF c = "\n" THEN 1 ELSE 0
       /\ UNCHANGED stream
    \/ /\ lookahead = None
       /\ c = None
       /\ stream' = "ended"
       /\ UNCHANGED <<input, line>>

\* AsmBufferAppendByte, whose result nobody looks at: where the buffer cannot
\* grow (or does not exist), the byte is missing and the scan goes on.
AppendByte(b, c) ==
    \/ text' = Append(b, c) /\ UNCHANGED exhausted
    \/ MemoryFails /\ ~exhausted /\ exhausted' = TRUE /\ text' = b

\* Wrong: the lookahead is not cleared when it is fetched.
GoToKeeping(s) == state' = s /\ UNCHANGED lookahead

GoTo(s) == state' = s /\ lookahead' = None

\* A return of ASM_LEXER_ERROR, after which AsmParse gives up.
Fail == GoTo("error") /\ text' = <<>> /\ UNCHANGED <<tokens, exhausted>>

\* Wrong: the character behind a token is not put back.
ReturnAndForget(type, w, c) ==
    /\ tokens' = Append(tokens, [type |-> type, text |-> w, line |-> line'])
    /\ text' = <<>> /\ state' = "start" /\ lookahead' = None
    /\ UNCHANGED exhausted

\* AsmTokenNew; the position is the one behind the character read last.
Return(type, w, c) ==
    \/ /\ tokens' = Append(tokens, [type |-> type, text |-> w, line |-> line'])
       /\ text' = <<>> /\ state' = "start" /\ lookahead' = c
       /\ UNCHANGED exhausted
    \/ /\ MemoryFails /\ ~exhausted /\ exhausted' = TRUE
       /\ GoTo("error") /\ text' = <<>>
       /\ UNCHANGED tokens

(***************************************************************************)
(* AsmLexerScan at its beginning: white space is skipped.                  *)
(***************************************************************************)
SkipSpace ==
    /\ state = "start"
    /\ \E c \in Space : NextChar(c)
    /\ lookahead' = None
    /\ UNCHANGED <<state, text, tokens, exhausted>>

EndOfFile ==
    /\ state = "start"
    /\ NextChar(None)
    /\ GoTo("end")
    /\ UNCHANGED <<text, tokens, exhausted>>

BeginComment ==
    /\ state = "start"
    /\ NextChar("/")
    /\ GoTo("slash")
    /\ UNCHANGED <<text, tokens, exhausted>>

BeginToken ==
    /\ state = "start"
    /\ \E c \in Alphabet :
          /\ Begins(c) # "none"
          /\ NextChar(c)
          /\ GoTo(Begins(c))
          /\ AppendByte(<<>>, c)
    /\ UNCHANGED tokens

AsmScanSingle ==
    /\ state = "start"
    /\ \E c \in Single : NextChar(c) /\ Return(c, <<c>>, None)

Unrecognized ==
    /\ state = "start"
    /\ \E c \in Alphabet :
          /\ Begins(c) = "none" /\ c \notin Space \cup Single \cup {"/"}
          /\ NextChar(c)
    /\ Fail

(***************************************************************************)
(* AsmLexerSkipLineComment: the character that ends the comment is put     *)
(* back, and the scan goes on behind it.                                   *)
(***************************************************************************)
SecondSlash ==
    /\ state = "slash"
    /\ \E c \in Alphabet \cup {None} :
          /\ NextChar(c)
          /\ \/ c = "/" /\ GoTo("comment") /\ UNCHANGED <<text, tokens, exhausted>>
             \/ c # "/" /\ Fail

\* Wrong: a comment ends at a line feed only.
SkipCommentToLineFeed ==
    /\ state = "comment"
    /\ \E c \in Alphabet \cup {None} :
          /\ NextChar(c)
          /\ lookahead' = IF c = "\n" THEN c ELSE None
          /\ state' = IF c = "\n" THEN "start" ELSE state
    /\ UNCHANGED <<text, tokens, exhausted>>

SkipComment ==
    /\ state = "comment"
    /\ \E c \in Alphabet \cup {None} :
          /\ NextChar(c)
          /\ lookahead' = IF c = "\n" THEN c ELSE None
          /\ state' = IF c \in {"\n", None} THEN "start" ELSE state
    /\ UNCHANGED <<text, tokens, exhausted>>

(***************************************************************************)
(* AsmScanIdentifier, AsmScanLocalVariable, AsmScanKeyword and             *)
(* AsmScanInteger: the longest run of characters, which is a token or not. *)
(***************************************************************************)
InToken == Numbers \cup {"identifier", "local", "keyword", "minus", "x"}

ContinueToken ==
    /\ state \in InToken
    /\ \E c \in Alphabet :
          /\ Continues(state, c) # "none"
          /\ NextChar(c)
          /\ GoTo(Continues(state, c))
          /\ AppendByte(text, Byte(state', c))
    /\ UNCHANGED tokens

EndToken ==
    /\ state \in InToken
    /\ \E c \in Alphabet \cup {None} :
          /\ Continues(state, c) = "none"
          /\ NextChar(c)
          /\ IF Ends(state, text, c) THEN Return(TypeOf(state, text), text, c) ELSE Fail

\* The read callback reports an I/O error.
ReadError ==
    /\ state \notin {"end", "error"}
    /\ lookahead = None /\ stream = "open"
    /\ stream' = "broken"
    /\ Fail
    /\ UNCHANGED <<input, line>>

Init ==
    /\ input = <<>> /\ stream = "open" /\ lookahead = None /\ line = 1
    /\ state = "start" /\ text = <<>> /\ tokens = <<>> /\ exhausted = FALSE

Next ==
    \/ SkipSpace \/ EndOfFile \/ BeginComment \/ BeginToken \/ AsmScanSingle
    \/ Unrecognized \/ SecondSlash \/ SkipComment \/ ContinueToken \/ EndToken
    \/ ReadError

\* One thread; the stream answers every call.
Spec == Init /\ [][Next]_lvars /\ WF_lvars(Next)

-----------------------------------------------------------------------------
(***************************************************************************)
(* The language that the scanner takes: what a token is, without a         *)
(* scanner.  It follows the comments of asm_lexer.c except for four things *)
(* that the code does otherwise: a bare "@" is a token (see                *)
(* LocalsHaveNames), the line of a token is that of the character behind   *)
(* it (see TokensOnTheirLine), hexadecimal digits come out in capitals, and*)
(* a number must be followed by a delimiter, which a comment is not.       *)
(***************************************************************************)
AllIn(w, from, S) == \A i \in from .. Len(w) : w[i] \in S

Magnitude(w) == IF w[1] = "-" THEN Tail(w) ELSE w

IsInteger(w) ==
    LET m == Magnitude(w)
    IN  /\ m # <<>>
        /\ \/ m[1] \in Digit \ {"0"} /\ AllIn(m, 2, Digit)
           \/ m[1] = "0" /\ AllIn(m, 2, Oct)
           \/ Len(m) > 2 /\ m[1] = "0" /\ m[2] \in {"x", "X"} /\ AllIn(m, 3, Hex)

IsName(w)    == w[1] \notin Digit /\ AllIn(w, 1, Word)
IsLocal(w)   == w[1] = "@" /\ AllIn(w, 2, Word)
IsDotWord(w) == w[1] = "." /\ AllIn(w, 2, Letter)
IsComment(w) == Len(w) > 1 /\ w[1] = "/" /\ w[2] = "/" /\ "\n" \notin {w[i] : i \in DOMAIN w}
IsBlank(w)   == IsComment(w) \/ w \in {<<c>> : c \in Space}
IsSingle(w)  == w \in {<<c>> : c \in Single}

IsLexeme(w) == IsInteger(w) \/ IsName(w) \/ IsLocal(w) \/ IsDotWord(w) \/ IsBlank(w) \/ IsSingle(w)

\* A lexeme at which the input is refused: next is what follows it.
IsIllegal(w, next) == \/ IsDotWord(w) /\ ~IsKeyword(w)
                      \/ IsInteger(w) /\ next \notin Delimiters

Kind(w) == CASE IsInteger(w)                -> "int"
             [] IsKeyword(w)                -> "keyword"
             [] IsName(w) /\ ~ IsKeyword(w) -> "identifier"
             [] IsLocal(w)                  -> "local"
             [] OTHER                       -> w[1]

\* The line of the character at j of the text x, or behind its end.
LineAt(x, j) == 1 + Cardinality({k \in DOMAIN x : k <= j /\ x[k] = "\n"})

\* The token of a lexeme of x that ends at j: hexadecimal digits in capitals, and
\* the line of the character behind it (a single character has its own).
TokenAt(x, w, j) ==
    [type |-> Kind(w),
     text |-> IF IsInteger(w) THEN [i \in DOMAIN w |-> upper(w[i])] ELSE w,
     line |-> LineAt(x, IF IsSingle(w) THEN j ELSE j + 1)]

\* Where lexemes of x that begin at i end, and the longest of them.
LexemeEnds(x, i) == {j \in i .. Len(x) : IsLexeme(SubSeq(x, i, j))}
Longest(x, i)    == CHOOSE e \in LexemeEnds(x, i) : \A f \in LexemeEnds(x, i) : f <= e

\* The tokens of x from i on, cut into the longest lexemes.
Cut(x) ==
    LET n == Len(x)
        from[i \in 1 .. n + 1] ==
          IF i > n THEN [legal |-> TRUE, tokens |-> <<>>]
          ELSE IF LexemeEnds(x, i) = {} THEN [legal |-> FALSE, tokens |-> <<>>]
          ELSE LET j    == Longest(x, i)
                   w    == SubSeq(x, i, j)
                   rest == from[j + 1]
               IN  [legal  |-> /\ ~IsIllegal(w, IF j < n THEN x[j + 1] ELSE None)
                               /\ rest.legal,
                    tokens |-> IF IsBlank(w) THEN rest.tokens
                               ELSE <<TokenAt(x, w, j)>> \o rest.tokens]
    IN  from

\* The tokens of the input.
Defined == Cut(input)[1]

-----------------------------------------------------------------------------
\* The variables have their types, and a character is put back only between
\* two tokens: it is the one that was read last (the assertions of
\* AsmLexerNextChar on the lookahead).
TypeOK ==
    /\ input \in Seq(Alphabet) /\ Len(input) <= MaxLength
    /\ stream \in {"open", "ended", "broken"}
    /\ lookahead # None => state = "start" /\ input # <<>> /\ lookahead = input[Len(input)]
    /\ line \in 1 .. MaxLength + 1
    /\ state \in InToken \cup {"start", "slash", "comment", "end", "error"}
    /\ \A i \in DOMAIN tokens : tokens[i].line \in 1 .. line
    /\ state \in InToken /\ ~exhausted => text # <<>>
    /\ exhausted \in BOOLEAN

\* If memory and reading never fail, AsmLexerScan returns exactly the tokens
\* of the input, in the language above, up to the end of the file, no character
\* being lost or taken twice where a token, a comment or the file ends, and it
\* refuses only inputs that are not made of tokens.
ScannedAsDefined ==
    ~exhausted /\ stream # "broken" =>
        /\ state = "end" => Defined.legal /\ tokens = Defined.tokens
        /\ state = "error" => ~Defined.legal

\* The scanner ends: also for a file that ends within a comment or a token,
\* where the end is reported more than once.
ScanEnds == <>(state \in {"end", "error"})

-----------------------------------------------------------------------------
\* What asm_lexer.c says of local names: "starting with an "@" followed by one
\* or more letters, digits or underscores".
LocalsHaveNames ==
    ~exhausted => \A i \in DOMAIN tokens :
        tokens[i].type = "local" => Len(tokens[i].text) > 1

\* What assembler.h says of the line of a token: "the source line of this token".
\* No token has a line feed in it, so this is the line at which the scanner is
\* before it reads on.
TokensOnTheirLine ==
    [][Len(tokens') > Len(tokens) => tokens'[Len(tokens')].line = line]_lvars

=============================================================================
