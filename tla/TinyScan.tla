------------------------------ MODULE TinyScan ------------------------------
(***************************************************************************)
(* The scanner of the TINY compiler (scan.c): a source text, a sequence of *)
(* characters, becomes a sequence of tokens.  The parser calls getToken as *)
(* it goes, but nothing it does changes what the scanner returns, so the   *)
(* whole text is scanned at once.                                          *)
(***************************************************************************)
EXTENDS Integers, Sequences, SequencesExt

CONSTANT MAXTOKENLEN  \* 40 in the code

Letters == {"a", "d", "e", "f", "h", "i", "l", "n", "p", "r", "s", "t", "u", "w", "x", "y"}
Digits == {"0", "1", "2", "3"}
Blanks == {" ", "\n"}

\* The symbols of one character, by the token each is.
Symbols == ("=" :> "EQ") @@ ("<" :> "LT") @@ ("+" :> "PLUS") @@ ("-" :> "MINUS")
           @@ ("*" :> "TIMES") @@ ("/" :> "OVER") @@ ("(" :> "LPAREN")
           @@ (")" :> "RPAREN") @@ (";" :> "SEMI")

Reserved == (<<"i", "f">> :> "IF") @@ (<<"t", "h", "e", "n">> :> "THEN")
            @@ (<<"e", "l", "s", "e">> :> "ELSE") @@ (<<"e", "n", "d">> :> "END")
            @@ (<<"r", "e", "p", "e", "a", "t">> :> "REPEAT")
            @@ (<<"u", "n", "t", "i", "l">> :> "UNTIL")
            @@ (<<"r", "e", "a", "d">> :> "READ") @@ (<<"w", "r", "i", "t", "e">> :> "WRITE")

Lookup(table, key, default) == IF key \in DOMAIN table THEN table[key] ELSE default

\* A token; the lexeme is kept where a later pass uses it.
Token(tok, lex) == [tok |-> tok, lex |-> IF tok \in {"ID", "NUM"} THEN lex ELSE <<>>]

reservedLookup(lex) == Lookup(Reserved, lex, "ID")

(***************************************************************************)
(* getToken's automaton.  z is its state, the lexeme so far, the tokens    *)
(* returned and the position of the next character to be read.             *)
(***************************************************************************)
Scanner == [state |-> "START", lex |-> <<>>, linepos |-> 1, toks |-> <<>>]

Return(z, tok) ==
  [z EXCEPT !.state = "START", !.lex = <<>>, !.toks = Append(@, Token(tok, z.lex))]

\* if((save) && (tokenStringIndex <= MAXTOKENLEN)) ...
Save(z, c) == IF Len(z.lex) <= MAXTOKENLEN THEN [z EXCEPT !.lex = Append(@, c)] ELSE z

ToState(z, state) == [z EXCEPT !.state = state]

\* mutant: the character that ends a number or a name is lost
MutUnget(z) == z

Unget(z) == [z EXCEPT !.linepos = @ - 1]

InStart(z, c) ==
  CASE c \in Digits  -> Save(ToState(z, "INNUM"), c)
    [] c \in Letters -> Save(ToState(z, "INID"), c)
    [] c = ":"       -> ToState(z, "INASSIGN")
    [] c \in Blanks  -> z
    [] c = "{"       -> ToState(z, "INCOMMENT")
    [] OTHER         -> Return(z, Lookup(Symbols, c, "ERROR"))

Backup(z, tok) == Unget(Return(z, tok))

OnChar(z, c) ==
  CASE z.state = "START"     -> InStart(z, c)
    [] z.state = "INCOMMENT" -> IF c = "}" THEN ToState(z, "START") ELSE z
    [] z.state = "INASSIGN"  -> IF c = "=" THEN Return(z, "ASSIGN") ELSE Backup(z, "ERROR")
    [] z.state = "INNUM"     -> IF c \in Digits THEN Save(z, c) ELSE Backup(z, "NUM")
    [] z.state = "INID"      -> IF c \in Letters THEN Save(z, c)
                                ELSE Backup(z, reservedLookup(z.lex))

\* What the end of the file does in each state; ENDFILE itself is left out.
AtEof(z) ==
  CASE z.state \in {"START", "INCOMMENT"} -> z
    [] z.state = "INASSIGN" -> Return(z, "ERROR")
    [] z.state = "INNUM"    -> Return(z, "NUM")
    [] z.state = "INID"     -> Return(z, reservedLookup(z.lex))

NextChar(z) == [z EXCEPT !.linepos = @ + 1]

RECURSIVE ScanFrom(_, _)
ScanFrom(z, text) ==
  IF z.linepos > Len(text) THEN AtEof(z).toks
  ELSE ScanFrom(OnChar(NextChar(z), text[z.linepos]), text)

Scan(text) == ScanFrom(Scanner, text)
=============================================================================
