----------------------------- MODULE ConfigToken -----------------------------
(***************************************************************************)
(* The reader of "TOKEN value" documents (src/src/config_token.c): it is   *)
(* given a buffer, a set of enabled tokens and a callback, and goes        *)
(* through the buffer one character at a time.                             *)
(*                                                                         *)
(* A character is a string: " " and "NL" are white space, "NUL" ends the   *)
(* text.  Tokens is the table of enabled tokens in the order of            *)
(* enum conf_token_id, each [name, bad]: its name and the values that its  *)
(* regular expression refuses.                                             *)
(***************************************************************************)
EXTENDS Integers, Sequences, FiniteSets, SequencesExt

CONSTANTS
    Tokens,         \* conf_token_set: sequence of [name, bad]
    ValueBufSize,   \* ctsp_value_buf_size
    MaxItems,       \* what the callback takes (CTLIC_MAX_TOKENS_PER_REQ)
    Documents       \* the buffers

\* No token of the table holds a newline.
ASSUME ConfAssumption ==
    /\ Tokens \in Seq([name : Seq(STRING), bad : SUBSET Seq(STRING)])
    /\ \A k \in DOMAIN Tokens : "NL" \notin Range(Tokens[k].name)
    /\ Documents \subseteq Seq(STRING)

VARIABLE parse   \* [doc, i, ct, val, comment, rc, items]

isspace == {" ", "NL"}

Char == parse.doc[parse.i]

Stop(rc) == parse' = [parse EXCEPT !.rc = rc]

ConfInit == \E d \in Documents :
    parse = [doc |-> d, i |-> 1, ct |-> 0, val |-> <<>>, comment |-> FALSE,
             rc |-> "run", items |-> <<>>]

\* A character of the buffer is looked at.
Reading == parse.rc = "run" /\ parse.i <= Len(parse.doc)

\* conf_token_set_parse_match_token(): the first token of the table that
\* stands at the start of rest with white space behind it; a token too long
\* for rest ends the search.
match_token_prefix(rest) ==    \* mutant: what follows the name is not looked at
    LET hits == {k \in DOMAIN Tokens : IsPrefix(Tokens[k].name, rest)}
    IN  IF hits = {} THEN 0 ELSE Min(hits)
match_token(rest) ==
    LET tooLong == {k \in DOMAIN Tokens : Len(Tokens[k].name) + 1 > Len(rest)}
        hits == {k \in DOMAIN Tokens \ tooLong :
                   /\ IsPrefix(Tokens[k].name, rest)
                   /\ rest[Len(Tokens[k].name) + 1] = " "}
    IN  IF hits = {} \/ (\E k \in tooLong : k < Min(hits)) THEN 0 ELSE Min(hits)

\* niova_clear_whitespace_from_end_of_string()
ClearWs(val) ==
    LET ink == {k \in DOMAIN val : val[k] \notin isspace}
    IN  IF ink = {} THEN <<>> ELSE SubSeq(val, 1, Max(ink))

\* conf_token_set_parse(), one action per branch of its loop.
NulChar == Reading /\ Char = "NUL" /\ Stop(IF parse.val = <<>> THEN "ok" ELSE "EBADMSG")

CommentChar ==
    /\ Reading /\ Char # "NUL" /\ parse.ct = 0 /\ (Char = "#" \/ parse.comment)
    /\ parse' = [parse EXCEPT !.i = @ + 1,
                   !.comment = Char = "#" \/ Char # "NL"]

SkipSpace ==
    /\ Reading /\ Char \in isspace /\ ~parse.comment /\ parse.val = <<>>
    /\ parse' = [parse EXCEPT !.i = @ + 1]

MatchToken ==
    /\ Reading /\ parse.ct = 0 /\ ~parse.comment
    /\ Char \notin isspace \cup {"#", "NUL"}
    /\ LET k == match_token(SubSeq(parse.doc, parse.i, Len(parse.doc)))
       IN  IF k = 0 THEN Stop("EBADMSG")
           ELSE parse' = [parse EXCEPT !.ct = k, !.i = @ + Len(Tokens[k].name)]

\* The end of the line: the value is checked and handed to the callback.
ValueEnd ==
    /\ Reading /\ parse.ct # 0 /\ parse.val # <<>> /\ Char = "NL"
    /\ LET v == ClearWs(parse.val) IN
       IF v \in Tokens[parse.ct].bad THEN Stop("EBADMSG")
       ELSE IF Len(parse.items) = MaxItems THEN Stop("E2BIG")
       ELSE parse' = [parse EXCEPT !.i = @ + 1, !.ct = 0, !.val = <<>>,
                        !.items = Append(@, <<parse.ct, v>>)]

ValueChar ==
    /\ Reading /\ parse.ct # 0 /\ Char \notin {"NL", "NUL"}
    /\ parse.val # <<>> \/ Char \notin isspace
    /\ IF Len(parse.val) = ValueBufSize - 1 THEN Stop("E2BIG")
       ELSE parse' = [parse EXCEPT !.i = @ + 1, !.val = Append(@, Char)]

BufferEnd ==
    /\ parse.rc = "run" /\ parse.i > Len(parse.doc)
    /\ Stop(IF parse.val = <<>> THEN "ok" ELSE "EBADMSG")

ConfNext == NulChar \/ CommentChar \/ SkipSpace \/ MatchToken \/ ValueEnd
               \/ ValueChar \/ BufferEnd

ConfSpec == ConfInit /\ [][ConfNext]_parse

-------------------------------------------------------------------------------
\* What a document says, line by line.

Ends(doc) == {i \in DOMAIN doc : doc[i] = "NL"}

LineAt(doc, e) ==    \* the line that ends at e
    SubSeq(doc, Max({0} \cup {f \in Ends(doc) : f < e}) + 1, e - 1)

Ink(line) == {k \in DOMAIN line : line[k] \notin isspace}

\* The tokens of a line that is neither blank nor a comment, and its value.
LineTokens(line) ==
    {k \in DOMAIN Tokens :
       LET b == Min(Ink(line)) - 1
           n == Tokens[k].name
       IN  /\ b + Len(n) < Len(line)
           /\ SubSeq(line, b + 1, b + Len(n)) = n
           /\ line[b + Len(n) + 1] = " "}

LineValue(line, k) ==
    LET b == Min(Ink(line)) + Len(Tokens[k].name)
    IN  SubSeq(line, Min({x \in Ink(line) : x >= b}), Max(Ink(line)))

Says(doc) ==    \* the ends of the lines that hold a setting
    {e \in Ends(doc) : LET l == LineAt(doc, e)
                       IN  Ink(l) # {} /\ l[Min(Ink(l))] # "#"}

\* The document is one that can be read by lines: a newline ends it, every
\* setting has its value beside its token, and no token of the table is longer
\* than what is left of the buffer.
ByLines(doc) ==
    /\ doc # <<>> /\ Last(doc) = "NL" /\ "NUL" \notin Range(doc)
    /\ \A e \in Says(doc) :
         LET l == LineAt(doc, e)
             from == e - Len(l) + Min(Ink(l)) - 1
         IN  /\ \A k \in DOMAIN Tokens : Len(Tokens[k].name) <= Len(doc) - from
             /\ \A k \in LineTokens(l) :
                  Max(Ink(l)) >= Min(Ink(l)) + Len(Tokens[k].name)

\* conf_token_set_parse: character by character the reader hands over, in
\* order and with their white space cleared, exactly the settings that the
\* lines of the document say, and when it stops at a bad line it has handed
\* over those in front of it.
LinesDelivered ==
    (parse.rc # "run" /\ ByLines(parse.doc)) =>
      LET said == Says(parse.doc)
          place(e) == Cardinality({f \in said : f <= e})
          known(e) == LineTokens(LineAt(parse.doc, e))
          item(e) == <<Min(known(e)), LineValue(LineAt(parse.doc, e), Min(known(e)))>>
      IN  /\ Len(parse.items) <= Cardinality(said)
          /\ \A e \in said : place(e) <= Len(parse.items) =>
                known(e) # {} /\ parse.items[place(e)] = item(e)
          /\ parse.rc = "ok" => Len(parse.items) = Cardinality(said)
================================================================================
