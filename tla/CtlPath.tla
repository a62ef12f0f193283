-------------------------------- MODULE CtlPath --------------------------------
(***************************************************************************)
(* The paths of a request of the control interface                         *)
(* (src/src/ctl_interface_cmd.c): the text behind GET, WHERE and OUTFILE   *)
(* and the assignment behind APPLY are cut into segments in place.  Every  *)
(* cut is a NUL written over a delimiter; a segment is remembered by the   *)
(* positions where its key and its value start.                            *)
(*                                                                         *)
(* A character is a string; a text is a sequence of them.                  *)
(***************************************************************************)
EXTENDS Integers, Sequences, FiniteSets, SequencesExt

CONSTANTS
    MAX_VALUE_DEPTH,   \* CTLIC_MAX_VALUE_DEPTH
    NoFilter,          \* a segment without "@value"
    PathTexts          \* what may be asked: [tok, text]

ASSUME PathAssumption ==
    /\ MAX_VALUE_DEPTH \in Nat \ {0}
    /\ \A q \in PathTexts : q.text \in Seq(STRING)

VARIABLES
    path,      \* the token and its text
    parsed     \* <<>> until it is parsed

pathVars == <<path, parsed>>

ESC == "ESC"    \* the backslash

Separator(tok, c) == c = "/" \/ (tok = "WHERE" /\ c = "&")

-------------------------------------------------------------------------------
\* ctlic_parse_token_value_GET(), a character at a time.

PathStart == [rc |-> "ok", esc |-> FALSE, sep |-> FALSE, at |-> FALSE,
              cuts |-> {}, segs |-> <<>>]

Plainly(st) == [st EXCEPT !.esc = FALSE, !.sep = FALSE, !.at = FALSE]

NewKey(st, i) ==
    IF Len(st.segs) = MAX_VALUE_DEPTH
      THEN [st EXCEPT !.rc = "E2BIG"]
      ELSE Plainly([st EXCEPT !.segs = Append(@, [key |-> i, val |-> 0])])

NewVal(st, i) ==
    IF st.segs = <<>> \/ Len(st.segs) >= MAX_VALUE_DEPTH
      THEN [st EXCEPT !.rc = "EBADMSG"]
      ELSE Plainly([st EXCEPT !.segs[Len(st.segs)].val = i])

CutSeparator_dangling(st, i) ==    \* mutant: "a@/b" is let through
    [st EXCEPT !.sep = TRUE, !.cuts = @ \cup {i}]
CutSeparator(st, i) ==
    IF st.at THEN [st EXCEPT !.rc = "EBADMSG"]
             ELSE [st EXCEPT !.sep = TRUE, !.cuts = @ \cup {i}]

PathChar(tok, s, st, i) ==
    IF st.rc # "ok" THEN st
    ELSE IF s[i] = ESC THEN [st EXCEPT !.esc = TRUE]
    ELSE IF Separator(tok, s[i]) /\ ~st.esc THEN CutSeparator(st, i)
    ELSE IF s[i] = "@" /\ ~st.esc THEN [st EXCEPT !.at = TRUE, !.cuts = @ \cup {i}]
    ELSE IF st.sep THEN NewKey(st, i)
    ELSE IF st.at THEN NewVal(st, i)
    ELSE Plainly(st)

\* The C string that starts at position i.
CString(s, cuts, i) ==
    IF i = 0 THEN NoFilter
    ELSE SubSeq(s, i, Min({j \in cuts : j > i} \cup {Len(s) + 1}) - 1)

\* ctlic_regex_compile(): an unbalanced bracket is refused.
Compiles(text) == text = NoFilter \/ "[" \notin Range(text)

Compiled(p) == IF \A i \in DOMAIN p.segs :
                     Compiles(p.segs[i].key) /\ Compiles(p.segs[i].val)
                 THEN p ELSE [rc |-> "EBADMSG", segs |-> <<>>]

Parsed(s, st) == Compiled(
    [rc |-> st.rc,
     segs |-> IF st.rc # "ok" THEN <<>>
              ELSE [i \in DOMAIN st.segs |->
                      [key |-> CString(s, st.cuts, st.segs[i].key),
                       val |-> CString(s, st.cuts, st.segs[i].val)]]])

parse_token_value_GET(tok, s) ==
    IF s = <<>> \/ s[1] # "/" THEN [rc |-> "EINVAL", segs |-> <<>>]
    ELSE Parsed(s, FoldLeft(LAMBDA st, i : PathChar(tok, s, st, i),
                            PathStart, [i \in 1..Len(s) |-> i]))

\* ctlic_parse_token_value_APPLY(): the first free "@" ends the key, the value
\* starts at the next character that is neither "@" nor a backslash.
FreeAt(s, i) == s[i] = "@" /\ (i = 1 \/ s[i-1] # ESC)

parse_token_value_APPLY(s) ==
    LET ats == {i \in DOMAIN s : FreeAt(s, i)}
        vals == {i \in DOMAIN s : i > Min(ats) /\ s[i] # ESC /\ ~FreeAt(s, i)}
    IN  IF s = <<>> THEN [rc |-> "EINVAL", segs |-> <<>>]
        ELSE IF ats = {} THEN [rc |-> "EBADMSG", segs |-> <<>>]
        ELSE Compiled([rc |-> "ok", segs |->
               <<[key |-> SubSeq(s, 1, Min(ats) - 1),
                  val |-> IF vals = {} THEN NoFilter
                          ELSE SubSeq(s, Min(vals), Len(s))]>>])

\* ctlic_parse_token_value()
parse_token_value(tok, s) ==
    IF tok = "APPLY" THEN parse_token_value_APPLY(s)
                     ELSE parse_token_value_GET(tok, s)

PathInit == path \in PathTexts /\ parsed = <<>>

ParseValue == /\ parsed = <<>>
              /\ parsed' = <<parse_token_value(path.tok, path.text)>>
              /\ UNCHANGED path

PathSpec == PathInit /\ [][ParseValue]_pathVars

-------------------------------------------------------------------------------
\* What a path means, without the parser's state.  D are its delimiters, L its
\* letters: the characters that are neither delimiters nor backslashes.

Delims(tok, s) ==
    {i \in DOMAIN s : /\ Separator(tok, s[i]) \/ s[i] = "@"
                      /\ ~(i > 1 /\ s[i-1] = ESC)}
Letters(s, D) == {i \in DOMAIN s : s[i] # ESC} \ D

\* The delimiters right before i, backslashes aside.
RunBefore(D, L, i) == {j \in D : j < i /\ L \cap (j+1)..(i-1) = {}}

\* The letters behind delimiters start a key, or a value behind "@" alone.
Starts(D, L) == {i \in L : RunBefore(D, L, i) # {}}
KeyStarts(s, D, L) == {i \in Starts(D, L) : \E j \in RunBefore(D, L, i) : s[j] # "@"}

\* The values that follow key k before the next one; the last of them counts.
ValuesOf(K, V, k) == {i \in V : k < i /\ ~ \E j \in K : k < j /\ j <= i}

Ordinal(K, k) == Cardinality({j \in K : j <= k})

TextAt(s, D, i) == SubSeq(s, i, Min({j \in D : j > i} \cup {Len(s) + 1}) - 1)

FilterOf(s, D, K, V, k) ==
    IF ValuesOf(K, V, k) = {} THEN NoFilter ELSE TextAt(s, D, Max(ValuesOf(K, V, k)))

\* An "@" with nothing behind it before the next separator.
Dangling(s, D, L) == \E k \in D : s[k] # "@" /\ \E j \in RunBefore(D, L, k) : s[j] = "@"

\* The last segment that there is room for cannot have a value.
TooDeep(K, V) == \/ Cardinality(K) > MAX_VALUE_DEPTH
                 \/ \E k \in K : Ordinal(K, k) = MAX_VALUE_DEPTH /\ ValuesOf(K, V, k) # {}

Malformed(s, D, L, K, V) ==
    \/ Dangling(s, D, L) \/ TooDeep(K, V)
    \/ \E k \in K : ~Compiles(TextAt(s, D, k)) \/ ~Compiles(FilterOf(s, D, K, V, k))

\* ctlic_parse_token_value_GET: however separators, "@" and backslashes are
\* mixed, a path is refused exactly if it does not start with "/", has a dangling
\* "@", is too deep or has a part that does not compile; otherwise the in-place
\* cuts give every segment the key and the value that the path means, in order.
PathParsed ==
    (parsed # <<>> /\ path.tok # "APPLY") =>
      LET r == parsed[1]
          s == path.text
          D == Delims(path.tok, s)
          L == Letters(s, D)
          K == KeyStarts(s, D, L)
          V == Starts(D, L) \ K
      IN  IF s = <<>> \/ s[1] # "/" \/ Malformed(s, D, L, K, V)
            THEN r.rc # "ok"
            ELSE /\ r.rc = "ok" /\ Len(r.segs) = Cardinality(K)
                 /\ \A k \in K : r.segs[Ordinal(K, k)] =
                       [key |-> TextAt(s, D, k), val |-> FilterOf(s, D, K, V, k)]
================================================================================
