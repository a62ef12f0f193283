------------------------------ MODULE CtlRequest ------------------------------
(***************************************************************************)
(* A request of the control interface (src/src/ctl_interface_cmd.c) whose  *)
(* paths CtlPath has cut into segments: the registry is walked segment by  *)
(* segment, printing JSON for GET and writing values for WHERE and APPLY.  *)
(*                                                                         *)
(* A regular expression is the set of strings that it matches.  A registry *)
(* node is [id, utype, rev, skip0, keys, kids], a value of it              *)
(* [key, type, utype, val, rw, vkids] (vkids: the virtual nodes of a       *)
(* VARRAY or VOBJECT).  Output is a sequence of JSON tokens; white space   *)
(* is left out.                                                            *)
(***************************************************************************)
EXTENDS CtlPath

CONSTANTS
    MAX_SIBLING_CNT,   \* CTLIC_MAX_SIBLING_CNT
    Requests           \* what may be asked: [root, tokens, apply]

VARIABLES
    request,    \* a registry, the tokens to scan it for, the assignment
    answer      \* <<>> until it is answered

requestVars == <<request, answer>>

-------------------------------------------------------------------------------
\* Values and segments.

Container == {"ARRAY", "VARRAY", "OBJECT", "VOBJECT", "ANON_OBJECT"}
Arrays == {"ARRAY", "VARRAY"}
Numeric == {"SIGNED", "UNSIGNED", "FLOAT"}    \* lreg_value_is_numeric()

\* LREG_NODE_CB_OP_READ_VAL; store holds what WRITE_VAL has changed.
ReadVal(n, i, store) ==
    LET v == n.keys[i] IN
    IF <<n.id, v.key>> \in DOMAIN store
      THEN [v EXCEPT !.val = store[<<n.id, v.key>>]] ELSE v

\* ctlic_regex_get_compare_string_from_lv() has no string for these types.
NoCompareString == Container \cup {"SIGNED32"}

SkipZero(n, seg, v) ==
    /\ seg.val = NoFilter /\ n.skip0 /\ v.type \in Numeric /\ v.val = "0"

\* ctlic_regex_test_depth_segment(): "error" is -EISDIR.
TestSegment(n, seg, v) ==
    IF v.key \notin seg.key \/ SkipZero(n, seg, v) THEN "no"
    ELSE IF seg.val = NoFilter THEN "match"
    ELSE IF v.type \in NoCompareString THEN "error"
    ELSE IF v.val \in seg.val THEN "match" ELSE "no"

\* lreg_node_walk(): attached children by user type, in the order of the list;
\* virtual children by index, or backwards (lrn_reverse_varray).
Children(kids, utype) ==
    SelectSeq(kids, LAMBDA k : utype = "ANY" \/ k.utype = utype)

VChildren(n, v) ==
    IF v.type = "VOBJECT" THEN SubSeq(v.vkids, 1, 1)
    ELSE IF n.rev THEN Reverse(v.vkids) ELSE v.vkids

Walked(n, v) == IF v.type \in {"VARRAY", "VOBJECT"} THEN VChildren(n, v)
                                                   ELSE Children(n.kids, v.utype)

-------------------------------------------------------------------------------
\* The JSON writer.  An iterator is [tab, sib, printed, parent, type, key, val]
\* where parent is its parent's printed count (0 for the root's).

Tok(x) == <<<<x>>>>

Brackets(type) == IF type \in Arrays THEN <<"[", "]">> ELSE <<"{", "}">>

sibling_helper_first(c) ==    \* mutant: only earlier keys of the node count
    IF c.printed > 0 THEN Tok(",") ELSE <<>>
sibling_helper(c) ==
    IF c.printed > 0 \/ (c.parent > 0 /\ c.type \in Container)
      THEN Tok(",") ELSE <<>>

TooBig(c) == c.tab > 2 * MAX_VALUE_DEPTH \/ c.sib > MAX_SIBLING_CNT

\* ctlic_scan_registry_cb_output_writer() with citer_open_stanza, ...
WriteOpen(c, out) ==
    IF TooBig(c) THEN out
    ELSE IF c.tab = 0 THEN out \o Tok("{")
    ELSE IF c.type = "ANON_OBJECT" THEN out \o sibling_helper(c) \o Tok("{")
    ELSE IF c.type \in Container
      THEN out \o sibling_helper(c) \o <<<<"key", c.key>>>>
               \o Tok(Brackets(c.type)[1])
    ELSE out \o sibling_helper(c) \o <<<<"key", c.key>>, <<"val", c.val>>>>

\* ... and without it.
WriteClose(c, out) ==
    IF ~TooBig(c) /\ (c.tab = 0 \/ c.type \in Container)
      THEN out \o Tok(Brackets(c.type)[2]) ELSE out

\* ctlic_insert_error_kv_into_outfile()
WriteError(c, out) ==
    WriteOpen([c EXCEPT !.type = "STRING", !.key = "error", !.val = "error"], out)

-------------------------------------------------------------------------------
\* GET.  The walk carries r = [p, out, go]: the parent's iterator, the output,
\* and whether the walk goes on.

AnonCiter(p) == [tab |-> p.tab + 1, sib |-> p.sib, printed |-> 0,
                 parent |-> p.printed, type |-> "ANON_OBJECT", key |-> "",
                 val |-> ""]

KvCiter(my, i, cnt, v) ==
    [tab |-> my.tab + 1, sib |-> i - 1, printed |-> cnt,
     parent |-> my.printed, type |-> v.type, key |-> v.key, val |-> v.val]

RECURSIVE GetNode(_, _, _, _, _)

WalkGet(nodes, p, segs, d, x) ==
    FoldLeft(LAMBDA r, n : IF r.go THEN GetNode(n, r.p, segs, d, [x EXCEPT !.out = r.out])
                           ELSE r,
             [p |-> p, out |-> x.out, go |-> TRUE], nodes)

\* One key of a node: k = [out, cnt, rc], cnt the keys printed so far.
GetKey(n, my, segs, d, x, k, i) ==
    LET v == ReadVal(n, i, x.store)
        c == KvCiter(my, i, k.cnt, v)
        sub == [c EXCEPT !.sib = 0, !.printed = 0, !.parent = k.cnt]
        test == TestSegment(n, segs[d], v)
        opened == WriteOpen(c, k.out)
        inner == IF Len(segs) > d /\ v.type \in Container
                   THEN WalkGet(Walked(n, v), sub, segs, d + 1,
                                [x EXCEPT !.out = opened]).out
                   ELSE opened
    IN  CASE k.rc # "ok" -> k
          [] k.rc = "ok" /\ v.type = "ERR" -> [k EXCEPT !.rc = "abort"]
          [] k.rc = "ok" /\ v.type # "ERR" /\ test = "no" -> k
          [] k.rc = "ok" /\ v.type # "ERR" /\ test = "error" ->
               [out |-> WriteError(c, k.out), cnt |-> k.cnt + 1, rc |-> "error"]
          [] OTHER ->
               [out |-> WriteClose(c, inner), cnt |-> k.cnt + 1, rc |-> "ok"]

\* ctlic_scan_registry_cb_CT_ID_GET(); x = [out, store].
GetNode(n, p, segs, d, x) ==
    LET anon == p.type \in Arrays
        my == IF anon THEN AnonCiter(p) ELSE p
        first == IF anon THEN WriteOpen(my, x.out) ELSE x.out
        k == FoldLeft(LAMBDA a, i : GetKey(n, my, segs, d, x, a, i),
                      [out |-> first, cnt |-> 0, rc |-> "ok"],
                      [i \in 1..Len(n.keys) |-> i])
        last == IF anon THEN WriteClose(my, k.out) ELSE k.out
    IN  CASE d > Len(segs) -> [p |-> p, out |-> x.out, go |-> FALSE]
          [] k.rc = "abort" -> [p |-> p, out |-> k.out, go |-> FALSE]
          [] OTHER -> [p |-> [p EXCEPT !.printed = @ + k.cnt,
                                       !.sib = IF k.rc = "ok" THEN @ + 1 ELSE @],
                       out |-> last, go |-> k.rc = "ok"]

-------------------------------------------------------------------------------
\* WHERE and APPLY.  r = [p, out, store, go].

GetKeys(n) == {n.keys[i].key : i \in DOMAIN n.keys}

\* ctlic_try_apply_here(): apply is [key, val], or NoFilter without a token.
ApplyHere(n, apply, store) ==
    IF apply = NoFilter \/ apply.val = NoFilter
      THEN [rc |-> "EBADMSG", store |-> store]
    ELSE IF apply.key \notin GetKeys(n) THEN [rc |-> "ENOENT", store |-> store]
    ELSE IF \E i \in DOMAIN n.keys : n.keys[i].key = apply.key /\ ~n.keys[i].rw
      THEN [rc |-> "EPERM", store |-> store]
    ELSE [rc |-> "ok", store |-> [e \in DOMAIN store \cup {<<n.id, apply.key>>} |->
                                 IF e = <<n.id, apply.key>> THEN apply.val
                                                           ELSE store[e]]]

\* ctlic_try_apply_to_value(): a virtual array is entered past its last index,
\* where its callback refuses.
ApplyToValue(n, v, apply, store) ==
    CASE v.type = "VARRAY" -> [rc |-> "ERANGE", store |-> store]
      [] v.type = "VOBJECT" -> ApplyHere(v.vkids[1], apply, store)
      [] OTHER -> ApplyHere(n, apply, store)

\* The error is printed by the root's iterator, one level down.
ErrorAtRoot(r) ==
    LET c == [r.p EXCEPT !.tab = @ + 1, !.parent = r.p.printed] IN
    [r EXCEPT !.out = WriteError(c, @), !.p.printed = @ + 1, !.go = FALSE]

RECURSIVE WhereNode(_, _, _, _, _)

WalkWhere(nodes, apply, segs, d, r) ==
    FoldLeft(LAMBDA a, n : IF a.go THEN WhereNode(n, apply, segs, d, a) ELSE a,
             r, nodes)

\* ctlic_where_descend(): how a walk ended is not passed on.
WhereDescend_same(n, v, apply, segs, d, r) ==  \* mutant: scalars do not select
    [WalkWhere(Walked(n, v), apply, segs, d, r) EXCEPT !.go = TRUE]
WhereDescend(n, v, apply, segs, d, r) ==
    IF v.type \in Container
      THEN [WalkWhere(Walked(n, v), apply, segs, d, r) EXCEPT !.go = TRUE]
      ELSE WhereNode(n, apply, segs, d, r)

\* One key; r.done says that the node's loop has returned.
WhereKey(n, apply, segs, d, r, i) ==
    LET v == ReadVal(n, i, r.store)
        test == TestSegment(n, segs[d], v)
        a == ApplyToValue(n, v, apply, r.store)
    IN  IF ~r.go \/ r.done THEN r
        ELSE IF v.type = "ERR" THEN [r EXCEPT !.done = TRUE]
        ELSE CASE test = "no" -> r
          [] test = "error" -> ErrorAtRoot(r)
          [] test = "match" /\ Len(segs) > d ->
                WhereDescend(n, v, apply, segs, d + 1, r)
          [] test = "match" /\ Len(segs) = d ->
                IF a.rc = "ok" THEN [r EXCEPT !.store = a.store] ELSE ErrorAtRoot(r)

\* ctlic_scan_registry_cb_CT_ID_WHERE()
WhereNode(n, apply, segs, d, r) ==
    IF d > Len(segs) THEN [r EXCEPT !.go = FALSE]
    ELSE [FoldLeft(LAMBDA a, i : WhereKey(n, apply, segs, d, a, i),
                   [r EXCEPT !.done = FALSE], [i \in 1..Len(n.keys) |-> i])
            EXCEPT !.done = FALSE]

-------------------------------------------------------------------------------
\* ctlic_scan_registry(): the braces, and between them the tokens in order.
\* A request is a sequence of [id, segs] and one assignment.

RootCiter == [tab |-> 0, sib |-> 0, printed |-> 0, parent |-> 0,
              type |-> "NONE", key |-> "", val |-> ""]

ScanToken(root, apply, utype, r, t) ==
    LET top == Children(root, utype)
        got == WalkGet(top, r.p, t.segs, 1, [out |-> r.out, store |-> r.store])
    IN  CASE t.id = "GET" -> [r EXCEPT !.p = got.p, !.out = got.out]
          [] t.id = "WHERE" ->
               [WalkWhere(top, apply, t.segs, 1, r) EXCEPT !.go = TRUE]
          [] OTHER -> r

scan_registry(root, tokens, apply, utype) ==
    LET start == [p |-> RootCiter, out |-> WriteOpen(RootCiter, <<>>),
                  store |-> <<>>, go |-> TRUE, done |-> FALSE]
        end == FoldLeft(LAMBDA r, t : ScanToken(root, apply, utype, r, t),
                        start, tokens)
    IN  [out |-> WriteClose(RootCiter, end.out), store |-> end.store]

RequestInit == request \in Requests /\ answer = <<>>

ScanRegistry ==
    /\ answer = <<>>
    /\ answer' = <<scan_registry(request.root, request.tokens, request.apply, "ANY")>>
    /\ UNCHANGED request

-------------------------------------------------------------------------------
\* What a GET selects, as nested JSON, and what a WHERE selects.

Selected(n, v, seg) ==
    /\ v.key \in seg.key
    /\ IF seg.val = NoFilter
         THEN ~(n.skip0 /\ v.type \in Numeric /\ v.val = "0")
         ELSE v.type \notin NoCompareString /\ v.val \in seg.val

BadFilter(v, seg) ==
    v.key \in seg.key /\ seg.val # NoFilter /\ v.type \in NoCompareString

Errs(n, segs, d) == \E i \in DOMAIN n.keys : BadFilter(n.keys[i], segs[d])

\* The nodes up to the first one where the filter cannot apply, included.
UpToError(nodes, segs, d) ==
    LET bad == {i \in DOMAIN nodes : Errs(nodes[i], segs, d)} IN
    IF bad = {} THEN nodes ELSE SubSeq(nodes, 1, Min(bad))

Join(parts) == FlattenSeq([i \in DOMAIN parts |->
                             IF i = 1 THEN parts[i] ELSE Tok(",") \o parts[i]])

RECURSIVE Members(_, _, _)

\* A value as JSON: an array is a list of objects, an object its members.
Json(n, v, segs, d) ==
    LET kids == IF Len(segs) > d THEN UpToError(Walked(n, v), segs, d + 1) ELSE <<>>
        parts == [i \in DOMAIN kids |-> Members(kids[i], segs, d + 1)]
    IN  CASE v.type \in Arrays ->
               Tok("[") \o Join([i \in DOMAIN parts |->
                                   Tok("{") \o Join(parts[i]) \o Tok("}")]) \o Tok("]")
          [] v.type \in Container \ Arrays ->
               Tok("{") \o Join(FlattenSeq(parts)) \o Tok("}")
          [] OTHER -> <<<<"val", v.val>>>>

Members(n, segs, d) ==
    LET bad == {i \in DOMAIN n.keys : BadFilter(n.keys[i], segs[d])}
        end == IF bad = {} THEN Len(n.keys) ELSE Min(bad)
        hit == SelectSeq([i \in 1..end |-> i], LAMBDA i :
                  i \in bad \/ Selected(n, n.keys[i], segs[d]))
    IN  [x \in DOMAIN hit |->
           LET v == n.keys[hit[x]] IN
           IF hit[x] \in bad THEN <<<<"key", "error">>, <<"val", "error">>>>
           ELSE <<<<"key", v.key>>>> \o Json(n, v, segs, d)]

Expected(root, tokens) ==
    Tok("{") \o Join(FlattenSeq([t \in DOMAIN tokens |->
        LET nodes == UpToError(root, tokens[t].segs, 1)
        IN  FlattenSeq([i \in DOMAIN nodes |-> Members(nodes[i], tokens[t].segs, 1)])]))
      \o Tok("}")

NoCommas(out) == SelectSeq(out, LAMBDA t : t # <<",">>)

\* An element that selects nothing is followed by another one.
EmptyThenMore(out) == \E i \in 1..Len(out)-2 :
                         out[i] = <<"{">> /\ out[i+1] = <<"}">> /\ out[i+2] = <<",">>

IsGet(req) == \A t \in DOMAIN req.tokens : req.tokens[t].id = "GET"

\* ctlic_scan_registry_cb_CT_ID_GET and its output writer: the walk prints the
\* nested selection that the paths ask for, each bracket closed, an error in
\* the place of the value that could not be filtered; the commas are right
\* wherever no array element in front was empty.
GetSelects ==
    (answer # <<>> /\ IsGet(request)) =>
      LET out == answer[1].out
          want == Expected(request.root, request.tokens)
      IN  /\ NoCommas(out) = NoCommas(want)
          /\ ~EmptyThenMore(want) => out = want

RECURSIVE Targets(_, _, _)

\* The nodes that the last segment of a WHERE selects in a list of nodes.
Targets(nodes, segs, d) ==
    UNION {LET n == nodes[x] IN
           UNION {LET v == n.keys[i] IN
                  IF ~Selected(n, v, segs[d]) THEN {}
                  ELSE IF Len(segs) = d
                    THEN IF v.type = "VOBJECT" THEN {v.vkids[1].id}
                         ELSE IF v.type = "VARRAY" THEN {} ELSE {n.id}
                  ELSE IF v.type \in Container
                    THEN Targets(Walked(n, v), segs, d + 1)
                  ELSE Targets(<<n>>, segs, d + 1)
                  : i \in DOMAIN n.keys}
           : x \in DOMAIN nodes}

\* ctlic_scan_registry_cb_CT_ID_WHERE: an APPLY changes its key in exactly the
\* nodes that the WHERE path selects, whether scalars or containers lead to
\* them, and a WHERE without an APPLY changes nothing and says so; where an error
\* was printed it may have stopped early, and then it has changed no other node.
WhereApplies ==
    (answer # <<>> /\ ~IsGet(request) /\ Len(request.tokens) = 1) =>
      LET t == Targets(request.root, request.tokens[1].segs, 1)
          written == DOMAIN answer[1].store
          asked == IF request.apply = NoFilter THEN {}
                   ELSE {<<n, request.apply.key>> : n \in t}
          failed == <<"key", "error">> \in Range(answer[1].out)
      IN  /\ \A w \in written :
               w \in asked /\ answer[1].store[w] = request.apply.val
          /\ ~failed => written = asked /\ (request.apply = NoFilter => t = {})
================================================================================
