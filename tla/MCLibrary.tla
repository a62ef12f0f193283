------------------------------ MODULE MCLibrary ------------------------------
(***************************************************************************)
(* The library's algorithms and data structures, model checked side by     *)
(* side: `unit` names the one that runs, on every input of its set, while  *)
(* the others stay where they start.                                       *)
(***************************************************************************)
EXTENDS CtlRequest, ConfigToken, Bitmap, VBasic, IoVec, Histogram, CtlSvc,
        BufferInit, BufferSet, RefTree, FaultInject

VARIABLE unit

Units == {"path", "request", "config", "bitmap", "vba", "vectors", "transfer", "histogram",
          "ctl_svc", "layout", "buffer_set", "ref_tree", "faults"}
-------------------------------------------------------------------------------
\* Control requests to a registry with arrays, objects, virtual nodes, skipped and
\* reversed children.
Val(k, type, val, rw) == [key |-> k, type |-> type, utype |-> "", val |-> val,
                          rw |-> rw, vkids |-> <<>>]
List(k, type, utype)  == [Val(k, type, "", FALSE) EXCEPT !.utype = utype]
Virt(k, type, vkids)  == [Val(k, type, "", FALSE) EXCEPT !.vkids = vkids]
Node(id, utype, keys, kids) == [id |-> id, utype |-> utype, rev |-> FALSE,
                                skip0 |-> FALSE, keys |-> keys, kids |-> kids]
Elem(id, x, y) == Node(id, "X", <<Val("name", "STRING", x, FALSE),
                                  Val("cnt", "UNSIGNED", y, TRUE)>>, <<>>)
Entry(id, k) == Node(id, "V", <<Val("op", "UNSIGNED", k, FALSE)>>, <<>>)
Roots ==
    { << Node("r1", "U1", <<List("arr", "ARRAY", "X")>>,
              <<Elem("x1", p, "0"), Elem("x2", "n1", q)>>),
         Node("r2", "U2", <<List("obj", "OBJECT", "Y")>>,
              << [Node("y1", "Y",
                       <<Val("cnt", "SIGNED", q, TRUE), Val("on", "BOOL", "true", TRUE),
                         Virt("hist", "VARRAY", <<Entry("v1", "1"), Entry("v2", "2")>>),
                         Virt("sum", "VOBJECT", <<Entry("v3", "0")>>),
                         List("sub", "ARRAY", "X")>>,
                       <<Elem("x3", p, q)>>)
                  EXCEPT !.skip0 = (p = "n1"), !.rev = TRUE] >>) >>
      : p \in {"n1", "n2"}, q \in {"0", "1"} }
AnyKey == {"arr", "obj", "cnt", "on", "hist", "sum", "sub", "name", "op"}
Segs == [key : {AnyKey, {"name"}, {"cnt"}, {"arr"}, {"sub", "hist"}, {"obj", "sum"}},
         val : {NoFilter, {"n1"}, {"1", "true"}}]
Paths == UNION {[1..d -> Segs] : d \in 1..2} \cup
         {<<s, t, u>> : s \in {x \in Segs : x.val = NoFilter /\ {"arr", "obj"} \cap x.key # {}},
                        t \in {x \in Segs : x.val # {"n1"}}, u \in Segs}
Asked(id) == {<<[id |-> id, segs |-> p]>> : p \in Paths}
MCRequests ==
    [root : Roots, tokens : Asked("GET"), apply : {NoFilter}]
    \cup [root : Roots, tokens : Asked("WHERE"),
          apply : {NoFilter, [key |-> "cnt", val |-> "5"], [key |-> "name", val |-> "5"]}]

\* The texts of their paths: all short ones, and some that go one segment too deep.
AsText(n, Chars) == [1..n -> Chars]
Texts == UNION {AsText(n, {"/", "@", "&", ESC, "a", "b"}) : n \in 1..5}
         \cup UNION {AsText(n, {"/", "@", ESC, "a", "["}) : n \in 2..5}
         \cup AsText(7, {"/", "@", "a"})
MCPathTexts ==
    [tok : {"GET", "WHERE"}, text : {<<"/">> \o t : t \in Texts} \cup {<<>>, <<"a", "/">>}]
    \cup [tok : {"APPLY"}, text : UNION {AsText(n, {"@", ESC, "a", "["}) : n \in 0..3}]

\* Configuration files: three lines of these, the last with its newline or without.
MCTokens == << [name |-> <<"L", "L">>, bad |-> {<<"v", "v">>}],
               [name |-> <<"S">>, bad |-> {}], [name |-> <<"S", "S">>, bad |-> {}] >>
Lines == { <<"S", " ", "v">>, <<"S", " ">>, <<"#", "S", " ", "v">>, <<"S", "v">>,
           <<"L", "L", " ", "v", " ">>, <<"v", " ">>, <<" ">>, <<>>,
           <<" ", "S", " ", " ", "v", " ", "v", " ">>, <<"S", "S", " ", "#">>,
           <<"L", "L", " ", "v", "v">>, <<"L", "L", " ", "v", "v", "v", "v">>,
           <<"S", " ", "v", "NUL">> }
Doc(ls) == FlattenSeq([j \in DOMAIN ls |-> ls[j] \o <<"NL">>])
MCDocuments == {Doc(ls) : ls \in UNION {[1..n -> Lines] : n \in 1..3}}
               \cup {Front(Doc(ls)) : ls \in UNION {[1..n -> Lines] : n \in 1..2}}

MCRegions == [raw : 8..11, size : {3, 6, 9, 13, 18, 27}, unit : {0, 2, 4, 5}, align : {0, 1, 2, 3, 4}]

MCIoVecs == {[j \in DOMAIN l |-> [base |-> 10 * j, len |-> l[j]]] : l \in UNION {[1..n -> 0..2] : n \in 1..3}}

MCHistShapes == {<<0, 1>>, <<0, 3>>, <<2, 3>>, <<1, 4>>}

\* Directories of one or two files of the configuration service.
TokVal(id, val) == [id |-> id, val |-> val, len |-> 1]
TokLen(id, val, len) == [id |-> id, val |-> val, len |-> len]
ConfFile(u, s, ts) == [uuid |-> u, suffix |-> s, tokens |-> ts]
SvcFiles ==
    { ConfFile(1, "peer", <<TokVal("RAFT", 9), TokVal("UUID", 1), TokVal("STORE", 7),
                            TokVal("PORT", 80), TokVal("CLIENT_PORT", 81)>>),
      ConfFile(1, "raft_client", <<TokVal("RAFT", 9), TokVal("CLIENT_PORT", 65535)>>),
      ConfFile(1, "niosd", <<TokVal("STORE", 7), TokVal("HOSTNAME", 5), TokVal("PORT", 65536)>>),
      ConfFile(2, "raft", <<TokVal("RAFT", 2), TokVal("PEER", 1), TokVal("PEER", 3)>>),
      ConfFile(2, "raft", <<TokVal("PEER", 1), TokVal("PEER", 3), TokVal("PEER", 1)>>),
      ConfFile(2, "niosd", <<TokVal("UUID", 1), TokVal("IPADDR", 4)>>),
      ConfFile(2, "peer", <<TokVal("STORE", 6), TokLen("IPADDR", 4, 16)>>),
      ConfFile(2, "peer", <<TokLen("HOSTNAME", 5, 2), TokLen("HOSTNAME", 6, 1), TokVal("STORE", 6),
                            TokLen("IPADDR", 4, 15)>>),
      ConfFile(1, "niosd", <<TokLen("HOSTNAME", 5, 3)>>),
      ConfFile(2, "peer", <<TokVal("STORE", 6), TokVal("STORE", 6)>>),
      ConfFile(2, "raft_client", <<TokVal("UUID", 2)>>),
      ConfFile(1, "txt", <<>>) }
MCSvcDirs == {<<f>> : f \in SvcFiles}
             \cup {<<f, g>> \in SvcFiles \X SvcFiles : f.uuid = g.uuid \/ f.suffix = "peer"}

\* Fault injections of four kinds in two sets, and two call sites of one of them.
FaultEntry(when, freq) == [when |-> when, freq |-> freq, enabled |-> TRUE]
MCFaultTable ==
    [core |-> <<FaultEntry("one_time_only", 0), FaultEntry("fixed_number_of_times", 0)>>,
     app  |-> <<FaultEntry("per_freq_in_seconds", 1), FaultEntry("every_time_unless_bypassed", 0)>>]
MCFaultSites == {[site |-> 1, id |-> 1], [site |-> 2, id |-> 2], [site |-> 3, id |-> 2]}
-------------------------------------------------------------------------------
\* Where a unit that does not run stays.
NoText    == CHOOSE q \in PathTexts : TRUE
NoRequest == CHOOSE q \in Requests : TRUE
NoDoc     == CHOOSE d \in Documents : TRUE
NoIovs    == CHOOSE v \in IoVecs : total_size(v) > 0
NoShape   == CHOOSE s \in HistShapes : TRUE
NoDir     == CHOOSE d \in SvcDirs : TRUE
NoArgs    == CHOOSE x \in Args : TRUE

PathRests    == path = NoText /\ parsed = <<>>
RequestRests == request = NoRequest /\ answer = <<>>
ConfRests    == parse = [doc |-> NoDoc, i |-> 1, ct |-> 0, val |-> <<>>, comment |-> FALSE,
                         rc |-> "run", items |-> <<>>]
BitmapRests  == /\ nb = [max |-> 1, hint |-> 0, map |-> [w \in 0..NWords-1 |-> {}]]
                /\ src = [w \in 0..NWords-1 |-> {}] /\ used = {} /\ last = Nop
VbaRests     == /\ vba \in init_aligned(0, 1, 1, 1) /\ end = 1 /\ blocks = {} /\ vbaOk = TRUE
IovRests     == iojob = [iovs |-> NoIovs, done |-> 0, max |-> 0, ndest |-> 1] /\ ioret = <<>>
XferRests    == xfer = [op |-> "read", iovs |-> NoIovs, pos |-> 0, rc |-> "run",
                        wire |-> <<>>, at |-> <<>>, intr |-> 0, tries |-> 0]
HistRests    == /\ bh = [start |-> NoShape[1], n |-> NoShape[2],
                         values |-> [p \in 0..NoShape[2]-1 |-> 0]]
                /\ added = <<>>
SvcRests     == /\ svcDir = NoDir /\ svcTree = [u \in {} |-> 0] /\ svcStores = <<>>
                /\ svcFile = [st |-> "file", i |-> 1] /\ svcHeld = [u \in SvcUuids |-> 0]
                /\ svcScans = 1
LayoutRests  == /\ a = NoArgs /\ step = "check" /\ off = 0 /\ items = <<>>
                /\ used_off = a.used_off /\ rc = "ok" /\ aborted = FALSE

LibraryInit ==
    /\ unit \in Units
    /\ IF unit = "path" THEN PathInit ELSE PathRests
    /\ IF unit = "request" THEN RequestInit ELSE RequestRests
    /\ IF unit = "config" THEN ConfInit ELSE ConfRests
    /\ IF unit = "bitmap" THEN BitmapInit ELSE BitmapRests
    /\ IF unit = "vba" THEN VbaInit ELSE VbaRests
    /\ IF unit = "vectors" THEN IovInit ELSE IovRests
    /\ IF unit = "transfer" THEN XferInit ELSE XferRests
    /\ IF unit = "histogram" THEN HistInit ELSE HistRests
    /\ IF unit = "ctl_svc" THEN SvcInit ELSE SvcRests
    /\ IF unit = "layout" THEN LayoutInit ELSE LayoutRests
    /\ SetInit /\ (unit # "buffer_set" => usage = {})
    /\ Init /\ FaultInit

LibraryNext ==
    \/ /\ unit = "path" /\ ParseValue
       /\ UNCHANGED <<unit, requestVars, parse, bitmapVars, vbaVars, iovVars, xferVars,
                      histVars, svcVars, layoutVars, setVars, vars, faultVars>>
    \/ /\ unit = "request" /\ ScanRegistry
       /\ UNCHANGED <<unit, pathVars, parse, bitmapVars, vbaVars, iovVars, xferVars,
                      histVars, svcVars, layoutVars, setVars, vars, faultVars>>
    \/ /\ unit = "config" /\ ConfNext
       /\ UNCHANGED <<unit, pathVars, requestVars, bitmapVars, vbaVars, iovVars, xferVars,
                      histVars, svcVars, layoutVars, setVars, vars, faultVars>>
    \/ /\ unit = "bitmap" /\ BitmapNext
       /\ UNCHANGED <<unit, pathVars, requestVars, parse, vbaVars, iovVars, xferVars,
                      histVars, svcVars, layoutVars, setVars, vars, faultVars>>
    \/ /\ unit = "vba" /\ VbaNext
       /\ UNCHANGED <<unit, pathVars, requestVars, parse, bitmapVars, iovVars, xferVars,
                      histVars, svcVars, layoutVars, setVars, vars, faultVars>>
    \/ /\ unit = "vectors" /\ CallHelpers
       /\ UNCHANGED <<unit, pathVars, requestVars, parse, bitmapVars, vbaVars, xferVars,
                      histVars, svcVars, layoutVars, setVars, vars, faultVars>>
    \/ /\ unit = "transfer" /\ XferNext
       /\ UNCHANGED <<unit, pathVars, requestVars, parse, bitmapVars, vbaVars, iovVars,
                      histVars, svcVars, layoutVars, setVars, vars, faultVars>>
    \/ /\ unit = "histogram" /\ HistNext
       /\ UNCHANGED <<unit, pathVars, requestVars, parse, bitmapVars, vbaVars, iovVars,
                      xferVars, svcVars, layoutVars, setVars, vars, faultVars>>
    \/ /\ unit = "ctl_svc" /\ SvcNext
       /\ UNCHANGED <<unit, pathVars, requestVars, parse, bitmapVars, vbaVars, iovVars,
                      xferVars, histVars, layoutVars, setVars, vars, faultVars>>
    \/ /\ unit = "layout" /\ LayoutNext
       /\ UNCHANGED <<unit, pathVars, requestVars, parse, bitmapVars, vbaVars, iovVars,
                      xferVars, histVars, svcVars, setVars, vars, faultVars>>
    \/ /\ unit = "buffer_set" /\ SetNext
       /\ UNCHANGED <<unit, pathVars, requestVars, parse, bitmapVars, vbaVars, iovVars,
                      xferVars, histVars, svcVars, layoutVars, vars, faultVars>>
    \/ /\ unit = "ref_tree" /\ Next
       /\ UNCHANGED <<unit, pathVars, requestVars, parse, bitmapVars, vbaVars, iovVars,
                      xferVars, histVars, svcVars, layoutVars, setVars, faultVars>>
    \/ /\ unit = "faults" /\ FaultNext
       /\ UNCHANGED <<unit, pathVars, requestVars, parse, bitmapVars, vbaVars, iovVars,
                      xferVars, histVars, svcVars, layoutVars, setVars, vars>>

libraryVars == <<unit, pathVars, requestVars, parse, bitmapVars, vbaVars, iovVars,
                 xferVars, histVars, svcVars, layoutVars, setVars, vars, faultVars>>

LibrarySpec == LibraryInit /\ [][LibraryNext]_libraryVars
===============================================================================
