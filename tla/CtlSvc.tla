-------------------------------- MODULE CtlSvc --------------------------------
(***************************************************************************)
(* The configuration service of niova-core (src/src/ctl_svc.c): the files  *)
(* of a directory become the nodes of a reference counted tree, one for    *)
(* each UUID.  A file gives its UUID and its type in its name and the rest *)
(* as tokens; a token that is refused refuses the file.                    *)
(*                                                                         *)
(* An action is one file name, one token, one insertion into the tree or   *)
(* one call of the interface.  How the text of a file becomes tokens is    *)
(* the subject of ConfigToken; what a token's value may be is abstracted   *)
(* to what its handler tells apart.                                        *)
(***************************************************************************)
EXTENDS Naturals, Sequences, FiniteSets

CONSTANTS
    SvcDirs,    \* directories: sequences of [uuid, suffix, tokens]
    SvcUuids,   \* UUIDs, in the order of uuid_compare()
    MaxPeers,   \* CTL_SVC_MAX_RAFT_PEERS
    HOST_NAME_MAX,  \* bytes of csnp_hostname
    MaxHeld,    \* bound: references that users hold of a node
    MaxScans    \* bound: how often the directory is scanned

\* A file: what its name and its tokens say.  A token's value has a length where
\* its handler makes something of it.
ConfFiles == [uuid : SvcUuids, suffix : STRING,
              tokens : Seq([id : STRING, val : Nat, len : Nat])]

ASSUME CtlSvcAssumption ==
    /\ SvcUuids \subseteq Nat /\ SvcDirs \subseteq Seq(ConfFiles) /\ MaxPeers \in Nat
    /\ HOST_NAME_MAX \in Nat

VARIABLES
    svcDir,     \* the directory
    svcTree,    \* ctlSvcNodeTree: the node of each UUID that has one
    svcStores,  \* what became of each csnp_store that was allocated
    svcFile,    \* the file that is being processed, on the stack of its caller
    svcHeld,    \* references that users hold of each UUID's node
    svcScans    \* scans so far

svcVars == <<svcDir, svcTree, svcStores, svcFile, svcHeld, svcScans>>

NoStore == 0
NoVal == 0
IPV4_STRLEN == 16
MaxPort == 65535 \* the largest number of a port

\* struct ctl_svc_node, cleared.  Of the host name `host` tells, byte by byte,
\* which value it is from.  `from` is the file that the node was made from,
\* `ref` the count in its entry of the tree.
BlankNode == [type |-> "niosd", uuid |-> NoVal,
              host |-> [i \in 1..HOST_NAME_MAX |-> NoVal], ip |-> NoVal,
              port |-> NoVal, client_port |-> NoVal, store |-> NoStore, raft |-> NoVal,
              peers |-> <<>>, send |-> TRUE, recv |-> TRUE, from |-> 0, ref |-> 0]

is_raft(csn) == csn.type = "raft"
is_peer(csn) == csn.type \in {"niosd", "peer", "raft_client"}

\* Mutant: the shorter of two suffixes is tried first.
NodeTypes_short == <<"niosd", "peer", "raft", "raft_client">>

\* ctlSvcNodeTypes[], in the order of enum ctl_svc_node_type, with the prefixes
\* that strncmp() over the length of a suffix accepts.
NodeTypes == <<"niosd", "peer", "raft_client", "raft">>
StartsWith(ext, suffix) == ext = suffix \/ (suffix = "raft" /\ ext = "raft_client")

\* ctl_svc_detect_node_type().
detect_node_type(ext) ==
    LET fits == {j \in DOMAIN NodeTypes : StartsWith(ext, NodeTypes[j])}
    IN IF fits = {} THEN "any" ELSE NodeTypes[CHOOSE j \in fits : \A k \in fits : j <= k]

\* ctlSvcNodeTypeTokens[].
NodeTypeTokens ==
    [niosd       |-> {"HOSTNAME", "PORT", "STORE", "UUID", "IPADDR"},
     raft        |-> {"RAFT", "UUID", "PEER"},
     peer        |-> {"RAFT", "UUID", "IPADDR", "STORE", "PORT", "CLIENT_PORT", "HOSTNAME"},
     raft_client |-> {"RAFT", "UUID", "IPADDR", "CLIENT_PORT"}]

SvcInit ==
    /\ svcDir \in SvcDirs
    /\ svcTree = [u \in {} |-> 0] /\ svcStores = <<>>
    /\ svcFile = [st |-> "file", i |-> 1]
    /\ svcHeld = [u \in SvcUuids |-> 0]
    /\ svcScans = 1
-------------------------------------------------------------------------------
(***************************************************************************)
(* ctl_svc_init_scan_entries() and ctl_svc_process_conf_file().            *)
(***************************************************************************)
AtFile(st) == svcFile.st = st
NextFile == svcFile' = [st |-> "file", i |-> svcFile.i + 1]

\* The file's name gives the node its UUID and its type; it matched the regular
\* expression of CT_ID_CTL_SVC_FILENAME.  A name of no type is passed over.
parse_input_file_name ==
    /\ AtFile("file") /\ svcFile.i <= Len(svcDir)
    /\ LET f == svcDir[svcFile.i]
           type == detect_node_type(f.suffix)
       IN IF type = "any" THEN NextFile
          ELSE svcFile' = [st |-> "tokens", i |-> svcFile.i, left |-> f.tokens,
                           csn |-> [BlankNode EXCEPT !.type = type, !.uuid = f.uuid, !.from = svcFile.i]]
    /\ UNCHANGED <<svcDir, svcTree, svcStores, svcHeld, svcScans>>

\* A host name or an address that does not fit its array.
TooLong(t) == t.len >= (IF t.id = "HOSTNAME" THEN HOST_NAME_MAX ELSE IPV4_STRLEN)

\* The handlers of ctlSvcNodeTokenFuncTable[]: may node csn take token t?
TokenRefused(csn, t) ==
    \/ t.id \notin NodeTypeTokens[csn.type]
    \/ t.id \in {"HOSTNAME", "IPADDR"} /\ TooLong(t)
    \/ t.id \in {"PORT", "CLIENT_PORT"} /\ t.val \notin 1..MaxPort
    \/ t.id = "UUID" /\ t.val # csn.uuid
    \/ t.id = "RAFT" /\ is_raft(csn) /\ t.val # csn.uuid
    \/ t.id = "PEER" /\ Len(csn.peers) = MaxPeers
    \/ t.id = "STORE" /\ csn.store # NoStore

\* strncpy() of as many bytes as the value has, without a terminator: what was
\* there behind them stays.
strncpy(host, t) == [i \in 1..HOST_NAME_MAX |-> IF i <= t.len THEN t.val ELSE host[i]]

\* What an accepted token assigns; s is the memory that STORE allocates.
TokenApplied(csn, t, s) ==
    [csn EXCEPT !.port = IF t.id = "PORT" THEN t.val ELSE @,
                !.client_port = IF t.id = "CLIENT_PORT" THEN t.val ELSE @,
                !.host = IF t.id = "HOSTNAME" THEN strncpy(@, t) ELSE @,
                !.ip = IF t.id = "IPADDR" THEN t.val ELSE @,
                !.raft = IF t.id = "RAFT" /\ ~is_raft(csn) THEN t.val ELSE @,
                !.peers = IF t.id = "PEER" THEN Append(@, t.val) ELSE @,
                !.store = IF t.id = "STORE" THEN s ELSE @]

\* ctl_svc_apply_token_value_to_node().  A refused token ends the file: the
\* node on the stack is forgotten, with the memory of its store.
Lose(stores, s) == IF s = NoStore THEN stores ELSE [stores EXCEPT ![s] = "leaked"]
apply_token ==
    /\ AtFile("tokens") /\ svcFile.left # <<>>
    /\ LET t == Head(svcFile.left)
           csn == svcFile.csn
       IN IF TokenRefused(csn, t)
          THEN svcStores' = Lose(svcStores, csn.store) /\ NextFile
          ELSE /\ svcStores' = IF t.id = "STORE" THEN Append(svcStores, "stack") ELSE svcStores
               /\ svcFile' = [svcFile EXCEPT !.left = Tail(@),
                                !.csn = TokenApplied(csn, t, Len(svcStores) + 1)]
    /\ UNCHANGED <<svcDir, svcTree, svcHeld, svcScans>>

\* ctl_svc_node_release_internal_members(): a second free of the same memory
\* would show in svcStores.
FreeStore(stores, csn) ==
    IF ~is_peer(csn) \/ csn.store = NoStore THEN stores
    ELSE [stores EXCEPT ![csn.store] = IF @ = "freed" THEN "freed twice" ELSE "freed"]
Own(stores, csn) ==
    IF csn.store = NoStore THEN stores ELSE [stores EXCEPT ![csn.store] = "tree"]

\* RT_GET_ADD() of a node on the stack that is not in the tree, followed by
\* RT_PUT(): it was created with two references, one is left.
Added(csn) == [u \in DOMAIN svcTree \cup {csn.uuid} |->
                  IF u = csn.uuid THEN [csn EXCEPT !.ref = 1] ELSE svcTree[u]]

\* Mutant: both errors are taken for the same.
ReleasedByCaller_always(rt_ret) == rt_ret \in {"EEXIST", "EALREADY"}

\* The caller frees the store of its node when the tree has another and the
\* destructor was not run: rt_ret is -EEXIST, not -EALREADY.
ReleasedByCaller(rt_ret) == rt_ret = "EEXIST"

\* ctl_svc_node_tree_add() with what its caller does next.  The constructor
\* runs without the lock of the tree: another thread that adds the same UUID
\* meanwhile makes the tree destroy the node that was just constructed.
tree_add ==
    /\ AtFile("tokens") /\ svcFile.left = <<>>
    /\ LET csn == svcFile.csn
           caller(rt_ret, stores) ==
               IF ReleasedByCaller(rt_ret) THEN FreeStore(stores, csn) ELSE stores
       IN \/ /\ csn.uuid \in DOMAIN svcTree
             /\ svcStores' = caller("EEXIST", svcStores)
             /\ UNCHANGED svcTree
          \/ /\ csn.uuid \notin DOMAIN svcTree
             /\ svcTree' = Added(csn)
             /\ svcStores' = Own(svcStores, csn)
          \/ /\ csn.uuid \notin DOMAIN svcTree
             /\ svcTree' = Added([BlankNode EXCEPT !.uuid = csn.uuid])
             /\ svcStores' = caller("EALREADY", FreeStore(svcStores, csn))
    /\ NextFile
    /\ UNCHANGED <<svcDir, svcHeld, svcScans>>

\* ctl_svc_scan(): the directory is scanned once more.
ctl_svc_scan ==
    /\ AtFile("file") /\ svcFile.i > Len(svcDir) /\ svcScans < MaxScans
    /\ svcFile' = [st |-> "file", i |-> 1]
    /\ svcScans' = svcScans + 1
    /\ UNCHANGED <<svcDir, svcTree, svcStores, svcHeld>>
-------------------------------------------------------------------------------
(***************************************************************************)
(* The interface, and the registry.                                        *)
(***************************************************************************)
SvcUp == ~AtFile("end")
Ref(u, n) == svcTree' = [svcTree EXCEPT ![u].ref = n]

\* ctl_svc_node_lookup(), ctl_svc_node_get() by one who has a reference.
node_lookup(u) ==
    /\ SvcUp /\ u \in DOMAIN svcTree /\ svcHeld[u] < MaxHeld
    /\ Ref(u, svcTree[u].ref + 1)
    /\ svcHeld' = [svcHeld EXCEPT ![u] = @ + 1]
    /\ UNCHANGED <<svcDir, svcStores, svcFile, svcScans>>

\* ctl_svc_node_add() of a node made with ctl_svc_node_init(), and its lookup.
node_add(u) ==
    /\ SvcUp /\ u \notin DOMAIN svcTree /\ svcHeld[u] < MaxHeld
    /\ svcTree' = [v \in DOMAIN svcTree \cup {u} |->
                      IF v = u THEN [BlankNode EXCEPT !.uuid = u, !.ref = 2] ELSE svcTree[v]]
    /\ svcHeld' = [svcHeld EXCEPT ![u] = @ + 1]
    /\ UNCHANGED <<svcDir, svcStores, svcFile, svcScans>>

\* ctl_svc_node_put(): the last reference destroys the node.
Put(u) ==
    IF svcTree[u].ref > 1 THEN Ref(u, svcTree[u].ref - 1) /\ UNCHANGED svcStores
    ELSE /\ svcTree' = [v \in DOMAIN svcTree \ {u} |-> svcTree[v]]
         /\ svcStores' = FreeStore(svcStores, svcTree[u])
node_put(u) ==
    /\ SvcUp /\ svcHeld[u] > 0
    /\ Put(u)
    /\ svcHeld' = [svcHeld EXCEPT ![u] = @ - 1]
    /\ UNCHANGED <<svcDir, svcFile, svcScans>>

\* ctl_svc_lreg_cb() for WRITE_VAL: a node of type raft shows only the keys
\* before the hostname, so that these two are never written on one.
write_val(u, v) ==
    /\ SvcUp /\ u \in DOMAIN svcTree /\ ~is_raft(svcTree[u])
    /\ \/ svcTree' = [svcTree EXCEPT ![u].send = v]
       \/ svcTree' = [svcTree EXCEPT ![u].recv = v]
    /\ UNCHANGED <<svcDir, svcStores, svcFile, svcHeld, svcScans>>

\* ctl_svc_nodes_release(): the first node is looked up, which takes a
\* reference, and two are given back, until the tree is empty.
nodes_release ==
    /\ AtFile("file") /\ svcFile.i > Len(svcDir) /\ svcFile' = [st |-> "end"]
    /\ UNCHANGED <<svcDir, svcTree, svcStores, svcHeld, svcScans>>
ReleaseMin ==
    /\ AtFile("end") /\ DOMAIN svcTree # {}
    /\ Put(CHOOSE u \in DOMAIN svcTree : \A v \in DOMAIN svcTree : u <= v)
    /\ UNCHANGED <<svcDir, svcFile, svcHeld, svcScans>>
-------------------------------------------------------------------------------
SvcNext ==
    \/ parse_input_file_name \/ apply_token \/ tree_add \/ ctl_svc_scan
    \/ \E u \in SvcUuids : node_lookup(u) \/ node_add(u) \/ node_put(u)
                           \/ \E v \in BOOLEAN : write_val(u, v)
    \/ nodes_release \/ ReleaseMin

SvcSpec == SvcInit /\ [][SvcNext]_svcVars
-------------------------------------------------------------------------------
(***************************************************************************)
(* Properties.                                                             *)
(***************************************************************************)
\* What file f says, without the order in which it says it.
Said(f, id) == {j \in DOMAIN f.tokens : f.tokens[j].id = id}
LastOf(f, places) ==
    IF places = {} THEN NoVal
    ELSE f.tokens[CHOOSE j \in places : \A k \in places : k <= j].val
LastSaid(f, id) == LastOf(f, Said(f, id))

\* The host names of the file that have an i-th byte.
Reaching(f, i) == {j \in Said(f, "HOSTNAME") : f.tokens[j].len >= i}

Acceptable(f) ==
    /\ f.suffix \in DOMAIN NodeTypeTokens
    /\ \A j \in DOMAIN f.tokens : LET t == f.tokens[j] IN
         /\ t.id \in NodeTypeTokens[f.suffix]
         /\ t.id \in {"HOSTNAME", "IPADDR"} => ~TooLong(t)
         /\ t.id \in {"PORT", "CLIENT_PORT"} => t.val \in 1..MaxPort
         /\ t.id = "UUID" \/ (t.id = "RAFT" /\ f.suffix = "raft") => t.val = f.uuid
    /\ Cardinality(Said(f, "STORE")) <= 1 /\ Cardinality(Said(f, "PEER")) <= MaxPeers

\* The node of a UUID that was made from a file is what the first file of the
\* UUID that may be used says, however often the directory is scanned and
\* whatever users do meanwhile: the type of its suffix, its last values, its
\* peers in their order.  The host name is the exception: each byte is from the
\* last of the names that are so long (ctl_svc.c:257-270, 325-507, 733-804).
NodesFromFiles ==
    \A u \in DOMAIN svcTree : LET n == svcTree[u] IN
        n.from > 0 =>
            LET f == svcDir[n.from] IN
            /\ Acceptable(f) /\ n.type = f.suffix /\ n.uuid = u /\ f.uuid = u
            /\ \A j \in 1..(n.from - 1) : svcDir[j].uuid = u => ~Acceptable(svcDir[j])
            /\ n.host = [i \in 1..HOST_NAME_MAX |-> LastOf(f, Reaching(f, i))]
            /\ n.ip = LastSaid(f, "IPADDR")
            /\ n.port = LastSaid(f, "PORT") /\ n.client_port = LastSaid(f, "CLIENT_PORT")
            /\ n.raft = IF f.suffix = "raft" THEN NoVal ELSE LastSaid(f, "RAFT")
            /\ Len(n.peers) = Cardinality(Said(f, "PEER"))
            /\ \A j \in Said(f, "PEER") :
                  n.peers[Cardinality({k \in Said(f, "PEER") : k <= j})] = f.tokens[j].val
            /\ (n.store # NoStore) = (Said(f, "STORE") # {})

\* The memory of a STORE has one owner: it is freed once, by the caller or by
\* the destructor, whoever the tree made responsible, and never while a node
\* of the tree points to it; only a file that is refused after its STORE loses
\* it.  A node stays in the tree without a user and is there for every user
\* (ctl_svc.c:440-466, 528-536, 784-803, 1000-1015, 1088-1100, 1142-1146).
StoresOwned ==
    /\ \A s \in DOMAIN svcStores :
        LET owners == {u \in DOMAIN svcTree : svcTree[u].store = s}
            onStack == AtFile("tokens") /\ svcFile.csn.store = s
        IN /\ svcStores[s] # "freed twice"
           /\ svcStores[s] = "tree" <=> Cardinality(owners) = 1
           /\ svcStores[s] \in {"freed", "leaked"} <=> owners = {} /\ ~onStack
    /\ SvcUp => \A u \in SvcUuids :
        IF u \in DOMAIN svcTree THEN svcTree[u].ref = 1 + svcHeld[u] ELSE svcHeld[u] = 0
================================================================================
