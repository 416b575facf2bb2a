------------------------------- MODULE Census -------------------------------
(***************************************************************************)
(* The census Manager (src/census/census.go): named merkle trees          *)
(* (namespaces), their management keys, the HTTP handler that serves      *)
(* concurrent requests, and the daemon that imports remote censuses       *)
(* queued by AddToImportQueue.                                            *)
(*                                                                         *)
(* A merkle tree is an object of the tree library (not under src/); its    *)
(* content is abstracted to the set of its claims and its root to that     *)
(* set, so a census named after a root hash is named by a set of claims.  *)
(* Trees are objects: a request that read m.Trees keeps using the object  *)
(* it read after RUnlock.  AddNamespace and DelNamespace run under        *)
(* TreesMu and are single steps; CheckAuth reads m.Census without a lock. *)
(*                                                                         *)
(* What survives the process: namespaces.json, written by save() at the   *)
(* end of AddNamespace and DelNamespace, and one tree directory per name, *)
(* created by tr.Init(name) and removed by DelNamespace.  The process may *)
(* crash between two steps and be started again, which runs Init on what *)
(* is on disk.                                                            *)
(***************************************************************************)
EXTENDS Naturals, Sequences, FiniteSets, SequencesExt

CONSTANTS
    UserNames,     \* census ids chosen by clients (model values)
    Claims,        \* claims (model values); a root hash is a set of claims
    Keys,          \* management public keys (model values)
    ShortKey,      \* a key shorter than PubKeyLength, e.g. ""
    RootKeyArg,    \* the rootKey argument of Init (a key or ShortKey)
    ConfigFiles,   \* possible namespaces.json at Init: "absent", "corrupt", "present"
    SavedRootKey,  \* RootKey in a present namespaces.json
    SavedNs,       \* Namespaces in a present namespaces.json
    Handlers,      \* concurrent HTTP request goroutines
    QueueCap,      \* capacity of importQueue (32 in the code)
    MaxTrees,      \* tree objects created in a behaviour
    MaxImports,    \* calls of AddToImportQueue in a behaviour
    MaxCrashes,    \* crashes of the process in a behaviour
    TreeInitFails, \* whether tr.Init may fail on a listed census's directory at Init
    NONE

Names == UserNames \cup SUBSET Claims
Trees == 1..MaxTrees
Namespace == [name: Names, keys: SUBSET (Keys \cup {ShortKey})]

ASSUME TreeInitFails \in BOOLEAN
ASSUME ConfigFiles \subseteq {"absent", "corrupt", "present"}
ASSUME SavedNs \in Seq(Namespace) /\ Len(SavedNs) <= MaxTrees
ASSUME \A i, j \in DOMAIN SavedNs : SavedNs[i].name = SavedNs[j].name => i = j

VARIABLES
    started,     \* Init has run
    rootKey,     \* m.Census.RootKey
    nsList,      \* m.Census.Namespaces, in order
    trees,       \* m.Trees: name -> tree object, or NONE
    content,     \* claims of each tree object
    nTrees,      \* tree objects created so far
    queue,       \* m.importQueue: census ids (root hashes) to import
    nImports,    \* AddToImportQueue calls so far
    daemon,      \* importQueueDaemon: "off" or its program counter and locals
    hs,          \* each HTTP request goroutine: program counter and locals
    nsFile,      \* namespaces.json: its state, and RootKey and Namespaces when "ok"
    dirs,        \* the tree directory of each name: the tree object it holds, or NONE
    crashes      \* crashes so far

vars == <<started, rootKey, nsList, trees, content, nTrees, queue, nImports, daemon, hs,
          nsFile, dirs, crashes>>
diskVars == <<nsFile, dirs, crashes>>

\* The names listed in a sequence of namespaces.
NamesIn(ns) == {ns[i].name : i \in DOMAIN ns}
NsNames == NamesIn(nsList)

\* The tree directories that go with a namespaces.json listing SavedNs.
SavedDirs == [n \in Names |->
                 IF n \in NamesIn(SavedNs) THEN CHOOSE i \in DOMAIN SavedNs : SavedNs[i].name = n
                 ELSE NONE]

\* namespaces.json as a start-up config finds it: "present" holds
\* SavedRootKey and SavedNs; a corrupt file may sit beside tree directories.
ConfigFile(cf) ==
    IF cf = "present" THEN [state |-> "ok", rootKey |-> SavedRootKey, ns |-> SavedNs]
    ELSE [state |-> cf, rootKey |-> ShortKey, ns |-> <<>>]

HandlerIdle == [pc |-> "idle", cid |-> NONE, signer |-> NONE, tr |-> NONE, claims |-> {},
                keys |-> {}]

DaemonIdle == [pc |-> "idle", cid |-> NONE, tr |-> NONE, dump |-> {}]

Init ==
    /\ started = FALSE
    /\ rootKey = ShortKey
    /\ nsList = <<>>
    /\ trees = [n \in Names |-> NONE]
    /\ content = [t \in Trees |-> {}]
    /\ queue = <<>>
    /\ nImports = 0
    /\ daemon = [DaemonIdle EXCEPT !.pc = "off"]
    /\ hs = [h \in Handlers |-> HandlerIdle]
    /\ crashes = 0
    /\ \E cf \in ConfigFiles :
          /\ nsFile = ConfigFile(cf)
          /\ dirs = IF cf = "absent" THEN [n \in Names |-> NONE] ELSE SavedDirs
          /\ nTrees = IF cf = "absent" THEN 0 ELSE Len(SavedNs)

-----------------------------------------------------------------------------
\* Manager.Init on what is on disk.  No namespaces.json: a new one is
\* written (empty, then save()) and Init returns; a file that does not
\* unmarshal makes Init return; otherwise every listed namespace gets the
\* tree of its directory, and the import daemon starts.  Only the last path
\* runs `go m.importQueueDaemon()`.  A listed name always has a directory:
\* AddNamespace and DelNamespace change both under TreesMu, before save().
\* tr.Init may fail on some of them (when TreeInitFails): the error is
\* logged and the name stays listed in m.Census with no tree in m.Trees.
\* (A ReadFile error makes Init return it to its caller, outside src/.)
LoadNamespaces(daemonAfter) ==
    /\ ~started
    /\ started' = TRUE
    /\ \/ /\ nsFile.state = "absent"
          /\ rootKey' = RootKeyArg
          /\ nsFile' = [state |-> "ok", rootKey |-> RootKeyArg, ns |-> <<>>]
          /\ UNCHANGED <<nsList, trees, daemon>>
       \/ /\ nsFile.state = "corrupt"
          /\ UNCHANGED <<rootKey, nsList, trees, daemon, nsFile>>
       \/ /\ nsFile.state = "ok"
          /\ rootKey' = IF RootKeyArg # ShortKey THEN RootKeyArg ELSE nsFile.rootKey
          /\ nsList' = nsFile.ns
          /\ \E failed \in IF TreeInitFails THEN SUBSET NamesIn(nsFile.ns) ELSE {{}} :
                trees' = [n \in Names |->
                             IF n \in NamesIn(nsFile.ns) \ failed THEN dirs[n] ELSE NONE]
          /\ daemon' = daemonAfter
          /\ UNCHANGED nsFile
    /\ UNCHANGED <<content, nTrees, queue, nImports, hs, dirs, crashes>>

ManagerInit == LoadNamespaces(DaemonIdle)

\* tr.Init(name) opens the tree directory of the name, or creates it.
TreeFor(name) == IF dirs[name] # NONE THEN dirs[name] ELSE nTrees + 1

\* save(): namespaces.json gets m.Census as it is at the end of the step.
Save == nsFile' = [state |-> "ok", rootKey |-> rootKey, ns |-> nsList']

\* The tree of a new namespace, in memory and on disk.
NewTree(name) ==
    /\ dirs[name] # NONE \/ nTrees < MaxTrees
    /\ trees' = [trees EXCEPT ![name] = TreeFor(name)]
    /\ dirs' = [dirs EXCEPT ![name] = TreeFor(name)]
    /\ nTrees' = IF dirs[name] = NONE THEN nTrees + 1 ELSE nTrees

\* Mutant of AddNamespace: the existence check dropped.
AddNamespaceUnchecked(name, keys) ==
    /\ NewTree(name)
    /\ nsList' = Append(nsList, [name |-> name, keys |-> keys])
    /\ Save

\* Mutant of AddNamespace: the new namespace is not saved.
AddNamespaceUnsaved(name, keys) ==
    IF trees[name] # NONE THEN UNCHANGED <<trees, nTrees, nsList, nsFile, dirs>>
    ELSE /\ NewTree(name)
         /\ nsList' = Append(nsList, [name |-> name, keys |-> keys])
         /\ UNCHANGED nsFile

\* AddNamespace(name, pubKeys), under TreesMu: an existing name is an
\* error; otherwise tr.Init(name), the namespace appended, save().
AddNamespace(name, keys) ==
    IF trees[name] # NONE THEN UNCHANGED <<trees, nTrees, nsList, nsFile, dirs>>
    ELSE /\ NewTree(name)
         /\ nsList' = Append(nsList, [name |-> name, keys |-> keys])
         /\ Save

\* DelNamespace(name), under TreesMu: a known tree is dropped and its
\* directory removed, the first namespace with that name is cut out of the
\* list, then save().
DelNamespace(name) ==
    LET idx == {i \in DOMAIN nsList : nsList[i].name = name} IN
    /\ trees' = [trees EXCEPT ![name] = NONE]
    /\ dirs' = IF trees[name] # NONE THEN [dirs EXCEPT ![name] = NONE] ELSE dirs
    /\ nsList' = IF idx = {} THEN nsList ELSE RemoveAt(nsList, Min(idx))
    /\ Save

\* The process stops between two steps: memory, the import queue, the
\* daemon and the requests in flight are lost; namespaces.json and the
\* tree directories stay.
Crash ==
    /\ started /\ crashes < MaxCrashes
    /\ crashes' = crashes + 1
    /\ started' = FALSE
    /\ rootKey' = ShortKey
    /\ nsList' = <<>>
    /\ trees' = [n \in Names |-> NONE]
    /\ queue' = <<>>
    /\ daemon' = [DaemonIdle EXCEPT !.pc = "off"]
    /\ hs' = [h \in Handlers |-> HandlerIdle]
    /\ UNCHANGED <<content, nTrees, nImports, nsFile, dirs>>

\* CheckAuth(rm).  The loop `for _, n := range ...{ ns = &n }` keeps a
\* pointer to the loop variable, which ends holding the LAST namespace:
\* when the census id is listed at all, ns.Keys are the last namespace's
\* keys; when it is not, ns is a new empty Namespace.  addCensus is checked
\* against the root key, and is open to all while there is none.  The
\* timestamp window is the input fresh.  No keys, or one short key, is
\* "allowing all"; otherwise one of the keys must have signed.
CheckAuth(method, cid, signer, fresh) ==
    LET listed == cid \in NsNames
        nsKeys == IF listed THEN nsList[Len(nsList)].keys ELSE {}
        keys   == IF method = "addCensus" THEN {rootKey} ELSE nsKeys
    IN \/ method = "addCensus" /\ rootKey = ShortKey
       \/ /\ fresh
          /\ (keys \in {{}, {ShortKey}} \/ signer \in keys)

KeyChoices == {{}, {ShortKey}} \cup {{k} : k \in Keys}

\* HTTPhandler, then Handler, for addCensus: AddNamespace under TreesMu
\* when authorised, an error response otherwise.
HandleAddCensus(h) ==
    /\ started /\ hs[h].pc = "idle"
    /\ \E cid \in Names, signer \in Keys, fresh \in BOOLEAN, keys \in KeyChoices :
          IF CheckAuth("addCensus", cid, signer, fresh)
          THEN AddNamespace(cid, keys)
          ELSE UNCHANGED <<trees, nTrees, nsList, nsFile, dirs>>
    /\ UNCHANGED <<started, rootKey, content, queue, nImports, daemon, hs, crashes>>

\* HTTPhandler, then Handler, for the methods that write a census tree,
\* first part: m.Trees[censusID] is read under RLock, an unknown census is
\* an error, and then CheckAuth's verdict must hold.  addClaim decodes one
\* claim, addClaimBulk and importDump several; importRemote retrieves a
\* dump from storage, with no check of its root.  A request that ends in
\* an error before writing changes nothing and is left out.
WriteMethods == {"addClaim", "addClaimBulk", "importDump", "importRemote"}
ClaimsOf(method) ==
    IF method = "addClaim" THEN {{c} : c \in Claims} ELSE SUBSET Claims \ {{}}

HandleWrite(h) ==
    /\ started /\ hs[h].pc = "idle"
    /\ \E method \in WriteMethods, cid \in Names, signer \in Keys, fresh \in BOOLEAN :
          \E cs \in ClaimsOf(method) :
             /\ trees[cid] # NONE
             /\ CheckAuth(method, cid, signer, fresh)
             /\ hs' = [hs EXCEPT ![h] = [HandlerIdle EXCEPT !.pc = "writing", !.cid = cid,
                                         !.signer = signer, !.tr = trees[cid], !.claims = cs]]
    /\ UNCHANGED <<started, rootKey, nsList, trees, content, nTrees, queue, nImports, daemon>>
    /\ UNCHANGED diskVars

\* ... second part, after RUnlock: tr.AddClaim / tr.ImportDump on the tree
\* object read.
WriteClaims(h) ==
    /\ hs[h].pc = "writing"
    /\ content' = [content EXCEPT ![hs[h].tr] = @ \cup hs[h].claims]
    /\ hs' = [hs EXCEPT ![h] = HandlerIdle]
    /\ UNCHANGED <<started, rootKey, nsList, trees, nTrees, queue, nImports, daemon>>
    /\ UNCHANGED diskVars

\* publish, first part: the census exists and the request is authorised;
\* dump.RootHash = tr.Root() and dump.ClaimsData = tr.Dump(tr.Root()).
HandlePublish(h) ==
    /\ started /\ hs[h].pc = "idle"
    /\ \E cid \in Names, signer \in Keys, fresh \in BOOLEAN, keys \in KeyChoices :
          /\ trees[cid] # NONE
          /\ CheckAuth("publish", cid, signer, fresh)
          /\ hs' = [hs EXCEPT ![h] = [pc |-> "publishing", cid |-> cid, signer |-> signer,
                                      tr |-> trees[cid], claims |-> content[trees[cid]],
                                      keys |-> keys]]
    /\ UNCHANGED <<started, rootKey, nsList, trees, content, nTrees, queue, nImports, daemon>>
    /\ UNCHANGED diskVars

\* ... second part: Storage.Publish (which may fail), then resp.Root =
\* tr.Root(), read again, and AddNamespace(resp.Root, r.PubKeys); an
\* error there is only logged.
PublishAddNamespace(h) ==
    LET root == content[hs[h].tr] IN
    /\ hs[h].pc = "publishing"
    /\ \/ /\ hs' = [hs EXCEPT ![h] = HandlerIdle]            \* Publish error
          /\ UNCHANGED <<trees, nTrees, nsList, nsFile, dirs>>
       \/ /\ trees[root] # NONE                               \* namespace exists
          /\ hs' = [hs EXCEPT ![h] = HandlerIdle]
          /\ UNCHANGED <<trees, nTrees, nsList, nsFile, dirs>>
       \/ /\ trees[root] = NONE
          /\ AddNamespace(root, hs[h].keys)
          /\ hs' = [hs EXCEPT ![h].pc = "publishImport", ![h].cid = root, ![h].tr = TreeFor(root)]
    /\ UNCHANGED <<started, rootKey, content, queue, nImports, daemon, crashes>>

\* ... third part: tr2.ImportDump(dump.ClaimsData).
PublishImport(h) ==
    /\ hs[h].pc = "publishImport"
    /\ content' = [content EXCEPT ![hs[h].tr] = @ \cup hs[h].claims]
    /\ hs' = [hs EXCEPT ![h] = HandlerIdle]
    /\ UNCHANGED <<started, rootKey, nsList, trees, nTrees, queue, nImports, daemon>>
    /\ UNCHANGED diskVars

\* AddToImportQueue: a send on importQueue, which blocks while the buffer
\* holds QueueCap imports (and forever before Init made the channel).
AddToImportQueue ==
    /\ started
    /\ nImports < MaxImports
    /\ Len(queue) < QueueCap
    /\ \E cid \in SUBSET Claims : queue' = Append(queue, cid)
    /\ nImports' = nImports + 1
    /\ UNCHANGED <<started, rootKey, nsList, trees, content, nTrees, daemon, hs>>
    /\ UNCHANGED diskVars

\* importQueueDaemon: receive an import, and under RLock skip it when the
\* census already exists.
DaemonReceive ==
    /\ daemon.pc = "idle"
    /\ queue # <<>>
    /\ queue' = Tail(queue)
    /\ daemon' = IF trees[Head(queue)] # NONE THEN DaemonIdle
                 ELSE [DaemonIdle EXCEPT !.pc = "fetch", !.cid = Head(queue)]
    /\ UNCHANGED <<started, rootKey, nsList, trees, content, nTrees, nImports, hs>>
    /\ UNCHANGED diskVars

\* Mutant of DaemonFetch: AddNamespace without its own existence check,
\* trusting the check the daemon made under RLock before the fetch.
DaemonFetchTrustingCheck ==
    /\ daemon.pc = "fetch"
    /\ \/ /\ daemon' = DaemonIdle
          /\ UNCHANGED <<trees, nTrees, nsList, nsFile, dirs>>
       \/ \E dump \in SUBSET Claims :
             IF dump # daemon.cid \/ dump = {}
             THEN /\ daemon' = DaemonIdle
                  /\ UNCHANGED <<trees, nTrees, nsList, nsFile, dirs>>
             ELSE /\ AddNamespaceUnchecked(daemon.cid, {})
                  /\ daemon' = [daemon EXCEPT !.pc = "import", !.tr = TreeFor(daemon.cid),
                                              !.dump = dump]
    /\ UNCHANGED <<started, rootKey, content, queue, nImports, hs, crashes>>

\* Retrieve and unmarshal the dump (either may fail); skip a dump whose
\* root hash is not the census id or that has no claims; otherwise
\* AddNamespace(cid, {}) under TreesMu, which fails if the census appeared
\* since the check.  A dump's claims are the set its root hash names.
DaemonFetch ==
    /\ daemon.pc = "fetch"
    /\ \/ /\ daemon' = DaemonIdle                       \* Retrieve or Unmarshal error
          /\ UNCHANGED <<trees, nTrees, nsList, nsFile, dirs>>
       \/ \E dump \in SUBSET Claims :
             IF dump # daemon.cid \/ dump = {} \/ trees[daemon.cid] # NONE
             THEN /\ daemon' = DaemonIdle
                  /\ UNCHANGED <<trees, nTrees, nsList, nsFile, dirs>>
             ELSE /\ AddNamespace(daemon.cid, {})
                  /\ daemon' = [daemon EXCEPT !.pc = "import", !.tr = TreeFor(daemon.cid),
                                              !.dump = dump]
    /\ UNCHANGED <<started, rootKey, content, queue, nImports, hs, crashes>>

\* tr.ImportDump: all the claims, or, on an error, some of them and the
\* daemon moves on to the next import.
DaemonImport ==
    /\ daemon.pc = "import"
    /\ \/ /\ content' = [content EXCEPT ![daemon.tr] = @ \cup daemon.dump]
          /\ daemon' = [daemon EXCEPT !.pc = "check"]
       \/ \E part \in SUBSET daemon.dump \ {daemon.dump} :
             /\ content' = [content EXCEPT ![daemon.tr] = @ \cup part]
             /\ daemon' = DaemonIdle
    /\ UNCHANGED <<started, rootKey, nsList, trees, nTrees, queue, nImports, hs>>
    /\ UNCHANGED diskVars

\* A root different from the dump's root hash: DelNamespace(cid).
DaemonCheck ==
    /\ daemon.pc = "check"
    /\ IF content[daemon.tr] # daemon.dump
       THEN DelNamespace(daemon.cid)
       ELSE UNCHANGED <<trees, nsList, nsFile, dirs>>
    /\ daemon' = DaemonIdle
    /\ UNCHANGED <<started, rootKey, content, nTrees, queue, nImports, hs, crashes>>

Next ==
    \/ ManagerInit \/ Crash
    \/ AddToImportQueue
    \/ DaemonReceive \/ DaemonFetch \/ DaemonImport \/ DaemonCheck
    \/ \E h \in Handlers :
          \/ HandleAddCensus(h)
          \/ HandleWrite(h) \/ WriteClaims(h)
          \/ HandlePublish(h) \/ PublishAddNamespace(h) \/ PublishImport(h)

\* The Go runtime runs every runnable goroutine: the daemon and the
\* request goroutines that are past their checks.  Clients and the
\* callers of AddToImportQueue are not obliged to act.  DaemonFetch gets
\* no fairness: Storage.Retrieve(context.TODO(), ...) has no deadline and
\* may never return.
Fairness ==
    /\ WF_vars(ManagerInit)
    /\ WF_vars(DaemonReceive)
    /\ WF_vars(DaemonImport) /\ WF_vars(DaemonCheck)
    /\ \A h \in Handlers :
          WF_vars(WriteClaims(h)) /\ WF_vars(PublishAddNamespace(h)) /\ WF_vars(PublishImport(h))

Spec == Init /\ [][Next]_vars
FairSpec == Spec /\ Fairness

-----------------------------------------------------------------------------
\* The keys of the namespace named cid in a list of namespaces, and in
\* m.Census (none if unlisted).
KeysIn(ns, cid) == UNION {ns[i].keys : i \in {j \in DOMAIN ns : ns[j].name = cid}}
KeysOf(cid) == KeysIn(nsList, cid)

\* Whether a signer may manage a namespace with keys ks.
Admits(ks, signer) == ks \in {{}, {ShortKey}} \/ signer \in ks

\* m.Trees and m.Census.Namespaces describe the same censuses, each listed
\* once, whatever the interleaving of requests and imports: the daemon's
\* check under RLock is stale by the time it calls AddNamespace, and only
\* AddNamespace's own existence check under TreesMu keeps a census that
\* appeared in between from being listed twice.
NamespacesMatchTrees ==
    /\ \A n \in Names : trees[n] # NONE <=> n \in NsNames
    /\ \A i, j \in DOMAIN nsList : nsList[i].name = nsList[j].name => i = j

\* A request may write to or publish a census only when signed by one of
\* that census's management keys, or when the census has none ("allowing
\* all"): CheckAuth must check the keys of the namespace the request names.
PrivateMethodsAuthorisedByOwnKeys ==
    [][\A h \in Handlers :
         (hs[h].pc = "idle" /\ hs'[h].pc \in {"writing", "publishing"})
            => Admits(KeysOf(hs'[h].cid), hs'[h].signer)]_vars

\* Claims a request reports as added go into the census the request named:
\* the tree read under RLock is still that census's tree when the write
\* runs, although the daemon may delete the census meanwhile.
ClaimsAddedToLiveCensus ==
    [][\A h \in Handlers :
         (hs[h].pc = "writing" /\ hs'[h].pc = "idle") => trees[hs[h].cid] = hs[h].tr]_vars

\* A census that the import daemon or publish creates under a root hash
\* has that root when they are done with it, or is gone: the daemon
\* deletes an import whose root does not match ("dump root Hash ... do
\* not match, aborting import"), and publish names the census after the
\* root of the claims it imports.
CensusNamedByItsRoot ==
    [][/\ (daemon.pc \in {"import", "check"} /\ daemon'.pc = "idle")
          => (trees'[daemon.cid] = daemon.tr => content'[daemon.tr] = daemon.cid)
       /\ \A h \in Handlers :
            (hs[h].pc = "publishImport" /\ hs'[h].pc = "idle")
               => (trees'[hs[h].cid] = hs[h].tr => content'[hs[h].tr] = hs[h].cid)]_vars

\* namespaces.json never lists a census twice: a restart would load both
\* entries under one name, and CheckAuth and KeysOf would read keys of
\* either.  AddNamespace's check looks at m.Trees, not at the list.
NsFileListsEachOnce ==
    \A i, j \in DOMAIN nsFile.ns : nsFile.ns[i].name = nsFile.ns[j].name => i = j

\* Every census queued with AddToImportQueue is eventually received by the
\* import daemon.
ImportsEventuallyReceived ==
    \A n \in 1..MaxImports : (nImports >= n) ~> (nImports - Len(queue) >= n)

\* The censuses the Manager serves: from memory once Init has run, and
\* from namespaces.json and the tree directories while the process is down.
RegistryView ==
    [n \in Names |->
        IF started
        THEN IF trees[n] = NONE THEN NONE
             ELSE [keys |-> KeysOf(n), claims |-> content[trees[n]]]
        ELSE IF nsFile.state = "ok" /\ n \in NamesIn(nsFile.ns)
             THEN [keys |-> KeysIn(nsFile.ns, n), claims |-> content[dirs[n]]]
             ELSE NONE]

Registry == INSTANCE CensusRegistry WITH
                registry <- RegistryView, KeySets <- SUBSET (Keys \cup {ShortKey})

\* Requests, imports, publish and restarts only ever create a census under
\* a free name with the keys it was created with, add claims to it, or
\* delete a root-named census whose claims do not match: save() after
\* every change to m.Census and the tree directories make a restart
\* (Init) bring back every census with its keys and claims.
ImplementsCensusRegistry == Registry!Spec

=============================================================================
