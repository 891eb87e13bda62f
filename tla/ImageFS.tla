------------------------------ MODULE ImageFS ------------------------------
(***************************************************************************)
(* The root file system of a machine, internal/virtio/fs_backends.go        *)
(* (imageFS) and snapshot.go: a writable tree of nodes over the read-only    *)
(* directories of an image.  A lower directory is read when it is first      *)
(* needed: a name at a time by LOOKUP, as a whole by OPENDIR and by a host    *)
(* that takes a snapshot.  The reading happens outside imageFS.mu, so other  *)
(* requests and other readers run between the moment the lower directory is  *)
(* chosen and the moment what was read is entered in the node.              *)
(*                                                                          *)
(* Requests are served by the workers of the virtio-fs device.  The guest    *)
(* kernel's own rules are guards: it creates only at a name it has looked up *)
(* and not found, never in a removed directory, and never moves a directory  *)
(* below itself.  File data is one bit: still the image's, or written.       *)
(***************************************************************************)
EXTENDS FiniteSets, Naturals, Functions, SequencesExt

CONSTANTS
    Workers,        \* threads that serve requests
    Names,          \* names of entries
    LowerDirs,      \* directories of the image
    LowerFiles,     \* files of the image
    LowerRoot,      \* its root
    LowerEntries,   \* [LowerDirs -> [Names -> object or NoLower]]
    NoLower,        \* nothing
    MaxNodes,       \* bound: node ids handed out
    MaxRequests     \* bound: requests of the guest and calls of the host

ASSUME LowerIsTree ==
    /\ LowerRoot \in LowerDirs
    /\ LowerEntries \in [LowerDirs -> [Names -> LowerDirs \cup LowerFiles \cup {NoLower}]]
    /\ \A o \in (LowerDirs \cup LowerFiles) \ {LowerRoot} :
          Cardinality({x \in LowerDirs \X Names : LowerEntries[x[1]][x[2]] = o}) = 1
    /\ \A x \in LowerDirs \X Names : LowerEntries[x[1]][x[2]] # LowerRoot

Root == 1
Ids == Root..MaxNodes

VARIABLES
    nodes,        \* the nodes there are, by id
    nextNodeID,
    opens,        \* open handles of each node, of files and of directories
    pc,           \* what each worker does outside the lock
    mats,         \* directories that are being read for snapshots
    snap,         \* RootSnapshotContext
    closed,       \* BeginClose has run
    requests      \* how many there were

vars == <<nodes, nextNodeID, opens, pc, mats, snap, closed, requests>>

Nowhere == [n \in Names |-> 0]

\* createAbstractNode and the creating requests: a node over a lower object,
\* or one of the guest's own.
LowerNode(o) ==
    [kind |-> IF o \in LowerDirs THEN "dir" ELSE "file", low |-> o, entries |-> Nowhere,
     whiteouts |-> {}, entriesDone |-> FALSE, nlink |-> IF o \in LowerDirs THEN 0 ELSE 1,
     written |-> FALSE]

\* Symlink does not register its link.
UpperNode(kind) ==
    [kind |-> kind, low |-> NoLower, entries |-> Nowhere, whiteouts |-> {},
     entriesDone |-> FALSE, nlink |-> IF kind = "file" THEN 1 ELSE 0, written |-> FALSE]

Idle == [at |-> "idle", dir |-> 0, name |-> CHOOSE n \in Names : TRUE]
Resting == [at |-> "idle", dir |-> 0, todo |-> {}, seen |-> {}]

Init ==
    /\ nodes = (Root :> LowerNode(LowerRoot))
    /\ nextNodeID = 2
    /\ opens = [i \in Ids |-> 0]
    /\ pc = [w \in Workers |-> Idle]
    /\ mats = {}
    /\ snap = Resting
    /\ closed = FALSE
    /\ requests = 0

Request == requests < MaxRequests /\ requests' = requests + 1

-----------------------------------------------------------------------------
(* Operations on the table of nodes.                                       *)

Live == DOMAIN nodes
Dirs == {i \in Live : nodes[i].kind = "dir"}
Abstract(i) == nodes[i].low # NoLower        \* of a directory: abstractDir # nil

imageNodeReferenceCount(ns, i) ==
    Cardinality({x \in {d \in DOMAIN ns : ns[d].kind = "dir"} \X Names : ns[x[1]].entries[x[2]] = i})

refreshImageNodeLinks(ns, i) ==
    IF ns[i].kind = "dir" THEN ns
    ELSE LET refs == imageNodeReferenceCount(ns, i)
         IN  [ns EXCEPT ![i].nlink = IF refs = 0 THEN 1 ELSE refs]

\* Mutant: open handles are not looked at.
collectUnlinkedNode(ns, open, i) ==
    IF i = Root \/ i \notin DOMAIN ns \/ imageNodeReferenceCount(ns, i) # 0 THEN ns
    ELSE Restrict(ns, DOMAIN ns \ {i})

\* Drops a node that no entry names and no handle holds.
collectImageNode(ns, open, i) ==
    LET linked == IF ns[i].kind = "dir" THEN imageNodeReferenceCount(ns, i) # 0
                                        ELSE ns[i].nlink # 0
    IN  IF i = Root \/ i \notin DOMAIN ns THEN ns
        ELSE IF linked \/ open[i] # 0 THEN ns
        ELSE Restrict(ns, DOMAIN ns \ {i})

\* What Unlink and Rename do with a node that lost an entry.
dropReference(ns, i) ==
    IF imageNodeReferenceCount(ns, i) = 0
    THEN collectImageNode([ns EXCEPT ![i].nlink = 0], opens, i)
    ELSE refreshImageNodeLinks(ns, i)

\* The entry goes; a name that the lower directory may have is covered.
withoutEntry(ns, d, n) ==
    [ns EXCEPT ![d].entries[n] = 0,
               ![d].whiteouts = IF ns[d].low = NoLower THEN @ ELSE @ \cup {n}]

withEntry(ns, d, n, i) ==
    [ns EXCEPT ![d].entries[n] = i, ![d].whiteouts = @ \ {n}]

-----------------------------------------------------------------------------
(* What the guest can see: the entries, and below them what of the lower     *)
(* directory is neither covered nor entered yet.                            *)

\* The nodes that can be reached from a set of nodes by entries.
Reach(from) ==
    LET grow[ids \in SUBSET Ids] ==
            LET more == ids \cup ({nodes[x[1]].entries[x[2]] : x \in (ids \cap Dirs) \X Names} \cap Live)
            IN  IF more = ids THEN ids ELSE grow[more]
    IN  grow[from]

AttachedDirs == Reach({Root}) \cap Dirs

Entry(d, n, o, w) == [dir |-> d, name |-> n, obj |-> o, written |-> w]

\* The entries of the image below an object of it.
LowerBelow ==
    LET below[o \in LowerDirs \cup LowerFiles] ==
            IF o \in LowerFiles THEN {}
            ELSE UNION {{Entry(o, n, LowerEntries[o][n], FALSE)} \cup below[LowerEntries[o][n]] :
                           n \in {m \in Names : LowerEntries[o][m] # NoLower}}
    IN  below

\* The names of a directory that the image alone provides.
Unentered(d) ==
    {n \in Names : /\ Abstract(d) /\ LowerEntries[nodes[d].low][n] # NoLower
                   /\ n \notin nodes[d].whiteouts /\ nodes[d].entries[n] = 0}

Key(i) == IF nodes[i].low = NoLower THEN i ELSE nodes[i].low

Entered(dirs) ==
    {Entry(Key(x[1]), x[2], Key(nodes[x[1]].entries[x[2]]), nodes[nodes[x[1]].entries[x[2]]].written) :
        x \in {y \in dirs \X Names : nodes[y[1]].entries[y[2]] \in Live}}

\* All that can be reached from the root.
View ==
    LET dirs == AttachedDirs
        lower(d, n) == LowerEntries[nodes[d].low][n]
    IN  Entered(dirs) \cup
        UNION {{Entry(Key(d), n, lower(d, n), FALSE) : n \in Unentered(d)} : d \in dirs} \cup
        UNION {LowerBelow[o] : o \in UNION {{lower(d, n) : n \in Unentered(d)} : d \in dirs}}

-----------------------------------------------------------------------------
(* LOOKUP of a name that is not entered yet.                               *)

Goto(w, at, d, n) == pc' = [pc EXCEPT ![w] = [at |-> at, dir |-> d, name |-> n]]
Rest(w) == pc' = [pc EXCEPT ![w] = Idle]

Lookup(w, d, n) ==
    /\ Request /\ pc[w] = Idle
    /\ nodes[d].entries[n] = 0 /\ n \notin nodes[d].whiteouts /\ Abstract(d)
    /\ Goto(w, "lookup", d, n)
    /\ UNCHANGED <<nodes, nextNodeID, opens, mats, snap, closed>>

\* The lower directory has no such name, or cannot be read.
LookupFails(w) ==
    /\ pc[w].at = "lookup"
    /\ Rest(w)
    /\ UNCHANGED <<nodes, nextNodeID, opens, mats, snap, closed, requests>>

\* Mutant: the whiteouts are not looked at again.
LookupNotEntered(d, n) == d \in Live /\ nodes[d].entries[n] = 0

\* Whether what the lower directory returned is entered: the node, the
\* whiteouts and the entries are looked at again.
LookupIsNew(d, n) ==
    d \in Live /\ n \notin nodes[d].whiteouts /\ nodes[d].entries[n] = 0

\* Nodes for some names of the lower directory of d, which then may be done.
createAbstractNodes(d, missing, done) ==
    LET order == SetToSeq(missing)
        id == [n \in missing |-> nextNodeID - 1 + CHOOSE k \in DOMAIN order : order[k] = n]
    IN  /\ nextNodeID + Cardinality(missing) <= MaxNodes + 1
        /\ nextNodeID' = nextNodeID + Cardinality(missing)
        /\ nodes' = [i \in Live \cup Range(id) |->
                        IF i \in Range(id) THEN LowerNode(LowerEntries[nodes[d].low][order[i - nextNodeID + 1]])
                        ELSE IF i = d THEN [nodes[d] EXCEPT
                            !.entries = [n \in Names |-> IF n \in missing THEN id[n] ELSE @[n]],
                            !.entriesDone = @ \/ done]
                        ELSE nodes[i]]

LookupCommits(w) ==
    LET d == pc[w].dir
        n == pc[w].name
    IN  /\ pc[w].at = "lookup"
        /\ Rest(w)
        /\ IF LookupIsNew(d, n)
           THEN LowerEntries[nodes[d].low][n] # NoLower /\ createAbstractNodes(d, {n}, FALSE)
           ELSE UNCHANGED <<nodes, nextNodeID>>
        /\ UNCHANGED <<opens, mats, snap, closed, requests>>

-----------------------------------------------------------------------------
(* OPENDIR reads the lower directory, enters what is new and lists the node. *)

\* Mutant: a directory that has entries counts as read.
OpenDirIfEmpty(w, d) ==
    /\ Request /\ pc[w] = Idle
    /\ Goto(w, IF Abstract(d) /\ nodes[d].entries = Nowhere THEN "readdir" ELSE "list", d, Idle.name)
    /\ UNCHANGED <<nodes, nextNodeID, opens, mats, snap, closed>>

OpenDir(w, d) ==
    /\ Request /\ pc[w] = Idle
    /\ Goto(w, IF Abstract(d) /\ ~nodes[d].entriesDone THEN "readdir" ELSE "list", d, Idle.name)
    /\ UNCHANGED <<nodes, nextNodeID, opens, mats, snap, closed>>

\* An error of the lower directory, of any of its names too, enters nothing.
ReadDirFails(w) ==
    /\ pc[w].at = "readdir"
    /\ Rest(w)
    /\ UNCHANGED <<nodes, nextNodeID, opens, mats, snap, closed, requests>>

materializeDirEntries(w) ==
    LET d == pc[w].dir
    IN  /\ pc[w].at = "readdir"
        /\ IF d \in Live THEN Goto(w, "list", d, Idle.name) ELSE Rest(w)
        /\ IF d \in Live /\ ~nodes[d].entriesDone
           THEN createAbstractNodes(d, Unentered(d), TRUE)
           ELSE UNCHANGED <<nodes, nextNodeID>>
        /\ UNCHANGED <<opens, mats, snap, closed, requests>>

\* The listing is made of the entries, under the lock taken again.
OpenDirReturns(w) ==
    LET d == pc[w].dir
    IN  /\ pc[w].at = "list"
        /\ Rest(w)
        /\ opens' = IF d \in Live /\ opens[d] = 0 THEN [opens EXCEPT ![d] = 1] ELSE opens
        /\ UNCHANGED <<nodes, nextNodeID, mats, snap, closed, requests>>

-----------------------------------------------------------------------------
(* Requests that are served under the lock from end to end.                *)

requestOnly == Request /\ UNCHANGED <<pc, mats, snap, closed>>

\* The guest has looked the name up, and it has not been found.
Free(d, n) == nodes[d].entries[n] = 0 /\ n \notin Unentered(d)

TakeID == nextNodeID <= MaxNodes /\ nextNodeID' = nextNodeID + 1

\* Mkdir and Symlink leave the whiteout of the name where it is.
Mkdir(d, n, kind) ==
    /\ Free(d, n) /\ TakeID
    /\ nodes' = [nodes EXCEPT ![d].entries[n] = nextNodeID] @@ (nextNodeID :> UpperNode(kind))
    /\ UNCHANGED opens /\ requestOnly

\* Create returns an open handle, Mknod does not.
Create(d, n, handle) ==
    /\ Free(d, n) /\ TakeID
    /\ nodes' = withEntry(nodes, d, n, nextNodeID) @@ (nextNodeID :> UpperNode("file"))
    /\ opens' = [opens EXCEPT ![nextNodeID] = handle]
    /\ requestOnly

Link(i, d, n) ==
    /\ nodes[i].kind # "dir" /\ i \in Reach({Root}) /\ Free(d, n)
    /\ nodes' = refreshImageNodeLinks(withEntry(nodes, d, n, i), i)
    /\ UNCHANGED <<nextNodeID, opens>> /\ requestOnly

Unlink(d, n) ==
    LET i == nodes[d].entries[n]
    IN  /\ i \in Live /\ nodes[i].kind # "dir"
        /\ nodes' = dropReference(withoutEntry(nodes, d, n), i)
        /\ UNCHANGED <<nextNodeID, opens>> /\ requestOnly

\* Only the entries that have been read keep a directory from being removed.
RmDir(d, n) ==
    LET i == nodes[d].entries[n]
    IN  /\ i \in Live
        /\ nodes[i].kind = "dir" /\ nodes[i].entries = Nowhere
        /\ nodes' = collectImageNode(withoutEntry(nodes, d, n), opens, i)
        /\ UNCHANGED <<nextNodeID, opens>> /\ requestOnly

\* The guest has looked both names up; no directory moves below itself, or
\* over one it is in.
RenameArguments(d, n, e, m) ==
    /\ nodes[d].entries[n] \in Live /\ m \notin Unentered(e)
    /\ e \notin Reach({nodes[d].entries[n]})
    /\ d \notin Reach({nodes[e].entries[m]} \cap Live)
    /\ nodes[d].entries[n] # nodes[e].entries[m]

Rename(d, n, e, m) ==
    LET i == nodes[d].entries[n]
        j == nodes[e].entries[m]
        moved == withEntry(withoutEntry(nodes, d, n), e, m, i)
    IN  /\ RenameArguments(d, n, e, m)
        /\ j \in Live => (nodes[i].kind = "dir") = (nodes[j].kind = "dir")
        /\ nodes' = refreshImageNodeLinks(IF j \in Live THEN dropReference(moved, j) ELSE moved, i)
        /\ UNCHANGED <<nextNodeID, opens>> /\ requestOnly

RenameExchange(d, n, e, m) ==
    /\ RenameArguments(d, n, e, m) /\ nodes[e].entries[m] \in Live
    /\ nodes' = [nodes EXCEPT ![d].entries[n] = nodes[e].entries[m],
                              ![e].entries[m] = nodes[d].entries[n]]
    /\ UNCHANGED <<nextNodeID, opens>> /\ requestOnly

Open(i) ==
    /\ nodes[i].kind = "file" /\ opens[i] = 0
    /\ opens' = [opens EXCEPT ![i] = 1]
    /\ UNCHANGED <<nodes, nextNodeID>> /\ requestOnly

\* Through a handle; a truncating OPEN and SETATTR need none.
Write(i) ==
    /\ nodes[i].kind = "file"
    /\ nodes' = [nodes EXCEPT ![i].written = TRUE]
    /\ UNCHANGED <<nextNodeID, opens>> /\ requestOnly

\* RELEASE and RELEASEDIR.
Release(i) ==
    /\ opens[i] > 0
    /\ opens' = [opens EXCEPT ![i] = @ - 1]
    /\ nodes' = collectImageNode(nodes, opens', i)
    /\ UNCHANGED <<nextNodeID, pc, mats, snap, closed, requests>>

-----------------------------------------------------------------------------
(* RootSnapshotContext: walk the tree, reading every directory; look for one *)
(* that is still not read, and copy the tree when there is none.            *)

Walk(todo, seen) == snap' = [at |-> "walk", dir |-> 0, todo |-> todo, seen |-> seen]
walkOnly == UNCHANGED <<nodes, nextNodeID, opens, pc, closed>>
snapOnly == walkOnly /\ UNCHANGED requests

RootSnapshot ==
    /\ Request /\ snap.at \in {"idle", "taken"} /\ Walk({Root}, {})
    /\ UNCHANGED mats /\ walkOnly

\* materializeDirEntriesContext for the next directory of the walk.  A read
\* that is already in flight is joined.
WalkTo(d) ==
    /\ snap.at = "walk" /\ d \in snap.todo
    /\ IF d \notin Live THEN snap' = Resting /\ UNCHANGED mats
       ELSE IF ~Abstract(d) \/ nodes[d].entriesDone
            THEN snap' = [snap EXCEPT !.at = "expand", !.dir = d] /\ UNCHANGED mats
       ELSE IF closed THEN snap' = Resting /\ UNCHANGED mats
       ELSE snap' = [snap EXCEPT !.at = "wait", !.dir = d] /\ mats' = mats \cup {d}
    /\ snapOnly

\* finishDirMaterialization: what was read is entered or dropped, under the
\* lock, and the waiting snapshot learns which.  Cancelling is an error.
finishDirMaterialization(d, err) ==
    LET ok == ~err /\ d \in Live
    IN  /\ d \in mats /\ mats' = mats \ {d}
        /\ IF ok /\ ~nodes[d].entriesDone
           THEN createAbstractNodes(d, Unentered(d), TRUE)
           ELSE UNCHANGED <<nodes, nextNodeID>>
        /\ snap' = IF snap.at # "wait" \/ snap.dir # d THEN snap
                   ELSE IF ok THEN [snap EXCEPT !.at = "expand"] ELSE Resting
        /\ UNCHANGED <<opens, pc, closed, requests>>

\* The directories below are next.
WalkOn ==
    LET d == snap.dir
        below == IF d \in Live THEN Range(nodes[d].entries) \cap Dirs ELSE {}
        seen == snap.seen \cup {d}
    IN  /\ snap.at = "expand"
        /\ Walk((snap.todo \cup below) \ seen, seen)
        /\ UNCHANGED mats /\ snapOnly

\* firstUnmaterializedSnapshotDirLocked: some directory that is not read.
Unread == {d \in AttachedDirs : Abstract(d) /\ ~nodes[d].entriesDone}

WalkEnds ==
    /\ snap.at = "walk" /\ snap.todo = {}
    /\ snap' = [snap EXCEPT !.at = "check"]
    /\ UNCHANGED mats /\ snapOnly

WalkAgain(d) ==
    /\ snap.at = "check" /\ d \in Unread
    /\ Walk({d}, {})
    /\ UNCHANGED mats /\ snapOnly

\* snapshotDirLocked copies entries, under the lock.
SnapshotTree == Entered(AttachedDirs)

\* Mutant: the tree is not looked at again after the walk.
SnapshotAfterWalk ==
    /\ snap.at = "check"
    /\ snap' = [Resting EXCEPT !.at = "taken"]
    /\ UNCHANGED mats /\ snapOnly

SnapshotTaken ==
    /\ snap.at = "check" /\ Unread = {}
    /\ snap' = [Resting EXCEPT !.at = "taken"]
    /\ UNCHANGED mats /\ snapOnly

\* The context of the snapshot ends; a read in flight goes on.
SnapshotCancelled ==
    /\ snap.at \notin {"idle", "taken"} /\ snap' = Resting
    /\ UNCHANGED mats /\ snapOnly

BeginClose ==
    /\ Request /\ ~closed /\ closed' = TRUE
    /\ UNCHANGED <<nodes, nextNodeID, opens, pc, mats, snap>>

-----------------------------------------------------------------------------
Next ==
    \/ \E w \in Workers :
          \/ LookupFails(w) \/ LookupCommits(w)
          \/ ReadDirFails(w) \/ materializeDirEntries(w) \/ OpenDirReturns(w)
          \/ \E d \in Dirs : OpenDir(w, d) \/ \E n \in Names : Lookup(w, d, n)
    \/ /\ requests < MaxRequests
       /\ \E d \in AttachedDirs, n \in Names :
             \/ \E kind \in {"dir", "symlink"} : Mkdir(d, n, kind)
             \/ \E handle \in {0, 1} : Create(d, n, handle)
             \/ Unlink(d, n) \/ RmDir(d, n)
             \/ \E i \in Live : Link(i, d, n)
             \/ \E e \in AttachedDirs, m \in Names : Rename(d, n, e, m) \/ RenameExchange(d, n, e, m)
    \/ \E i \in Live : Open(i) \/ Write(i)
    \/ \E i \in Ids : Release(i)
    \/ \E d \in Ids : WalkTo(d) \/ WalkAgain(d)
    \/ \E d \in Ids, err \in BOOLEAN : finishDirMaterialization(d, err)
    \/ RootSnapshot \/ WalkOn \/ WalkEnds \/ SnapshotTaken \/ SnapshotCancelled
    \/ BeginClose

Spec == Init /\ [][Next]_vars

-----------------------------------------------------------------------------
(* Properties.                                                             *)

\* A node that an entry names or a handle holds is there: OpenDir lists the
\* children of a node without looking whether they exist, and a handle to an
\* unlinked or replaced file goes on reading it until its last release.
HeldNodesLive ==
    /\ \A d \in Dirs, n \in Names : nodes[d].entries[n] \in Live \cup {0}
    /\ \A i \in Ids : opens[i] > 0 => i \in Live

\* A directory that counts as read has every name of the image that the guest
\* did not remove among its entries, so a listing, which is made of entries
\* only, shows what a lookup of each name would find.
ListingComplete ==
    \A w \in Workers :
        pc[w].at = "list" /\ pc[w].dir \in Live =>
            Unentered(pc[w].dir) = {}

\* A snapshot that is taken has all that the guest could reach at that moment,
\* whatever it moved, removed and looked up while the walk was on its way.
SnapshotComplete ==
    [][snap.at = "check" /\ snap'.at = "taken" => SnapshotTree = View]_vars

\* The lazily read image under its whiteouts behaves as a tree that only the
\* guest's own requests change: no lookup and no reading of a directory, by
\* whatever worker and however late it is entered, brings back what was
\* removed or hides what is there.
LowerTree ==
    {[dir |-> x[1], name |-> x[2], obj |-> LowerEntries[x[1]][x[2]], written |-> FALSE] :
        x \in {y \in LowerDirs \X Names : LowerEntries[y[1]][y[2]] # NoLower}}

Tree == INSTANCE DirTree WITH
    TheRoot <- LowerRoot, Image <- LowerTree, Fresh <- Ids, tree <- View,
    readers <- <<pc, mats, snap>>

ImplementsTree == Tree!TreeSpec
=============================================================================
