------------------------------ MODULE DirTree ------------------------------
(***************************************************************************)
(* What a guest is promised of its root file system, without image layers,  *)
(* whiteouts or lazily read directories: a tree of names that only the      *)
(* guest's own requests change.  The tree starts as the image; nothing of    *)
(* the image that has been removed ever comes back, and no lookup and no     *)
(* reading of a directory changes it.                                       *)
(***************************************************************************)
CONSTANTS
    TheRoot,    \* the root directory
    Names,      \* names of directory entries
    Image,      \* the tree of the image: a set of entries
    Fresh       \* objects that are not part of the image

VARIABLES
    tree,       \* a set of entries [dir, name, obj, written]
    readers     \* lookups and directory reads in progress, of guest and host

Entry(d, n, o, w) == [dir |-> d, name |-> n, obj |-> o, written |-> w]

Objects(t) == {e.obj : e \in t}
At(t, d, n) == {e \in t : e.dir = d /\ e.name = n}

\* The objects that can be reached from o, o among them.
Below(t, o) ==
    LET grow[from \in SUBSET (Objects(t) \cup {o})] ==
            LET more == from \cup {e.obj : e \in {x \in t : x.dir \in from}}
            IN  IF more = from THEN from ELSE grow[more]
    IN  grow[{o}]

\* The entries that are left when those outside the tree are dropped.
Pruned(t) == {e \in t : e.dir \in Below(t, TheRoot)}

-----------------------------------------------------------------------------
(* The steps, as relations between the tree t before and the tree u after.  *)

\* x is an entry at a free name of a directory of the tree.
Free(t, x) ==
    /\ x.dir \in Objects(t) \cup {TheRoot} /\ x.name \in Names
    /\ At(t, x.dir, x.name) = {}

\* A new object, or a second name for an object.
Add(t, u, x) == x.obj \in Fresh \ Objects(t) /\ ~x.written /\ Free(t, x) /\ u = t \cup {x}
Link(t, u, x, e) == x.obj = e.obj /\ x.written = e.written /\ Free(t, x) /\ u = t \cup {x}

Remove(t, u, e) == u = Pruned(t \ {e})

\* Renaming takes the place of what was there.
Move(t, u, e, x) ==
    /\ x.obj = e.obj /\ x.written = e.written
    /\ u = Pruned((t \ ({e} \cup At(t, x.dir, x.name))) \cup {x})

Exchange(t, u, e, f) ==
    u = (t \ {e, f}) \cup {Entry(e.dir, e.name, f.obj, f.written),
                           Entry(f.dir, f.name, e.obj, e.written)}

\* The data of an object changes under all its names.
Write(t, u, o) ==
    u = {IF e.obj = o THEN [e EXCEPT !.written = TRUE] ELSE e : e \in t}

Step(t, u) ==
    \/ \E x \in u \ t : Add(t, u, x) \/ \E e \in t : Link(t, u, x, e)
    \/ \E e \in t \ u :
          \/ Remove(t, u, e) \/ Write(t, u, e.obj)
          \/ \E x \in u \ t : Move(t, u, e, x)
          \/ \E f \in t \ u : Exchange(t, u, e, f)

TreeInit == tree = Image

TreeNext == UNCHANGED readers /\ \E t \in {tree}, u \in {tree'} : Step(t, u)

TreeSpec == TreeInit /\ [][TreeNext]_tree
=============================================================================
