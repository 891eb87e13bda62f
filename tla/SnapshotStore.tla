--------------------------- MODULE SnapshotStore ---------------------------
(***************************************************************************)
(* Startup snapshots: the trigger of a KVM machine captures memory and a    *)
(* manifest (internal/hv/kvm/snapshot_linux_amd64.go) into a staging        *)
(* directory, which snapshotstore publishes by a rename                     *)
(* (internal/hv/snapshotstore/store.go), and a later boot loads them.       *)
(*                                                                          *)
(* Machines share one root.  Of the file system the model keeps what is     *)
(* seen now and what survives a crash of the host: data after an fsync of   *)
(* the file, the entries of a directory after an fsync of the directory; a  *)
(* rename is atomic.  Anything else may or may not survive.                 *)
(***************************************************************************)
CONSTANT Captures  \* machines, each with the directory it would capture into

Files == {"memory.bin", "manifest.json"}

VARIABLES
    trigger,  \* pending, and whether once.Do has run
    pc,       \* where the capture is
    place,    \* the directory: "none", "staging" or "final"
    content,  \* of each file: "absent", "partial" (its size is set), "whole"
    synced,   \* files whose data is on disk
    listed,   \* captures whose staging directory has its entries on disk
    onDisk,   \* place, as far as the root is on disk
    old,      \* staging directories not modified for staleAfter
    result,   \* what captureIfPending has returned: "none", "nil", "error"
    loaded    \* what loadKVMSnapshot has returned: the capture and its files

vars == <<trigger, pc, place, content, synced, listed, onDisk, old, result, loaded>>
fsVars == <<place, content, synced, listed, onDisk>>

Absent == [f \in Files |-> "absent"]
Present(c) == {f \in Files : content[c][f] # "absent"}

Init ==
    /\ trigger = [c \in Captures |-> [pending |-> FALSE, once |-> FALSE]]
    /\ pc = [c \in Captures |-> "idle"]
    /\ place = [c \in Captures |-> "none"]
    /\ content = [c \in Captures |-> Absent]
    /\ synced = [c \in Captures |-> {}]
    /\ listed = {}
    /\ onDisk = [c \in Captures |-> "none"]
    /\ old = {}
    /\ result = [c \in Captures |-> "none"]
    /\ loaded = {}

Goto(c, to) == pc' = [pc EXCEPT ![c] = to]

-----------------------------------------------------------------------------
(* The trigger.                                                            *)

\* The guest writes the register, or prints the marker.
markWrite(c) ==
    /\ pc[c] = "idle" /\ ~trigger[c].pending
    /\ trigger' = [trigger EXCEPT ![c].pending = TRUE]
    /\ UNCHANGED <<pc, old, result, loaded, fsVars>>

\* The vCPU loop takes the trigger; only the first one captures.
captureIfPending(c) ==
    /\ pc[c] = "idle" /\ trigger[c].pending
    /\ trigger' = [trigger EXCEPT ![c] = [pending |-> FALSE, once |-> TRUE]]
    /\ Goto(c, IF trigger[c].once THEN "idle" ELSE "begin")
    /\ UNCHANGED <<old, result, loaded, fsVars>>

-----------------------------------------------------------------------------
(* Begin.                                                                  *)

\* cleanupStale: every old staging directory goes; no error is reported.
cleanupStale(gone) ==
    /\ gone \subseteq old
    /\ place' = [c \in Captures |-> IF c \in gone THEN "none" ELSE place[c]]
    /\ content' = [c \in Captures |-> IF c \in gone THEN Absent ELSE content[c]]
    /\ synced' = [c \in Captures |-> IF c \in gone THEN {} ELSE synced[c]]
    /\ listed' = listed \ gone
    /\ old' = old \ gone

Cleanup(c) ==
    /\ pc[c] = "begin"
    /\ \E gone \in SUBSET old : cleanupStale(gone)
    /\ Goto(c, "mkdir")
    /\ UNCHANGED <<trigger, onDisk, result, loaded>>

MkdirTemp(c) ==
    /\ pc[c] = "mkdir"
    /\ place' = [place EXCEPT ![c] = "staging"]
    /\ Goto(c, "write")
    /\ UNCHANGED <<trigger, content, synced, listed, onDisk, old, result, loaded>>

-----------------------------------------------------------------------------
(* The components: writeSparseFile, then os.WriteFile.  A file is partial    *)
(* from its creation until its last byte.                                   *)

Current(c) == IF content[c]["memory.bin"] = "whole" THEN "manifest.json" ELSE "memory.bin"

WriteBegins(c) ==
    /\ pc[c] = "write" /\ content[c][Current(c)] = "absent"
    /\ content' = [content EXCEPT ![c][Current(c)] = "partial"]
    /\ UNCHANGED <<trigger, pc, place, synced, listed, onDisk, old, result, loaded>>

WriteEnds(c) ==
    /\ pc[c] = "write" /\ content[c][Current(c)] = "partial"
    /\ content' = [content EXCEPT ![c][Current(c)] = "whole"]
    /\ Goto(c, IF Current(c) = "manifest.json" THEN "validate" ELSE "write")
    /\ UNCHANGED <<trigger, place, synced, listed, onDisk, old, result, loaded>>

-----------------------------------------------------------------------------
(* Publish.                                                                *)

\* Every required component is a regular file that is not empty.
Validate(c) ==
    /\ pc[c] = "validate"
    /\ Goto(c, IF Present(c) = Files THEN "sync" ELSE "abort")
    /\ UNCHANGED <<trigger, old, result, loaded, fsVars>>

\* The next entry of the directory is synced, ...
SyncFile(c) ==
    /\ pc[c] = "sync"
    /\ \E f \in Present(c) \ synced[c] : synced' = [synced EXCEPT ![c] = @ \cup {f}]
    /\ UNCHANGED <<trigger, pc, place, content, listed, onDisk, old, result, loaded>>

\* Mutant: the directory is synced before its files.
SyncStagingFirst(c) ==
    /\ pc[c] = "sync"
    /\ listed' = listed \cup {c}
    /\ Goto(c, "rename")
    /\ UNCHANGED <<trigger, place, content, synced, onDisk, old, result, loaded>>

\* ... after the last one the directory itself, ...
SyncStaging(c) ==
    /\ pc[c] = "sync" /\ Present(c) \subseteq synced[c]
    /\ listed' = listed \cup {c}
    /\ Goto(c, "rename")
    /\ UNCHANGED <<trigger, place, content, synced, onDisk, old, result, loaded>>

\* ... which is renamed, ...
Rename(c) ==
    /\ pc[c] = "rename"
    /\ place' = [place EXCEPT ![c] = "final"]
    /\ Goto(c, "syncRoot")
    /\ UNCHANGED <<trigger, content, synced, listed, onDisk, old, result, loaded>>

Return(c, r) == Goto(c, "idle") /\ result' = [result EXCEPT ![c] = r]

\* ... and the root is synced, with whatever it lists.
SyncRoot(c) ==
    /\ pc[c] = "syncRoot"
    /\ onDisk' = place
    /\ Return(c, "nil")
    /\ UNCHANGED <<trigger, place, content, synced, listed, old, loaded>>

-----------------------------------------------------------------------------
(* Errors: any call may fail, and the deferred Abort runs.                  *)

Fails(c) ==
    /\ pc[c] \in {"begin", "mkdir", "write", "validate", "sync", "rename"}
    /\ Goto(c, "abort")
    /\ UNCHANGED <<trigger, old, result, loaded, fsVars>>

\* Mutant: the error is dropped.
SyncRootIgnored(c) ==
    /\ pc[c] = "syncRoot"
    /\ Return(c, "nil")
    /\ UNCHANGED <<trigger, old, loaded, fsVars>>

\* The snapshot is published, but Publish returns an error.
SyncRootFails(c) ==
    /\ pc[c] = "syncRoot"
    /\ Return(c, "error")
    /\ UNCHANGED <<trigger, old, loaded, fsVars>>

\* RemoveAll removes a file, and in the end the directory; it may give up.
AbortFile(c) ==
    /\ pc[c] = "abort"
    /\ \E f \in Present(c) :
           /\ content' = [content EXCEPT ![c][f] = "absent"]
           /\ synced' = [synced EXCEPT ![c] = @ \ {f}]
    /\ UNCHANGED <<trigger, pc, place, listed, onDisk, old, result, loaded>>

Abort(c) ==
    /\ pc[c] = "abort"
    /\ \/ /\ Present(c) = {}
          /\ place' = [place EXCEPT ![c] = "none"]
          /\ listed' = listed \ {c}
       \/ UNCHANGED <<place, listed>>
    /\ Return(c, "error")
    /\ UNCHANGED <<trigger, content, synced, onDisk, old, loaded>>

-----------------------------------------------------------------------------
(* Time and crashes.                                                        *)

Running(c) == pc[c] \notin {"idle", "dead"}

\* A capture takes less than staleAfter, so only a staging directory nobody
\* writes to grows old.
Ages(c) ==
    /\ place[c] = "staging" /\ ~Running(c) /\ c \notin old
    /\ old' = old \cup {c}
    /\ UNCHANGED <<trigger, pc, result, loaded, fsVars>>

\* The process of one machine is killed.
Killed(c) ==
    /\ pc[c] # "dead"
    /\ Goto(c, "dead")
    /\ UNCHANGED <<trigger, old, result, loaded, fsVars>>

\* Where the directory may be found after a crash of the host.
Places(c) ==
    {onDisk[c], place[c]} \cup (IF place[c] = "final" /\ onDisk[c] = "none" THEN {"staging"} ELSE {})

\* What a file may hold then: anything, unless it and its entry were synced (a
\* removal may be undone as well).
Contents(c, f) ==
    IF f \in synced[c] /\ c \in listed THEN {content[c][f]} ELSE {"absent", "partial", "whole"}

\* Power fails: every process is gone, and each directory and file is found in
\* one of the states the disk may be in.
PowerFails ==
    /\ pc' = [c \in Captures |-> "dead"]
    /\ place' \in [Captures -> {"none", "staging", "final"}]
    /\ \A c \in Captures : place'[c] \in Places(c)
    /\ content' \in [Captures -> [Files -> {"absent", "partial", "whole"}]]
    /\ \A c \in Captures : IF place'[c] = "none" THEN content'[c] = Absent
                           ELSE \A f \in Files : content'[c][f] \in Contents(c, f)
    /\ onDisk' = place'
    /\ synced' = [c \in Captures |-> {f \in Files : content'[c][f] # "absent"}]
    /\ listed' = {c \in Captures : place'[c] # "none"}
    /\ old' = {c \in old : place'[c] = "staging"}
    /\ UNCHANGED <<trigger, result, loaded>>

-----------------------------------------------------------------------------

\* loadKVMSnapshot: the manifest decodes, and the memory has the size it names,
\* which a partial file has.
loadKVMSnapshot(c) ==
    /\ place[c] = "final"
    /\ content[c]["manifest.json"] = "whole" /\ content[c]["memory.bin"] # "absent"
    /\ loaded' = loaded \cup {[capture |-> c, memory |-> content[c]["memory.bin"]]}
    /\ UNCHANGED <<trigger, pc, old, result, fsVars>>

Step(c) ==
    \/ markWrite(c) \/ captureIfPending(c) \/ Cleanup(c) \/ MkdirTemp(c)
    \/ WriteBegins(c) \/ WriteEnds(c) \/ Validate(c) \/ SyncFile(c) \/ SyncStaging(c)
    \/ Rename(c) \/ SyncRoot(c) \/ Fails(c) \/ SyncRootFails(c) \/ AbortFile(c) \/ Abort(c)
    \/ Ages(c) \/ Killed(c) \/ loadKVMSnapshot(c)

Next == PowerFails \/ \E c \in Captures : Step(c)

Spec == Init /\ [][Next]_vars

-----------------------------------------------------------------------------

TypeOK ==
    /\ trigger \in [Captures -> [pending : BOOLEAN, once : BOOLEAN]]
    /\ pc \in [Captures -> {"idle", "begin", "mkdir", "write", "validate", "sync", "rename",
                            "syncRoot", "abort", "dead"}]
    /\ place \in [Captures -> {"none", "staging", "final"}]
    /\ content \in [Captures -> [Files -> {"absent", "partial", "whole"}]]
    /\ synced \in [Captures -> SUBSET Files]
    /\ listed \subseteq Captures
    /\ onDisk \in [Captures -> {"none", "staging", "final"}]
    /\ old \subseteq Captures
    /\ result \in [Captures -> {"none", "nil", "error"}]

\* A snapshot a reader can find is complete and on disk, whatever crashes, fails,
\* or is cleaned up beside it (Publish).
VisibleIsDurable ==
    \A c \in Captures : place[c] = "final" =>
        /\ \A f \in Files : content[c][f] = "whole"
        /\ synced[c] = Files /\ c \in listed

\* A snapshot that loads has the whole memory, although only its size is looked at
\* (loadKVMSnapshot).
LoadedIsWhole == \A l \in loaded : l.memory = "whole"

\* What makes both inductive: how far a capture is says where its directory is and
\* what it holds, a capture runs once, and only what nobody writes to grows old.
CaptureInv(c) ==
    /\ Running(c) => trigger[c].once /\ result[c] = "none"
    /\ ~trigger[c].once => place[c] = "none" /\ content[c] = Absent /\ synced[c] = {}
                              /\ onDisk[c] = "none" /\ result[c] = "none"
    /\ pc[c] \in {"begin", "mkdir"} => place[c] = "none" /\ content[c] = Absent /\ synced[c] = {}
    /\ pc[c] \in {"write", "validate", "sync", "rename"} => place[c] = "staging"
    /\ pc[c] \in {"validate", "sync", "rename"} => \A f \in Files : content[c][f] = "whole"
    /\ pc[c] = "rename" => synced[c] = Files /\ c \in listed
    /\ pc[c] = "syncRoot" => place[c] = "final"
    /\ pc[c] = "abort" => place[c] # "final"
    /\ c \in old => place[c] = "staging" /\ ~Running(c)
    /\ onDisk[c] = "final" => place[c] = "final"
    /\ result[c] = "nil" => place[c] = "final" /\ onDisk[c] = "final"

IInv == TypeOK /\ VisibleIsDurable /\ LoadedIsWhole /\ \A c \in Captures : CaptureInv(c)

\* The store implements the promise to its readers.
Root == INSTANCE SnapshotRoot WITH
    shown <- [c \in Captures |-> IF place[c] = "final" THEN content[c] ELSE Absent],
    reported <- {c \in Captures : result[c] = "nil"}

\* Seen from outside, snapshots appear whole in one step and stay once reported.
AppearsAtOnce == Root!RootSpec
=============================================================================
