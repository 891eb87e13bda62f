--------------------------- MODULE SnapshotRoot ---------------------------
(***************************************************************************)
(* What the directory of snapshots promises its readers, without staging    *)
(* directories, fsync or crashes in the middle: a snapshot appears whole, in *)
(* one step; once its capture has been reported as successful it stays; one *)
(* that has not been reported may be lost in a crash, as a whole.           *)
(***************************************************************************)
CONSTANTS
    Captures,   \* captures there may be
    Files       \* the components of a snapshot

VARIABLES
    shown,      \* what a reader finds of each snapshot: its whole files, if any
    reported    \* captures whose success has been reported

Hidden == [f \in Files |-> "absent"]
Whole == [f \in Files |-> "whole"]

RootInit == shown = [c \in Captures |-> Hidden] /\ reported = {}

Appear(c) ==
    /\ shown[c] = Hidden
    /\ shown' = [shown EXCEPT ![c] = Whole]
    /\ UNCHANGED reported

Report(c) ==
    /\ shown[c] = Whole
    /\ reported' = reported \cup {c}
    /\ UNCHANGED shown

Lose(lost) ==
    /\ lost \cap reported = {}
    /\ shown' = [c \in Captures |-> IF c \in lost THEN Hidden ELSE shown[c]]
    /\ UNCHANGED reported

RootNext ==
    \/ \E c \in Captures : Appear(c) \/ Report(c)
    \/ \E lost \in SUBSET Captures : Lose(lost)

RootSpec == RootInit /\ [][RootNext]_<<shown, reported>>
=============================================================================
