----------------------------- MODULE MCImageFS -----------------------------
(* An image with a directory that holds a file.                             *)
EXTENDS ImageFS, TLC

CONSTANTS root, etc, conf, a, b

MCDirs == {root, etc}
MCFiles == {conf}
MCEntries ==
    (root :> (a :> etc @@ b :> NoLower)) @@ (etc :> (a :> conf @@ b :> NoLower))
=============================================================================
