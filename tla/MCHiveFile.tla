----------------------------- MODULE MCHiveFile -----------------------------
(* Small instances of HiveFile for TLC.                                    *)
EXTENDS HiveFile

CONSTANTS g1, here, there

\* An empty file, and files of one and of two bytes.
Versions == {<<>>, <<1>>, <<2, 1>>}

\* One download from OneDrive and one from IPFS, both to the same path, which
\* does not read like the remote file name.
SamePath    == [g \in Gets |-> there]
OneFromEach == [g \in Gets |-> IF g = g1 THEN "onedrive" ELSE "ipfs"]
=============================================================================
