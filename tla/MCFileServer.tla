----------------------------- MODULE MCFileServer -----------------------------
(* Instances of the file server.                                            *)
EXTENDS FileServer, TLC

\* An open of what is there, one that creates or truncates, and one that creates.
OpenModes == {{}, {"CREAT", "TRUNC"}, {"CREAT", "EXCL"}}

\* Programs are alike, and every property here is a safety property.
Alike == Permutations(Clients)
=============================================================================
