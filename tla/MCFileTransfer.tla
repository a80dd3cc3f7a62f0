---------------------------- MODULE MCFileTransfer ----------------------------
(* Instance of FileTransfer for TLC: a full chunk and a short one. *)
EXTENDS FileTransfer

CONSTANTS f, g, h

MCFile == <<f, g, h>>
=============================================================================
