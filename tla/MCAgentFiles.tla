----------------------------- MODULE MCAgentFiles -----------------------------
(* The file and its checkpoints without the console, up to so many contents and *)
(* checkpoints: every order of changes, failures, undos and rewinds.            *)
EXTENDS AgentFiles

CONSTANTS MaxWritten, MaxSaved

BoundedNext == FilesNext /\ written' <= MaxWritten /\ Len(saved') <= MaxSaved

BoundedSpec == FilesInit /\ [][BoundedNext]_fileVars
=============================================================================
