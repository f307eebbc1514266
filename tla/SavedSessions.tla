---------------------------- MODULE SavedSessions ----------------------------
(***************************************************************************)
(* What is kept of sessions: their files, under processes that die while   *)
(* they write them (SessionFiles); the headers and directories that several*)
(* windows share (SessionIndex); and the log of one session, under the     *)
(* turns that write it and the windows that show it (AgentSession).        *)
(* AgentSession has no files: what it calls reopening reads back the log   *)
(* SessionFiles!AtRestOnDisk finds on the disk.  A behaviour follows one   *)
(* of the three.                                                           *)
(***************************************************************************)
EXTENDS SessionFiles, SessionIndex, AgentSession

VARIABLE followed   \* which of the three the behaviour follows
savedVars == <<followed, vars, indexVars, asVars>>

SavedInit ==
    /\ followed \in {"files", "index", "session"}
    /\ Init /\ IndexInit /\ SessionInit
    /\ followed # "session" => asLog = <<>>

OfFiles(step) == followed = "files" /\ step /\ UNCHANGED <<followed, indexVars, asVars>>
OfIndex(step) == followed = "index" /\ step /\ UNCHANGED <<followed, vars, asVars>>
OfSession(step) == followed = "session" /\ step /\ UNCHANGED <<followed, vars, indexVars>>

SavedNext == OfFiles(Next) \/ OfIndex(IndexNext) \/ OfSession(SessionNext)
SavedSpec == SavedInit /\ [][SavedNext]_savedVars
=============================================================================
