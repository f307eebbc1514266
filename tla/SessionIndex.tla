---------------------------- MODULE SessionIndex ----------------------------
(***************************************************************************)
(* The headers of the sessions of one save_dir (session/repository.rs),    *)
(* and the processes that share it: the window each user looks at          *)
(* (vscode/host.rs), or a terminal (cli/entrypoint.rs).  Every one lists,  *)
(* creates, opens, titles, renames and deletes sessions, its own and those *)
(* of the others, without a lock.  A header is written by truncating the   *)
(* file and writing it, and a directory is removed file by file.           *)
(***************************************************************************)
EXTENDS Naturals, FiniteSets

CONSTANTS
    Windows,        \* processes
    MaxIndexed,     \* bound: sessions ever created
    LongTitles      \* the titles that make a header longer than the others do

Titles == {"untitled", "prompted", "renamed"}
ASSUME IndexAssumption == MaxIndexed \in Nat /\ LongTitles \subseteq Titles

VARIABLES
    ixHeader,       \* session -> header.json: its title, "torn", or "bare": the directory
                    \* has none; "none": no directory
    ixLogs,         \* sessions whose directory has other files
    ixRuns,         \* window -> the session it runs on
    ixShown,        \* window -> the sessions it lists
    ixDoing,        \* window -> the operation it is in
    ixGone,         \* history: sessions whose directory was removed
    ixMarred        \* history: sessions whose header two wrote at once, or one who died
indexVars == <<ixHeader, ixLogs, ixRuns, ixShown, ixDoing, ixGone, ixMarred>>

Indexed == 1 .. MaxIndexed
NoSession == 0
Idle == [at |-> "idle", of |-> NoSession, title |-> "untitled"]

IndexInit ==
    /\ ixHeader = [s \in Indexed |-> "none"] /\ ixLogs = {}
    /\ ixRuns = [w \in Windows |-> NoSession]
    /\ ixShown = [w \in Windows |-> {}]
    /\ ixDoing = [w \in Windows |-> Idle]
    /\ ixGone = {} /\ ixMarred = {}

IsAt(w, at) == ixDoing[w].at = at
Does(w, at, s, title) == ixDoing' = [ixDoing EXCEPT ![w] = [at |-> at, of |-> s, title |-> title]]
Reads(s) == ixHeader[s] \in Titles
Exists(s) == ixHeader[s] # "none"

\* list gives up at the first header that does not parse, and its callers show nothing; a
\* directory without a header is passed over.
Listed ==
    IF \E s \in Indexed : ixHeader[s] = "torn" THEN {} ELSE {s \in Indexed : Reads(s)}

\* Every request of a window ends with emit_workspace_state.
Ends(w) ==
    /\ ixDoing' = [ixDoing EXCEPT ![w] = Idle]
    /\ ixShown' = [ixShown EXCEPT ![w] = Listed']

\* session/list, and the requests that change no session.
ShowList(w) ==
    /\ IsAt(w, "idle")
    /\ UNCHANGED <<ixHeader, ixLogs, ixRuns, ixGone, ixMarred>>
    /\ Ends(w)

\* A new session is loaded next.
Goes(w) ==
    IF ixDoing[w].title = "untitled"
    THEN Does(w, "load", ixDoing[w].of, "untitled") /\ UNCHANGED ixShown
    ELSE Ends(w)

-----------------------------------------------------------------------------
(* create_session, session/new: a directory of its own, then its header.   *)
(* It is made without a cwd, so the list for a cwd, which session/create   *)
(* asks for the latest session to resume, is empty: it always creates.     *)
CreateSession(w) ==
    /\ IsAt(w, "idle")
    /\ \E s \in Indexed :
        /\ ~Exists(s) /\ s \notin ixGone /\ \A r \in Indexed : r < s => Exists(r) \/ r \in ixGone
        /\ ixHeader' = [ixHeader EXCEPT ![s] = "bare"]
        /\ Does(w, "open", s, "untitled")
    /\ UNCHANGED <<ixLogs, ixRuns, ixShown, ixGone, ixMarred>>

\* load_session, given a whole id, finds it by reading all headers up to the first that is
\* damaged; if it fails, the window goes on without a session, and nothing is saved.
OpenListed(w) ==
    /\ IsAt(w, "idle")
    /\ UNCHANGED <<ixHeader, ixLogs, ixGone, ixMarred>>
    /\ \E s \in ixShown[w] :
        \/ /\ Reads(s) /\ Does(w, "load", s, "untitled")
           /\ UNCHANGED <<ixRuns, ixShown>>
        \/ /\ ~Reads(s) \/ \E r \in Indexed : ixHeader[r] = "torn"
           /\ ixRuns' = [ixRuns EXCEPT ![w] = NoSession]
           /\ Ends(w)

\* with_session_logger, after the backend and the tools: load_from_dir makes the directory
\* if there is none, and so brings back one that was deleted meanwhile.
LoadStore(w) ==
    /\ IsAt(w, "load")
    /\ LET s == ixDoing[w].of IN
        /\ ixRuns' = [ixRuns EXCEPT ![w] = s]
        /\ ixHeader' = IF Exists(s) THEN ixHeader ELSE [ixHeader EXCEPT ![s] = "bare"]
        /\ ixGone' = ixGone \ {s}
    /\ UNCHANGED <<ixLogs, ixMarred>>
    /\ Ends(w)

\* The first prompt gives the session its title: get_header, and, if that has no title,
\* update_meta.
SeedTitle(w) ==
    /\ IsAt(w, "idle") /\ ixRuns[w] # NoSession
    /\ IF ixHeader[ixRuns[w]] = "untitled" THEN Does(w, "read", ixRuns[w], "prompted")
       ELSE UNCHANGED ixDoing
    /\ UNCHANGED <<ixHeader, ixLogs, ixRuns, ixShown, ixGone, ixMarred>>

Rename(w) ==
    /\ IsAt(w, "idle")
    /\ \E s \in ixShown[w] : Does(w, "read", s, "renamed")
    /\ UNCHANGED <<ixHeader, ixLogs, ixRuns, ixShown, ixGone, ixMarred>>

-----------------------------------------------------------------------------
(* update_meta: the header is read, changed and written.                   *)

\* A header that is not there or does not parse, or a blank title: the error is logged, and
\* nothing is set.
ReadHeader(w) ==
    /\ IsAt(w, "read")
    /\ UNCHANGED <<ixHeader, ixLogs, ixRuns, ixGone, ixMarred>>
    /\ \/ /\ Reads(ixDoing[w].of)
          /\ Does(w, "open", ixDoing[w].of, ixDoing[w].title) /\ UNCHANGED ixShown
       \/ Ends(w)

Writers(s) == {w \in Windows : IsAt(w, "write") /\ ixDoing[w].of = s}

\* A bug: write_header creates the directory of the header, not only the parent.
OpenHeaderAnywhere(w) ==
    /\ IsAt(w, "open")
    /\ LET s == ixDoing[w].of IN
        /\ ixHeader' = [ixHeader EXCEPT ![s] = "torn"]
        /\ ixMarred' = IF Writers(s) = {} THEN ixMarred ELSE ixMarred \cup {s}
        /\ Does(w, "write", s, ixDoing[w].title)
    /\ UNCHANGED <<ixLogs, ixRuns, ixShown, ixGone>>

\* A bug: the title is checked once the file is open.
OpenHeaderChecksLate(w) ==
    /\ IsAt(w, "open")
    /\ ixHeader' = [ixHeader EXCEPT ![ixDoing[w].of] = "torn"]
    /\ UNCHANGED <<ixLogs, ixRuns, ixGone, ixMarred>>
    /\ \/ Does(w, "write", ixDoing[w].of, ixDoing[w].title) /\ UNCHANGED ixShown
       \/ Ends(w)

\* write_header: the file is created or cut to nothing, if the directory is still there, ...
OpenHeader(w) ==
    /\ IsAt(w, "open")
    /\ LET s == ixDoing[w].of IN
        IF Exists(s)
        THEN /\ ixHeader' = [ixHeader EXCEPT ![s] = "torn"]
             /\ ixMarred' = IF Writers(s) = {} THEN ixMarred ELSE ixMarred \cup {s}
             /\ Does(w, "write", s, ixDoing[w].title) /\ UNCHANGED ixShown
        ELSE UNCHANGED <<ixHeader, ixMarred>> /\ Ends(w)
    /\ UNCHANGED <<ixLogs, ixRuns, ixGone>>

\* What is left of a header another process has written meanwhile: its end, if it was longer.
Over(old, new) == IF old \in LongTitles /\ new \notin LongTitles THEN "torn" ELSE new

\* ... then written, from its start.
WriteHeader(w) ==
    /\ IsAt(w, "write")
    /\ LET s == ixDoing[w].of IN
        ixHeader' = [ixHeader EXCEPT ![s] = Over(@, ixDoing[w].title)]
    /\ UNCHANGED <<ixLogs, ixRuns, ixGone, ixMarred>>
    /\ Goes(w)

\* The file that is written was removed meanwhile.
WriteNowhere(w) ==
    /\ IsAt(w, "unlinked")
    /\ UNCHANGED <<ixHeader, ixLogs, ixRuns, ixGone, ixMarred>>
    /\ Goes(w)

-----------------------------------------------------------------------------
(* session/delete: the files go first, those being written too, then the   *)
(* directory, unless somebody has put another file there; the error is     *)
(* logged.  The session may be running, here or in another window.         *)
DeleteFiles(w) ==
    /\ IsAt(w, "idle")
    /\ \E s \in ixShown[w] :
        /\ Exists(s)
        /\ ixHeader' = [ixHeader EXCEPT ![s] = "bare"]
        /\ ixLogs' = ixLogs \ {s}
        /\ ixDoing' = [v \in Windows |->
            IF v = w THEN [at |-> "rmdir", of |-> s, title |-> "untitled"]
            ELSE IF v \in Writers(s) THEN [ixDoing[v] EXCEPT !.at = "unlinked"]
            ELSE ixDoing[v]]
    /\ UNCHANGED <<ixRuns, ixShown, ixGone, ixMarred>>

RemoveDirectory(w) ==
    /\ IsAt(w, "rmdir")
    /\ LET s == ixDoing[w].of IN
        IF ixHeader[s] = "bare" /\ s \notin ixLogs
        THEN ixHeader' = [ixHeader EXCEPT ![s] = "none"] /\ ixGone' = ixGone \cup {s}
        ELSE UNCHANGED <<ixHeader, ixGone>>
    /\ Ends(w)
    /\ UNCHANGED <<ixLogs, ixRuns, ixMarred>>

\* The log and the mirror of the session a window runs on; without the directory the write
\* fails, unnoticed.
WriteLog(w) ==
    /\ IsAt(w, "idle") /\ ixRuns[w] # NoSession /\ Exists(ixRuns[w])
    /\ ixLogs' = ixLogs \cup {ixRuns[w]}
    /\ UNCHANGED <<ixHeader, ixRuns, ixShown, ixDoing, ixGone, ixMarred>>

\* A process ends, perhaps within an operation, and another one starts.
Restart(w) ==
    /\ ixRuns[w] # NoSession \/ ~IsAt(w, "idle")
    /\ ixRuns' = [ixRuns EXCEPT ![w] = NoSession]
    /\ ixMarred' = IF IsAt(w, "write") THEN ixMarred \cup {ixDoing[w].of} ELSE ixMarred
    /\ UNCHANGED <<ixHeader, ixLogs, ixGone>>
    /\ Ends(w)

IndexNext ==
    \E w \in Windows :
        \/ ShowList(w) \/ CreateSession(w) \/ OpenListed(w) \/ LoadStore(w)
        \/ SeedTitle(w) \/ Rename(w) \/ ReadHeader(w) \/ OpenHeader(w) \/ WriteHeader(w) \/ WriteNowhere(w)
        \/ DeleteFiles(w) \/ RemoveDirectory(w) \/ WriteLog(w) \/ Restart(w)

IndexSpec == IndexInit /\ [][IndexNext]_indexVars
-----------------------------------------------------------------------------
(* Properties *)

Operations ==
    [at : {"idle", "load", "read", "open", "write", "unlinked", "rmdir"},
     of : Indexed \cup {NoSession}, title : Titles]

\* The types; an operation is on a session.
IndexTypeOK ==
    /\ ixHeader \in [Indexed -> Titles \cup {"torn", "bare", "none"}]
    /\ ixLogs \subseteq Indexed /\ ixGone \subseteq Indexed /\ ixMarred \subseteq Indexed
    /\ ixRuns \in [Windows -> Indexed \cup {NoSession}]
    /\ ixShown \in [Windows -> SUBSET Indexed]
    /\ ixDoing \in [Windows -> Operations]
    /\ \A w \in Windows : ~IsAt(w, "idle") => ixDoing[w].of \in Indexed

\* A damaged header keeps every window from listing and resuming any session.  It is one
\* that is being written, or that a process died writing, or that two wrote at once:
\* however readers, writers and removers cross, no other is left behind.
DamageIsPassing ==
    \A s \in Indexed : ixHeader[s] = "torn" => Writers(s) # {} \/ s \in ixMarred

\* A session that was deleted does not come back, neither its header nor its log, though
\* other windows run on it, rename it, or were about to write it.  Only a window that was
\* already opening it makes its directory again.
DeletedStayGone == \A s \in ixGone : ~Exists(s) /\ s \notin ixLogs

=============================================================================
