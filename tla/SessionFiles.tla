----------------------------- MODULE SessionFiles -----------------------------
(***************************************************************************)
(* The files of the sessions of one save_dir and the process that writes   *)
(* them: header.json (session/repository.rs), events.jsonl                 *)
(* (session/store.rs) and the mirror messages.json (session/logger.rs).    *)
(* None is written atomically: each write truncates the file first, and    *)
(* the process may die within any of them.                                 *)
(*                                                                         *)
(* A message is the number it was given when it was said.  Events that are *)
(* no message go through the same write of the log and are left out.       *)
(***************************************************************************)
EXTENDS Naturals, Sequences, SequencesExt

CONSTANTS
    Sessions,
    None,             \* no session
    MaxMessages       \* bound: messages ever said

ASSUME NoneAssumption == None \notin Sessions
ASSUME MessagesAssumption == MaxMessages \in Nat

VARIABLES
    header,           \* session -> "none", "torn" or "good"
    log,              \* session -> events.jsonl
    mirror,           \* session -> messages.json
    open,             \* the session of the running process
    store,            \* SessionStore.events
    bound,            \* SessionStore.file is set
    system,           \* system_messages
    pending,          \* the writes the current operation has still to make
    said              \* messages said so far

files == <<header, log, mirror>>
memory == <<open, store, bound, system>>
vars == <<files, memory, pending, said>>

(* A file that does not parse keeps the lines before the damage. *)
NoFile == [exists |-> FALSE, torn |-> FALSE, content |-> <<>>]
File(content) == [exists |-> TRUE, torn |-> FALSE, content |-> content]
Damaged(content) == [exists |-> TRUE, torn |-> TRUE, content |-> content]

Forgotten ==
    /\ open' = None /\ store' = <<>> /\ bound' = FALSE
    /\ system' = <<>> /\ pending' = <<>>

Init ==
    /\ header = [s \in Sessions |-> "none"]
    /\ log = [s \in Sessions |-> NoFile]
    /\ mirror = [s \in Sessions |-> NoFile]
    /\ open = None /\ store = <<>> /\ bound = FALSE
    /\ system = <<>> /\ pending = <<>> /\ said = 0

-----------------------------------------------------------------------------
(* Starting a process *)

(* create_session, and with_session_logger on a directory without a log.   *)
Create(s) ==
    /\ open = None /\ header[s] = "none"
    /\ header' = [header EXCEPT ![s] = "good"]
    /\ open' = s /\ bound' = TRUE
    /\ UNCHANGED <<log, mirror, store, system, pending, said>>

CreateDies(s) ==
    /\ open = None /\ header[s] = "none"
    /\ header' = [header EXCEPT ![s] = "torn"]
    /\ UNCHANGED <<log, mirror, memory, pending, said>>

(* find_session and load_session, given a whole id: looking for it reads   *)
(* the header of every session and gives up at the first that is damaged;  *)
(* then the mirror has to parse.                                           *)
Found(s) ==
    /\ header[s] = "good"
    /\ \A r \in Sessions : header[r] # "torn"
    /\ ~mirror[s].torn

(* A bug: the store in memory is bound to the file that did not load. *)
LoadBinds(s) ==
    /\ store' = IF log[s].torn THEN <<>> ELSE log[s].content
    /\ bound' = TRUE
    /\ pending' = <<>>

(* load_from_dir: the log; without one, the mirror, migrated into a log at *)
(* once; without either, a new log.  A log that does not parse leaves the  *)
(* process with the store in memory it was built with.                     *)
Load(s) ==
    IF ~log[s].exists
    THEN /\ store' = mirror[s].content /\ bound' = TRUE
         /\ pending' = IF mirror[s].exists THEN <<"log">> ELSE <<>>
    ELSE /\ store' = IF log[s].torn THEN <<>> ELSE log[s].content
         /\ bound' = ~log[s].torn
         /\ pending' = <<>>

Resume(s) ==
    /\ open = None /\ Found(s)
    /\ open' = s
    /\ Load(s)
    /\ UNCHANGED <<files, system, said>>

-----------------------------------------------------------------------------
(* Operations of the agent loop: what they change in memory, and the       *)
(* writes they make, in the order of the code                              *)

Begin(writes) == open # None /\ pending = <<>> /\ pending' = writes

(* push_message mirrors first, push_tool_result appends first.             *)
Push ==
    /\ said < MaxMessages /\ said' = said + 1
    /\ store' = Append(store, said')
    /\ \E writes \in {<<"mirror", "log">>, <<"log", "mirror">>} : Begin(writes)
    /\ UNCHANGED <<files, open, bound, system>>

PushSystem ==
    /\ said < MaxMessages /\ said' = said + 1
    /\ system' = Append(system, said')
    /\ Begin(<<"mirror">>)
    /\ UNCHANGED <<files, open, store, bound>>

(* A bug: the mirror is saved, the log is not. *)
UndoUnsaved ==
    /\ store # <<>>
    /\ \E n \in 1 .. Len(store) : store' = SubSeq(store, 1, n)
    /\ Begin(<<"save">>)
    /\ UNCHANGED <<files, open, bound, system, said>>

(* undo_last_turn: back to a user message, which stays. *)
Undo ==
    /\ store # <<>>
    /\ \E n \in 1 .. Len(store) : store' = SubSeq(store, 1, n)
    /\ Begin(<<"log", "save">>)
    /\ UNCHANGED <<files, open, bound, system, said>>

(* The end of a turn saves the mirror. *)
SaveMessages ==
    /\ Begin(<<"save">>)
    /\ UNCHANGED <<files, memory, said>>

(* /clear leaves the mirror as it is. *)
Clear ==
    /\ store' = <<>> /\ system' = <<>>
    /\ Begin(<<"log">>)
    /\ UNCHANGED <<files, open, bound, said>>

(* The end of the process between two operations. *)
Exit ==
    /\ open # None /\ pending = <<>>
    /\ Forgotten
    /\ UNCHANGED <<files, said>>

-----------------------------------------------------------------------------
(* Writing *)

Writing(kind) == pending # <<>> /\ Head(pending) = kind /\ pending' = Tail(pending)

(* A bug: the events are added to those in the file. *)
FlushAppends ==
    /\ Writing("log")
    /\ log' = IF bound THEN [log EXCEPT ![open] = File(log[open].content \o store)]
              ELSE log
    /\ UNCHANGED <<header, mirror, memory, said>>

(* flush, without a file: Ok(()). *)
Flush ==
    /\ Writing("log")
    /\ log' = IF bound THEN [log EXCEPT ![open] = File(store)] ELSE log
    /\ UNCHANGED <<header, mirror, memory, said>>

(* append_message reads the mirror and fails, unnoticed, if it is damaged. *)
AppendMirror ==
    /\ Writing("mirror")
    /\ IF mirror[open].torn THEN UNCHANGED mirror
       ELSE mirror' = [mirror EXCEPT ![open] = File(Append(mirror[open].content, said))]
    /\ UNCHANGED <<header, log, memory, said>>

SaveMirror ==
    /\ Writing("save")
    /\ mirror' = [mirror EXCEPT ![open] = File(system \o store)]
    /\ UNCHANGED <<header, log, memory, said>>

(* The process dies before its next write, ...                             *)
Die ==
    /\ pending # <<>>
    /\ Forgotten
    /\ UNCHANGED <<files, said>>

(* ... or within it: the log keeps some of its first lines and perhaps a   *)
(* part of the next one, the mirror is damaged.                            *)
Partial(content) ==
    {File(SubSeq(content, 1, n)) : n \in 0 .. Len(content)} \cup
    {Damaged(SubSeq(content, 1, n)) : n \in 0 .. Len(content) - 1}

DieInFlush ==
    /\ pending # <<>> /\ Head(pending) = "log" /\ bound
    /\ \E left \in Partial(store) : log' = [log EXCEPT ![open] = left]
    /\ Forgotten
    /\ UNCHANGED <<header, mirror, said>>

DieInMirror ==
    /\ pending # <<>> /\ Head(pending) \in {"mirror", "save"}
    /\ mirror' = [mirror EXCEPT ![open] = Damaged(<<>>)]
    /\ Forgotten
    /\ UNCHANGED <<header, log, said>>

Process ==
    \/ \E s \in Sessions : Create(s) \/ CreateDies(s) \/ Resume(s)
    \/ Exit \/ Die \/ DieInFlush \/ DieInMirror
Operation == Push \/ PushSystem \/ Undo \/ SaveMessages \/ Clear
Write == Flush \/ AppendMirror \/ SaveMirror

Next == Process \/ Operation \/ Write
Spec == Init /\ [][Next]_vars
-----------------------------------------------------------------------------
(* Properties *)

Numbers == 1 .. MaxMessages
FileOf == [exists : BOOLEAN, torn : BOOLEAN, content : Seq(Numbers)]

(* The types; and a process runs on a session it could identify. *)
TypeOK ==
    /\ header \in [Sessions -> {"none", "torn", "good"}]
    /\ log \in [Sessions -> FileOf] /\ mirror \in [Sessions -> FileOf]
    /\ open \in Sessions \cup {None}
    /\ store \in Seq(Numbers) /\ system \in Seq(Numbers)
    /\ bound \in BOOLEAN
    /\ pending \in Seq({"log", "mirror", "save"})
    /\ said \in 0 .. MaxMessages
    /\ open = None => pending = <<>> /\ ~bound
    /\ open # None => header[open] = "good"

Increasing(s) == \A i, j \in 1 .. Len(s) : i < j => s[i] < s[j]

(* Between two operations the log on disk is the conversation in memory,   *)
(* whatever was said, undone, cleared, migrated and lost before.           *)
AtRestOnDisk ==
    open # None /\ bound /\ pending = <<>> =>
        log[open] = File(store) \/ (log[open] = NoFile /\ store = <<>>)

(* No log, resumed, cut back or migrated from the mirror, has an event     *)
(* twice or before one that was said earlier.                              *)
NoEventTwice == Increasing(store) /\ \A s \in Sessions : Increasing(log[s].content)

(* with_session_logger goes on without a log that does not load: the file  *)
(* is at least never overwritten, so what is left of it can be repaired.   *)
TornLogsStay == [][\A s \in Sessions : log[s].torn => log'[s] = log[s]]_vars

=============================================================================
