------------------------------- MODULE Config -------------------------------
(***************************************************************************)
(* The configuration: what a start reads (core/config.rs), what the        *)
(* repository keeps and writes (core/config/repository.rs), and the hosts, *)
(* one per window, that build sessions from it and save the models of the  *)
(* settings panel (the requests of vscode/host.rs that work on it).        *)
(*                                                                         *)
(* A configuration is a set of settings (lists that are merged, flags that *)
(* one layer can only switch on), the definitions of models by name, and   *)
(* whether models have a file of their own.  A file is written by fs::write*)
(* in two steps, the truncation and the content.                           *)
(***************************************************************************)
EXTENDS Naturals, Sequences, SequencesExt, FiniteSets

CONSTANTS
    Hosts,          \* windows with a host process each
    ModelNames,
    Definitions,    \* what the models are defined as
    NoModel,        \* no definition, no model
    Settings,       \* everything else a file may set
    Bypass,         \* bypass_tool_permissions, a setting the environment overrides
    UserFiles,      \* the contents config.toml and the models file may have to begin with
    Projects,       \* the contents of the project's config.toml
    DefaultModels,  \* the models of with_defaults
    MaxRequests     \* bound: requests of the webviews

NoModels == [m \in ModelNames |-> NoModel]
Models == [ModelNames -> Definitions \cup {NoModel}]
Configuration == [settings : SUBSET Settings, models : Models, split : BOOLEAN]
ConfigFile == [kind : {"absent", "broken", "file"}, content : Configuration]

ASSUME ConfigAssumption ==
    /\ Bypass \in Settings /\ NoModel \notin ModelNames \cup Definitions
    /\ UserFiles \subseteq ConfigFile \X ConfigFile /\ Projects \subseteq ConfigFile
    /\ DefaultModels \in Models
    /\ MaxRequests \in Nat

VARIABLES
    cfgUser,        \* config.toml of the user: kind "absent", "broken" or "file"
    cfgModels,      \* the models file beside it
    cfgProject,     \* config.toml of the project
    cfgEnv,         \* VIBE_BYPASS_TOOL_PERMISSIONS: "unset", "true", "false"
    cfgHosts,       \* the host processes
    cfgRequests     \* how many requests there were

cfgVars == <<cfgUser, cfgModels, cfgProject, cfgEnv, cfgHosts, cfgRequests>>

Default == [settings |-> {}, models |-> NoModels, split |-> FALSE]
WithDefaults == [Default EXCEPT !.models = DefaultModels]
File(content) == [kind |-> "file", content |-> content]
Absent == [kind |-> "absent", content |-> Default]
Broken == [kind |-> "broken", content |-> Default]

\* loaded: a repository was built; todo: the files a save has not written yet, the first
\* of them truncated if open.  The rest is history: saved: the last save is complete;
\* before: the models a start would have found when it began; alone: nobody else has
\* written since; chosen: the user has chosen a model there is.
NoHost == [up |-> FALSE, loaded |-> FALSE, mem |-> Default, shown |-> NoModels,
           initialized |-> FALSE, pending |-> NoModel, answer |-> "none",
           todo |-> <<>>, open |-> FALSE,
           saved |-> FALSE, before |-> NoModels, alone |-> FALSE, chosen |-> FALSE]

ConfigInit ==
    /\ \E files \in UserFiles : cfgUser = files[1] /\ cfgModels = files[2]
    /\ cfgProject \in Projects
    /\ cfgEnv \in {"unset", "true", "false"}
    /\ cfgHosts = [h \in Hosts |-> NoHost] /\ cfgRequests = 0

(***************************************************************************)
(* What a start reads.                                                     *)
(***************************************************************************)
\* merge_vec_by_key: a definition of the later layer replaces one of the same name.
Overridden(base, models) == [m \in ModelNames |-> IF models[m] = NoModel THEN base[m] ELSE models[m]]

Merged(base, config) ==
    [settings |-> base.settings \cup config.settings,
     models |-> Overridden(base.models, config.models),
     split |-> base.split \/ config.split]

WithEnv(config) ==
    [config EXCEPT !.settings =
        CASE cfgEnv = "true" -> @ \cup {Bypass} [] cfgEnv = "false" -> @ \ {Bypass} [] OTHER -> @]

\* A models file that is named has to be there.
UserLoads == cfgUser.kind # "broken" /\ (cfgUser.content.split => cfgModels.kind = "file")

UserConfig ==
    [cfgUser.content EXCEPT !.models =
        IF cfgUser.content.split THEN Overridden(@, cfgModels.content.models) ELSE @]

\* load_resolved; the hosts take the defaults when one of the files does not load.
Loads == UserLoads /\ cfgProject.kind # "broken"
LoadResolved ==
    IF Loads
    THEN WithEnv(Merged(UserConfig, cfgProject.content))
    ELSE WithDefaults

(***************************************************************************)
(* The requests of a host.  It handles them one after the other.           *)
(***************************************************************************)
Takes(h) ==
    /\ cfgHosts[h].up /\ cfgHosts[h].todo = <<>>
    /\ cfgRequests < MaxRequests /\ cfgRequests' = cfgRequests + 1
Becomes(h, host) == cfgHosts' = [cfgHosts EXCEPT ![h] = host]
Reply(h, text) == Becomes(h, [cfgHosts[h] EXCEPT !.answer = text])
OnDisk == <<cfgUser, cfgModels, cfgProject, cfgEnv>>

Start(h) ==
    /\ ~cfgHosts[h].up
    /\ Becomes(h, [NoHost EXCEPT !.up = TRUE, !.chosen = cfgHosts[h].chosen])
    /\ UNCHANGED <<OnDisk, cfgRequests>>

\* The process ends, between any two steps of it.
Exit(h) ==
    /\ cfgHosts[h].up
    /\ Becomes(h, [NoHost EXCEPT !.chosen = cfgHosts[h].chosen])
    /\ UNCHANGED <<OnDisk, cfgRequests>>

\* session/create and workspace/openSession: build_session has a new repository before it
\* looks for the model of the session.
Create(h) ==
    LET config == LoadResolved
        host == [cfgHosts[h] EXCEPT !.loaded = TRUE, !.mem = config, !.saved = FALSE]
    IN  /\ Takes(h)
        /\ Becomes(h, IF host.pending = NoModel THEN [host EXCEPT !.answer = "no model selected"]
                      ELSE IF config.models[host.pending] = NoModel
                      THEN [host EXCEPT !.answer = "unknown model"]
                      ELSE [host EXCEPT !.answer = "done", !.initialized = TRUE, !.shown = config.models])
        /\ UNCHANGED OnDisk

\* session/reconfigure.
Reconfigure(h, m) ==
    LET host == [cfgHosts[h] EXCEPT !.chosen = @ \/ LoadResolved.models[m] # NoModel]
    IN  /\ Takes(h)
        /\ Becomes(h, IF ~host.initialized THEN [host EXCEPT !.answer = "not initialized"]
                      ELSE IF host.mem.models[m] = NoModel THEN [host EXCEPT !.answer = "unknown model"]
                      ELSE [host EXCEPT !.answer = "done", !.pending = m, !.shown = host.mem.models])
        /\ UNCHANGED OnDisk

\* config/models: emit_config panics without a repository, and the process is over.
ConfigModels(h) ==
    LET host == cfgHosts[h] IN
    /\ Takes(h)
    /\ Becomes(h, IF host.loaded THEN [host EXCEPT !.answer = "done", !.shown = host.mem.models]
                  ELSE [NoHost EXCEPT !.chosen = host.chosen])
    /\ UNCHANGED OnDisk

\* config/update: the panel sends the list it was shown with its edits; set_models has
\* changed the repository before anything is written.
SaveOrderReversed(split) == IF split THEN <<"config", "models">> ELSE <<"config">> \* a mutant
SaveOrder(split) == IF split THEN <<"models", "config">> ELSE <<"config">>

ConfigUpdate(h, m, definition) ==
    LET host == cfgHosts[h] IN
    /\ Takes(h)
    /\ IF ~host.loaded THEN Reply(h, "no config loaded")
       ELSE Becomes(h, [host EXCEPT !.mem.models = [host.shown EXCEPT ![m] = definition],
                                    !.todo = SaveOrder(host.mem.split), !.saved = FALSE,
                                    !.before = IF Loads THEN LoadResolved.models ELSE NoModels, !.alone = TRUE])
    /\ UNCHANGED OnDisk

(***************************************************************************)
(* save_split: the models file first, then the configuration without them. *)
(***************************************************************************)
\* Every write is one that the others did not do.
Wrote(h, host) ==
    cfgHosts' = [g \in Hosts |-> IF g = h THEN host ELSE [cfgHosts[g] EXCEPT !.alone = FALSE]]

Put(file, content) ==
    IF file = "models" THEN cfgModels' = content /\ UNCHANGED cfgUser
    ELSE cfgUser' = content /\ UNCHANGED cfgModels

\* A mutant: the models never go to the configuration.
ContentWithoutModels(file, config) ==
    IF file = "models" THEN [Default EXCEPT !.models = config.models]
    ELSE [config EXCEPT !.models = NoModels]

Content(file, config) ==
    IF file = "models" THEN [Default EXCEPT !.models = config.models]
    ELSE IF config.split THEN [config EXCEPT !.models = NoModels]
    ELSE config

OpenFile(h) ==
    LET host == cfgHosts[h] IN
    /\ host.todo # <<>> /\ ~host.open
    /\ Put(Head(host.todo), File(Default))
    /\ Wrote(h, [host EXCEPT !.open = TRUE])
    /\ UNCHANGED <<cfgProject, cfgEnv, cfgRequests>>

\* The last file is written: the change is broadcast and the panel gets the new list.
FillFile(h) ==
    LET host == cfgHosts[h]
        left == Tail(host.todo)
    IN  /\ host.open
        /\ Put(Head(host.todo), File(Content(Head(host.todo), host.mem)))
        /\ Wrote(h, IF left # <<>> THEN [host EXCEPT !.todo = left, !.open = FALSE]
                    ELSE [host EXCEPT !.todo = left, !.open = FALSE, !.saved = TRUE,
                                      !.answer = "done", !.shown = host.mem.models])
        /\ UNCHANGED <<cfgProject, cfgEnv, cfgRequests>>

\* A write fails, maybe after a part of the content: the rest of the save is left out, and
\* the repository has the new list although no file has it.
WriteFails(h) ==
    LET host == cfgHosts[h] IN
    /\ host.todo # <<>>
    /\ IF host.open THEN Put(Head(host.todo), Broken) \/ UNCHANGED <<cfgUser, cfgModels>>
       ELSE UNCHANGED <<cfgUser, cfgModels>>
    /\ Wrote(h, [host EXCEPT !.todo = <<>>, !.open = FALSE, !.answer = "failed to save models"])
    /\ UNCHANGED <<cfgProject, cfgEnv, cfgRequests>>

ConfigNext ==
    \E h \in Hosts :
        \/ Start(h) \/ Exit(h) \/ Create(h) \/ ConfigModels(h)
        \/ OpenFile(h) \/ FillFile(h) \/ WriteFails(h)
        \/ \E m \in ModelNames :
               \/ Reconfigure(h, m)
               \/ \E definition \in Definitions \cup {NoModel} : ConfigUpdate(h, m, definition)

ConfigSpec == ConfigInit /\ [][ConfigNext]_cfgVars

-----------------------------------------------------------------------------
ConfigTypeOK ==
    /\ {cfgUser, cfgModels, cfgProject} \subseteq ConfigFile
    /\ \A h \in Hosts :
        /\ cfgHosts[h].mem \in Configuration
        /\ cfgHosts[h].shown \in Models
        /\ cfgHosts[h].todo \in {<<>>, <<"config">>, <<"models", "config">>}
        /\ cfgHosts[h].open => cfgHosts[h].todo # <<>>

\* What a save has written is what the next start reads, under the same project and
\* environment and with one file or two: no setting and no model is lost, none comes back.
SavedIsLoaded ==
    \A h \in Hosts : LET host == cfgHosts[h] IN
        host.saved /\ host.alone /\ cfgProject.kind # "broken" =>
            LoadResolved = WithEnv(Merged(host.mem, cfgProject.content))

\* A process that dies between the two files of a save takes no model away that was there
\* before and is in the new list too.
KeptModelsLoad ==
    \A h \in Hosts : LET host == cfgHosts[h] IN
        host.todo # <<>> /\ ~host.open /\ host.alone =>
            \A m \in ModelNames :
                host.before[m] \in {host.mem.models[m]} \ {NoModel} => LoadResolved.models[m] = host.before[m]

\* "No model selected for this session. Choose a model from the selector before sending.":
\* the answer to a user who has chosen no model there is.
ChosenModelOpens ==
    \A h \in Hosts : cfgHosts[h].answer = "no model selected" => ~cfgHosts[h].chosen
=============================================================================
