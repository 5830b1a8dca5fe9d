---------------------------- MODULE ProjectConfig ----------------------------
(***************************************************************************)
(* The project registry (core/projects.py): binding a channel to a         *)
(* directory, the configuration tables of a project with their version and *)
(* revision log, the copy a worktree project gets, and the snapshot that a *)
(* new session is created from, which is read in several steps.            *)
(* Two families of commands write the tables: by channel (set_project_env, *)
(* set_mcp_server, set_skill_dir, ...) and by project (set_variable, ...). *)
(* One channel; one entry per table.                                       *)
(***************************************************************************)
EXTENDS Integers, Sequences, FiniteSets, FiniteSetsExt

CONSTANTS
  Commands,     \* commands of the channel family that may be under way together
  MaxProjects,  \* bound on projects
  MaxVersions   \* bound on the versions of all projects together

VARIABLES
  project,    \* project id -> its row and its tables
  revisions,  \* project_config_revisions: <<project, version, tables>>
  channel,    \* channel_settings.config_version
  intents,    \* projects that have a worktree intent that is not over
  failed,     \* projects that have an intent that failed before git ran and may be tried again
  revived,    \* history: projects that were gone when such an intent was tried again
  cmd,        \* command -> the project it resolved, or 0
  reader,     \* session_config_snapshot
  snapshot,   \* history: the last snapshot handed out
  log         \* history: <<project, version, tables>> of every version a project had

vars == <<project, revisions, channel, intents, failed, revived, cmd, reader, snapshot, log>>

Listed == <<"env", "mcp", "dir", "agent">>   \* the server of mcp refers to the variable of env
Tables == {Listed[n] : n \in DOMAIN Listed}
Empty == [t \in Tables |-> "absent"]
NoReader == [pc |-> "idle", id |-> 0, ver |-> 0, chan |-> 0, got |-> Empty, n |-> 0]

Ids == DOMAIN project
Active == {i \in Ids : project[i].st = "active"}
\* resolve: the active project of the channel, or 0 for the implicit home.
resolve == IF Active = {} THEN 0 ELSE CHOOSE i \in Active : TRUE

Init ==
  /\ project = <<>> /\ revisions = {} /\ channel = 1 /\ intents = {} /\ failed = {} /\ revived = {}
  /\ cmd = [c \in Commands |-> 0] /\ reader = NoReader /\ snapshot = {} /\ log = {}

Write(i, tables, ver) ==
  /\ Cardinality(log) < MaxVersions
  /\ project' = [project EXCEPT ![i].tables = tables, ![i].ver = ver]
  /\ log' = log \cup {<<i, ver, tables>>}
-----------------------------------------------------------------------------
(***************************************************************************)
(* Bindings                                                                *)
(***************************************************************************)
Fresh == Cardinality(Ids) + 1
New(st, ver, tables) == [st |-> st, ver |-> ver, tables |-> tables]
Retired == [i \in Ids |-> IF i \in Active THEN [project[i] EXCEPT !.st = "retired"] ELSE project[i]]
LastVersion == Max({0} \cup {project[i].ver : i \in Ids})

\* Deviation: a project is bound over worktrees that are being made.
Unbindable_always == TRUE

\* _require_no_active_worktree_intents
Unbindable == Active \cap intents = {}

bind ==
  /\ Fresh <= MaxProjects /\ Unbindable /\ Cardinality(log) < MaxVersions
  /\ project' = [i \in Ids \cup {Fresh} |->
                   IF i = Fresh THEN New("active", LastVersion + 1, Empty) ELSE Retired[i]]
  /\ revisions' = revisions \cup {<<Fresh, LastVersion + 1, Empty>>}
  /\ log' = log \cup {<<Fresh, LastVersion + 1, Empty>>}
  /\ UNCHANGED <<channel, intents, failed, revived, cmd, reader, snapshot>>

unbind ==
  /\ Unbindable /\ Active # {}
  /\ project' = Retired
  /\ UNCHANGED <<revisions, channel, intents, failed, revived, cmd, reader, snapshot, log>>

\* WorktreeManager._reserve_intent under a new name
reserve_intent ==
  \E i \in Ids : /\ project[i].st \in {"active", "worktree"} /\ i \notin intents
                 /\ intents' = intents \cup {i}
                 /\ UNCHANGED <<project, revisions, channel, failed, revived, cmd, reader, snapshot, log>>

\* ... and under the name of an intent that failed: the project is not looked at.
reserve_again ==
  \E i \in failed : /\ failed' = failed \ {i} /\ intents' = intents \cup {i}
                    /\ revived' = IF project[i].st = "retired" THEN revived \cup {i} ELSE revived
                    /\ UNCHANGED <<project, revisions, channel, cmd, reader, snapshot, log>>

\* An intent ends at any time, by a failure that may be tried again or not.
intent_ends ==
  \E i \in intents : /\ intents' = intents \ {i} /\ failed' \in {failed, failed \cup {i}}
                     /\ UNCHANGED <<project, revisions, channel, revived, cmd, reader, snapshot, log>>

\* register_worktree_project: the tables of the parent are copied in one transaction.
register_worktree_project ==
  \E parent \in intents :
    /\ Fresh <= MaxProjects /\ Cardinality(log) < MaxVersions /\ project[parent].st \in {"active", "worktree"}
    /\ project' = [i \in Ids \cup {Fresh} |->
                     IF i = Fresh THEN New("worktree", 1, project[parent].tables) ELSE project[i]]
    /\ revisions' = revisions \cup {<<Fresh, 1, project[parent].tables>>}
    /\ log' = log \cup {<<Fresh, 1, project[parent].tables>>}
    /\ UNCHANGED <<channel, intents, failed, revived, cmd, reader, snapshot>>
-----------------------------------------------------------------------------
(***************************************************************************)
(* Commands                                                                *)
(***************************************************************************)
\* What set, toggle and remove may make of an entry; a toggle and a removal need one.
Changed(entry, toggles) ==
  {"on"} \cup (IF entry = "absent" THEN {} ELSE {"absent"} \cup (IF toggles THEN {"off"} ELSE {}))

\* The channel family reads the project of the channel (_require_explicit_project) ...
channel_command_starts(c) ==
  /\ cmd[c] = 0 /\ resolve # 0
  /\ cmd' = [cmd EXCEPT ![c] = resolve]
  /\ UNCHANGED <<project, revisions, channel, intents, failed, revived, reader, snapshot, log>>

\* _advance_project_config_version
advance(i) == project[i].ver + 1

\* ... and writes to it in a transaction that neither looks at its state nor logs a revision.
ChannelWrite(c, t) ==
  /\ cmd[c] # 0
  /\ \E e \in Changed(project[cmd[c]].tables[t], t # "env") :
       Write(cmd[c], [project[cmd[c]].tables EXCEPT ![t] = e], advance(cmd[c]))
  /\ cmd' = [cmd EXCEPT ![c] = 0]
  /\ UNCHANGED <<revisions, channel, intents, failed, revived, reader, snapshot>>

project_env_command(c) == ChannelWrite(c, "env")
mcp_server_command(c) == ChannelWrite(c, "mcp")
directory_command(c) == ChannelWrite(c, "dir")
custom_agent_command(c) == ChannelWrite(c, "agent")

\* expected_version has moved on, the entry is missing, or the value is refused: nothing is written.
channel_command_fails(c) ==
  /\ cmd[c] # 0 /\ cmd' = [cmd EXCEPT ![c] = 0]
  /\ UNCHANGED <<project, revisions, channel, intents, failed, revived, reader, snapshot, log>>

\* Deviation: the revision is logged before the tables change.
Logged_before(i, tables) == <<i, project[i].ver + 1, project[i].tables>>

Logged(i, tables) == <<i, project[i].ver + 1, tables>>

\* _mutate_config
mutate_config(i, t, e) ==
  LET tables == [project[i].tables EXCEPT ![t] = e]
  IN /\ project[i].st \in {"active", "worktree"}
     /\ Write(i, tables, project[i].ver + 1)
     /\ revisions' = revisions \cup {Logged(i, tables)}
     /\ UNCHANGED <<channel, intents, failed, revived, cmd, reader, snapshot>>

\* A variable stays while a server refers to it.
set_variable(i) == mutate_config(i, "env", "on")
remove_variable(i) ==
  /\ project[i].tables.env # "absent" /\ project[i].tables.mcp = "absent"
  /\ mutate_config(i, "env", "absent")

\* A server needs its variable.
add_mcp_server(i) == project[i].tables.env # "absent" /\ mutate_config(i, "mcp", "on")
change_mcp_server(i) ==
  /\ project[i].tables.mcp # "absent"
  /\ \E e \in {"on", "off", "absent"} : mutate_config(i, "mcp", e)
change_directory(i) == \E e \in Changed(project[i].tables.dir, TRUE) : mutate_config(i, "dir", e)
change_custom_agent(i) == \E e \in Changed(project[i].tables.agent, TRUE) : mutate_config(i, "agent", e)

\* set_layout, set_mention_required (_upsert_channel_setting)
set_channel_setting ==
  /\ channel < 2 /\ channel' = channel + 1
  /\ UNCHANGED <<project, revisions, intents, failed, revived, cmd, reader, snapshot, log>>

\* The timezone belongs to the channel and to its project.
set_channel_timezone ==
  /\ channel < 2 /\ channel' = channel + 1
  /\ IF resolve = 0 THEN UNCHANGED <<project, revisions, log>>
     ELSE /\ Write(resolve, project[resolve].tables, project[resolve].ver + 1)
          /\ revisions' = revisions \cup {<<resolve, project[resolve].ver + 1, project[resolve].tables>>}
  /\ UNCHANGED <<intents, failed, revived, cmd, reader, snapshot>>
-----------------------------------------------------------------------------
(***************************************************************************)
(* session_config_snapshot: the tables are listed one after the other,     *)
(* then the versions are compared                                          *)
(***************************************************************************)
snapshot_starts ==
  /\ reader.pc = "idle" /\ resolve # 0
  /\ reader' = [pc |-> "list", id |-> resolve, ver |-> project[resolve].ver, chan |-> channel,
                got |-> Empty, n |-> 0]
  /\ UNCHANGED <<project, revisions, channel, intents, failed, revived, cmd, snapshot, log>>

\* list_project_env, list_mcp_servers, ...: each resolves the channel again.
snapshot_lists ==
  /\ reader.pc = "list" /\ reader.n < Len(Listed)
  /\ LET t == Listed[reader.n + 1]
     IN reader' = IF resolve = 0 THEN NoReader    \* ProjectBindingError
                  ELSE [reader EXCEPT !.got[t] = project[resolve].tables[t], !.n = @ + 1]
  /\ UNCHANGED <<project, revisions, channel, intents, failed, revived, cmd, snapshot, log>>

\* Deviation: only the project is compared.
Unchanged_project == resolve = reader.id

Unchanged == resolve = reader.id /\ project[reader.id].ver = reader.ver /\ channel = reader.chan

\* An unreferenced variable and a server without its variable are refused as well.
snapshot_ends ==
  /\ reader.pc = "list" /\ reader.n = Len(Listed)
  /\ snapshot' = IF Unchanged /\ ((reader.got.env # "absent") = (reader.got.mcp = "on"))
                  THEN {<<reader.id, reader.ver, reader.got>>} ELSE snapshot
  /\ reader' = NoReader
  /\ UNCHANGED <<project, revisions, channel, intents, failed, revived, cmd, log>>

Next ==
  \/ bind \/ unbind \/ reserve_intent \/ reserve_again \/ intent_ends \/ register_worktree_project
  \/ \E c \in Commands : \/ channel_command_starts(c) \/ channel_command_fails(c)
                       \/ project_env_command(c) \/ mcp_server_command(c)
                       \/ directory_command(c) \/ custom_agent_command(c)
  \/ \E i \in Ids : \/ set_variable(i) \/ remove_variable(i)
                   \/ add_mcp_server(i) \/ change_mcp_server(i)
                   \/ change_directory(i) \/ change_custom_agent(i)
  \/ set_channel_setting \/ set_channel_timezone
  \/ snapshot_starts \/ snapshot_lists \/ snapshot_ends

Spec == Init /\ [][Next]_vars
-----------------------------------------------------------------------------
(***************************************************************************)
(* Properties                                                              *)
(***************************************************************************)
\* A session is created from a configuration its project really had, at the version written down
\* with it, although the tables are read one by one beside commands and bindings.
SnapshotIsReal == snapshot \subseteq log

\* The version identifies the configuration: no two configurations of a project share one, and a
\* logged revision is the configuration of its version (_insert_config_revision never overwrites).
RevisionIsTrue ==
  /\ revisions \subseteq log
  /\ \A e, f \in log : e[1] = f[1] /\ e[2] = f[2] => e = f

\* A worktree that is being made keeps its parent project: neither bind nor unbind retires it.  Only
\* an intent that failed and is tried again after its project went runs under a retired one.
ParentLives == \A i \in intents \ revived : project[i].st # "retired"

\* A worktree that is being made has a project, tried again or not (_reserve_intent does not keep it so).
EveryParentLives == \A i \in intents : project[i].st # "retired"

\* What the tables say of a project's configurations is true, and what a worktree builds on stays.
ConfigIsTrue == SnapshotIsReal /\ RevisionIsTrue /\ ParentLives
=============================================================================
