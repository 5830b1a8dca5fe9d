--------------------------- MODULE SessionProofs ----------------------------
(***************************************************************************)
(* Proofs about ProjectConfig, RuntimeSchedules and SessionLifecycle.  The *)
(* version of a project grows with every change of its tables and a        *)
(* retired project is never active again, so a reader that finds project   *)
(* and version as they were has read, table by table, one configuration.   *)
(* The registry of runtime schedules is true because every difference      *)
(* between it and the runtime is an event under way, or a loss that the    *)
(* snapshot of the next attach finds.  A session is made once because its  *)
(* creation says so in the intent before it asks, and one that is deleted  *)
(* stays deleted because nobody attaches a row that is not active or       *)
(* closed.                                                                 *)
(***************************************************************************)
EXTENDS ProjectConfig, RuntimeSchedules, SessionLifecycle, TLAPS, WellFoundedInduction, FiniteSetTheorems

Entries == {"absent", "on", "off"}
Configs == [Tables -> Entries]
Projects == [st : {"active", "worktree", "retired"}, ver : Nat, tables : Configs]
Readers == [pc : {"idle", "list"}, id : Nat, ver : Nat, chan : Nat, got : Configs, n : 0..4]

\* Projects are numbered without gaps, and their versions have a bound.
Numbered == \E n \in Nat : Ids = 1..n
Bounded == \E n \in Nat : \A i \in Ids : project[i].ver <= n

TypeInv ==
  /\ project \in [Ids -> Projects] /\ Numbered /\ Bounded
  /\ channel \in Nat /\ intents \subseteq Ids /\ failed \subseteq Ids
  /\ cmd \in [Commands -> Ids \cup {0}]
  /\ reader \in Readers /\ (reader.pc = "list" => reader.id \in Ids)
  /\ log \subseteq Ids \X Nat \X Configs

\* The channel has one project.
ActiveInv == \A i, j \in Active : i = j

\* A project is in the log as it is, and the log knows no later version of it.
LogInv ==
  /\ \A i \in Ids : <<i, project[i].ver, project[i].tables>> \in log
  /\ \A e \in log : e[2] <= project[e[1]].ver

\* The configuration is of its project and of its version.
Same(i, ver) == project[i].st = "active" /\ project[i].ver = ver

\* What was read so far is what the tables say, if nothing has moved since.
ReaderInv ==
  reader.pc = "list" =>
    /\ reader.ver <= project[reader.id].ver
    /\ Same(reader.id, reader.ver) =>
         \A k \in 1..reader.n : reader.got[Listed[k]] = project[reader.id].tables[Listed[k]]

IInv == TypeInv /\ ActiveInv /\ LogInv /\ ReaderInv /\ ConfigIsTrue
-----------------------------------------------------------------------------
(* The four tables in the order in which session_config_snapshot lists them. *)
LEMMA FourTables ==
  /\ Len(Listed) = 4
  /\ Listed[1] = "env" /\ Listed[2] = "mcp" /\ Listed[3] = "dir" /\ Listed[4] = "agent"
  /\ Tables = {"env", "mcp", "dir", "agent"}
  /\ \A t \in Tables : \E k \in 1..4 : t = Listed[k]
  /\ \A k \in 1..4 : Listed[k] \in Tables
<1>1. Len(Listed) = 4 /\ DOMAIN Listed = 1..4
  BY DEF Listed
<1>2. Listed[1] = "env" /\ Listed[2] = "mcp" /\ Listed[3] = "dir" /\ Listed[4] = "agent"
  BY DEF Listed
<1>3. \A k \in 1..4 : k = 1 \/ k = 2 \/ k = 3 \/ k = 4
  OBVIOUS
<1>4. Tables = {Listed[n] : n \in 1..4}
  BY <1>1 DEF Tables
<1>5. Tables = {"env", "mcp", "dir", "agent"}
  BY <1>2, <1>3, <1>4
<1> QED
  BY <1>1, <1>2, <1>4, <1>5

(* A set of numbers that has a bound has a largest member. *)
LEMMA LargestMember ==
  ASSUME NEW S \in SUBSET Nat, S # {}, NEW n \in Nat, \A x \in S : x <= n
  PROVE  Max(S) \in S /\ \A x \in S : x <= Max(S)
<1> DEFINE T == {n - x : x \in S}
           R == OpToRel(<, Nat)
<1>1. T \subseteq Nat /\ T # {}
  OBVIOUS
<1>2. IsWellFoundedOn(R, Nat)
  BY NatLessThanWellFounded
<1>3. \A a, c \in Nat : a < c => <<a, c>> \in R
  BY DEF OpToRel
<1> HIDE DEF R
<1>4. PICK d \in T : \A e \in T : ~ (<<e, d>> \in R)
  <2> HIDE DEF T
  <2> QED
    BY <1>1, <1>2, WFMin
<1>5. PICK x \in S : d = n - x
  OBVIOUS
<1>6. ASSUME NEW y \in S PROVE y <= x
  <2>1. n - y \in T /\ n - y \in Nat /\ d \in Nat /\ x \in Nat /\ y \in Nat
    OBVIOUS
  <2>2. ~ (n - y < d)
    BY <1>3, <1>4, <2>1
  <2> QED
    BY <1>5, <2>1, <2>2
<1>7. \E m \in S : \A y \in S : m >= y
  BY <1>6
<1> QED
  BY <1>7 DEF Max

(* A new project gets the next number, which nothing refers to. *)
LEMMA FreshIsNew ==
  ASSUME Numbered
  PROVE  Fresh \in Nat /\ Fresh # 0 /\ Fresh \notin Ids /\ \E n \in Nat : Ids \cup {Fresh} = 1..n
<1>1. PICK n \in Nat : Ids = 1..n
  BY DEF Numbered
<1>2. Cardinality(1..n) = n
  BY FS_Interval
<1>3. Fresh = n + 1
  BY <1>1, <1>2 DEF Fresh
<1>4. (1..n) \cup {n + 1} = 1..(n + 1)
  OBVIOUS
<1> QED
  BY <1>1, <1>3, <1>4

(* Versions are numbers, so that the next project gets one that is larger than all. *)
LEMMA LastVersionIsNumber ==
  ASSUME project \in [Ids -> Projects], Bounded
  PROVE  LastVersion \in Nat
<1> DEFINE S == {0} \cup {project[i].ver : i \in Ids}
<1>1. \A i \in Ids : project[i].ver \in Nat
  BY DEF Projects
<1>2. PICK n \in Nat : \A i \in Ids : project[i].ver <= n
  BY DEF Bounded
<1>3. S \in SUBSET Nat /\ S # {} /\ \A x \in S : x <= n
  BY <1>1, <1>2
<1> HIDE DEF S
<1>4. Max(S) \in S
  BY <1>3, LargestMember
<1> QED
  BY <1>3, <1>4 DEF LastVersion, S

(* The channel's project is its active one. *)
LEMMA ResolveIsActive ==
  ASSUME TypeInv, ActiveInv
  PROVE  /\ resolve # 0 => resolve \in Active /\ resolve \in Ids
         /\ \A i \in Active : resolve = i
<1>1. 0 \notin Ids
  BY DEF TypeInv, Numbered
<1>2. Active # {} => resolve \in Active
  BY DEF resolve
<1> QED
  BY <1>1, <1>2 DEF resolve, Active, ActiveInv
-----------------------------------------------------------------------------
(* A change of the tables (Write with the next version), logged as a revision or not. *)
LEMMA WriteKeeps ==
  ASSUME IInv, NEW i \in Ids, NEW T \in Configs, Write(i, T, project[i].ver + 1),
         revisions' \subseteq revisions \cup {<<i, project[i].ver + 1, T>>},
         channel' \in Nat, cmd' \in [Commands -> Ids \cup {0}], UNCHANGED <<intents, failed, revived, reader, snapshot>>
  PROVE  IInv'
<1> DEFINE v == project[i].ver + 1
           p == [project[i] EXCEPT !.tables = T, !.ver = v]
<1>0. project \in [Ids -> Projects]
  BY DEF IInv, TypeInv
<1>1. project[i].ver \in Nat /\ v \in Nat
  BY <1>0 DEF Projects
<1>2. project' = [project EXCEPT ![i] = p] /\ log' = log \cup {<<i, v, T>>}
  BY DEF Write
<1>3. p \in Projects /\ p.st = project[i].st /\ p.ver = v /\ p.tables = T
  BY <1>0, <1>1 DEF Projects
<1> HIDE DEF p
<1>4. Ids' = Ids /\ project' \in [Ids -> Projects] /\ project'[i] = p /\ \A j \in Ids : j # i => project'[j] = project[j]
  BY <1>0, <1>2, <1>3 DEF Ids
<1>5. \A j \in Ids : project[j].ver \in Nat /\ project'[j].st = project[j].st
  BY <1>0, <1>3, <1>4 DEF Projects
<1>6. Active' = Active
  BY <1>4, <1>5 DEF Active
<1>7. TypeInv'
  <2>1. Bounded'
    <3>1. PICK n \in Nat : \A j \in Ids : project[j].ver <= n
      BY DEF IInv, TypeInv, Bounded
    <3>2. \A j \in Ids : project'[j].ver <= n + 1
      BY <1>1, <1>3, <1>4, <1>5, <3>1
    <3> QED
      BY <1>4, <3>2 DEF Bounded
  <2>2. Numbered'
    BY <1>4 DEF IInv, TypeInv, Numbered
  <2>3. log' \subseteq Ids \X Nat \X Configs
    BY <1>1, <1>2 DEF IInv, TypeInv
  <2> QED
    BY <1>4, <2>1, <2>2, <2>3 DEF IInv, TypeInv
<1>8. ActiveInv'
  BY <1>6 DEF IInv, ActiveInv
<1>9. \A e \in log : e[1] \in Ids /\ e[2] \in Nat /\ e[2] <= project[e[1]].ver
  BY DEF IInv, TypeInv, LogInv
<1>10. LogInv'
  <2>1. \A j \in Ids : <<j, project'[j].ver, project'[j].tables>> \in log'
    BY <1>2, <1>3, <1>4 DEF IInv, LogInv
  <2>2. \A e \in log' : e[2] <= project'[e[1]].ver
    BY <1>1, <1>2, <1>3, <1>4, <1>5, <1>9
  <2> QED
    BY <1>4, <2>1, <2>2 DEF LogInv
<1>11. ReaderInv'
  <2> SUFFICES ASSUME reader.pc = "list"
               PROVE  /\ reader.ver <= project'[reader.id].ver
                      /\ Same(reader.id, reader.ver)' =>
                           \A k \in 1..reader.n : reader.got[Listed[k]] = project'[reader.id].tables[Listed[k]]
    BY DEF ReaderInv
  <2>1. reader.id \in Ids /\ reader.ver \in Nat /\ reader.ver <= project[reader.id].ver
    BY DEF IInv, TypeInv, ReaderInv, Readers
  <2>2. CASE reader.id = i
    <3>1. project'[i].ver = v /\ reader.ver < v
      BY <1>1, <1>3, <1>4, <2>1, <2>2
    <3> QED
      BY <1>1, <2>1, <2>2, <3>1 DEF Same
  <2>3. CASE reader.id # i
    BY <1>4, <2>1, <2>3 DEF IInv, ReaderInv, Same
  <2> QED
    BY <2>2, <2>3
<1>12. ConfigIsTrue'
  <2>1. \A e, f \in log' : e[1] = f[1] /\ e[2] = f[2] => e = f
    <3>1. \A e, f \in log : e[1] = f[1] /\ e[2] = f[2] => e = f
      BY DEF IInv, ConfigIsTrue, RevisionIsTrue
    <3>2. \A e \in log : ~ (e[1] = i /\ e[2] = v)
      BY <1>1, <1>9
    <3> QED
      BY <1>2, <3>1, <3>2
  <2>2. revisions' \subseteq log' /\ snapshot' \subseteq log'
    BY <1>2 DEF IInv, ConfigIsTrue, RevisionIsTrue, SnapshotIsReal
  <2>3. ParentLives'
    BY <1>5 DEF IInv, TypeInv, ConfigIsTrue, ParentLives
  <2> QED
    BY <2>1, <2>2, <2>3 DEF ConfigIsTrue, RevisionIsTrue, SnapshotIsReal
<1> QED
  BY <1>7, <1>8, <1>10, <1>11, <1>12 DEF IInv

(* P is the old projects, some of them retired. *)
Ages(P) ==
  /\ P \in [Ids -> Projects]
  /\ \A i \in Ids : /\ P[i].ver = project[i].ver /\ P[i].tables = project[i].tables
                    /\ P[i].st \in {project[i].st, "retired"}
                    /\ i \in intents => P[i].st = project[i].st

(* Projects that retire: what the reader read counts no more. *)
LEMMA RetireKeeps ==
  ASSUME IInv, Ages(project'), UNCHANGED <<revisions, channel, intents, failed, revived, cmd, reader, snapshot, log>>
  PROVE  IInv'
<1>1. Ids' = Ids /\ project' \in [Ids -> Projects]
  BY DEF Ages, Ids
<1>2. \A i \in Ids : project'[i].ver = project[i].ver /\ project'[i].tables = project[i].tables
  BY DEF Ages
<1>3. \A i \in Ids : project'[i].st = "active" => project[i].st = "active"
  BY DEF Ages
<1>4. TypeInv'
  BY <1>1, <1>2 DEF IInv, TypeInv, Numbered, Bounded
<1>5. ActiveInv'
  BY <1>1, <1>3 DEF IInv, ActiveInv, Active
<1>6. LogInv'
  <2>1. \A e \in log : e[1] \in Ids
    BY DEF IInv, TypeInv
  <2> QED
    BY <1>1, <1>2, <2>1 DEF IInv, LogInv
<1>7. ReaderInv'
  BY <1>1, <1>2, <1>3 DEF IInv, TypeInv, ReaderInv, Same
<1>8. ConfigIsTrue'
  <2>1. ParentLives'
    BY DEF IInv, TypeInv, ConfigIsTrue, ParentLives, Ages
  <2> QED
    BY <2>1 DEF IInv, ConfigIsTrue, RevisionIsTrue, SnapshotIsReal
<1> QED
  BY <1>4, <1>5, <1>6, <1>7, <1>8 DEF IInv

(* A project that is new: the channel's own, for which the old one retires, or a worktree's. *)
LEMMA NewKeeps ==
  ASSUME IInv, NEW P, Ages(P), NEW kind \in {"active", "worktree"}, NEW v \in Nat, NEW T \in Configs,
         kind = "active" => \A i \in Ids : P[i].st # "active",
         project' = [i \in Ids \cup {Fresh} |-> IF i = Fresh THEN New(kind, v, T) ELSE P[i]],
         revisions' = revisions \cup {<<Fresh, v, T>>}, log' = log \cup {<<Fresh, v, T>>},
         UNCHANGED <<channel, intents, failed, revived, cmd, reader, snapshot>>
  PROVE  IInv'
<1> DEFINE f == Fresh
<1>1. f \in Nat /\ f # 0 /\ f \notin Ids /\ \E n \in Nat : Ids \cup {f} = 1..n
  BY FreshIsNew DEF IInv, TypeInv
<1>2. project' = [i \in Ids \cup {f} |-> IF i = f THEN New(kind, v, T) ELSE P[i]] /\ log' = log \cup {<<f, v, T>>}
      /\ revisions' = revisions \cup {<<f, v, T>>}
  OBVIOUS
<1> HIDE DEF f
<1>3. New(kind, v, T) \in Projects /\ New(kind, v, T).st = kind /\ New(kind, v, T).ver = v /\ New(kind, v, T).tables = T
  BY DEF New, Projects
<1>4. /\ Ids' = Ids \cup {f} /\ project'[f] = New(kind, v, T)
      /\ \A i \in Ids : project'[i] = P[i] /\ i # f
  BY <1>1, <1>2 DEF Ids
<1>5. project' \in [Ids' -> Projects]
  BY <1>1, <1>2, <1>3, <1>4 DEF Ages
<1>6. \A i \in Ids : /\ project'[i].ver = project[i].ver /\ project'[i].tables = project[i].tables
                     /\ project'[i].st = "active" => project[i].st = "active"
                     /\ i \in intents => project'[i].st = project[i].st
                     /\ project[i].ver \in Nat
  BY <1>4 DEF Ages, IInv, TypeInv, Projects
<1>7. \A e \in log : e[1] \in Ids /\ e[2] \in Nat /\ e[1] # f
  BY <1>1 DEF IInv, TypeInv
<1>8. TypeInv'
  <2>1. Bounded'
    <3>1. PICK n \in Nat : \A j \in Ids : project[j].ver <= n
      BY DEF IInv, TypeInv, Bounded
    <3>2. n + v \in Nat /\ \A j \in Ids' : project'[j].ver <= n + v
      BY <1>3, <1>4, <1>6, <3>1
    <3> QED
      BY <3>2 DEF Bounded
  <2>2. Numbered'
    BY <1>1, <1>4 DEF Numbered
  <2>3. log' \subseteq Ids' \X Nat \X Configs
    BY <1>2, <1>4 DEF IInv, TypeInv
  <2>4. intents' \subseteq Ids' /\ failed' \subseteq Ids' /\ cmd' \in [Commands -> Ids' \cup {0}]
    BY <1>4 DEF IInv, TypeInv
  <2> QED
    BY <1>4, <1>5, <2>1, <2>2, <2>3, <2>4 DEF IInv, TypeInv
<1>9. ActiveInv'
  <2>1. CASE kind = "active"
    BY <1>3, <1>4, <2>1 DEF ActiveInv, Active
  <2>2. CASE kind = "worktree"
    BY <1>3, <1>4, <1>6, <2>2 DEF IInv, ActiveInv, Active
  <2> QED
    BY <2>1, <2>2
<1>10. LogInv'
  <2>1. \A i \in Ids' : <<i, project'[i].ver, project'[i].tables>> \in log'
    BY <1>2, <1>3, <1>4, <1>6 DEF IInv, LogInv
  <2>2. \A e \in log : e[2] <= project'[e[1]].ver
    BY <1>6, <1>7 DEF IInv, LogInv
  <2>3. \A e \in log' : e[2] <= project'[e[1]].ver
    BY <1>2, <1>3, <1>4, <2>2
  <2> QED
    BY <2>1, <2>3 DEF LogInv
<1>11. ReaderInv'
  BY <1>4, <1>6 DEF IInv, TypeInv, ReaderInv, Same
<1>12. ConfigIsTrue'
  <2>1. \A e, g \in log' : e[1] = g[1] /\ e[2] = g[2] => e = g
    <3>1. \A e, g \in log : e[1] = g[1] /\ e[2] = g[2] => e = g
      BY DEF IInv, ConfigIsTrue, RevisionIsTrue
    <3> QED
      BY <1>2, <1>7, <3>1
  <2>2. revisions' \subseteq log' /\ snapshot' \subseteq log'
    BY <1>2 DEF IInv, ConfigIsTrue, RevisionIsTrue, SnapshotIsReal
  <2>3. ParentLives'
    BY <1>6 DEF IInv, TypeInv, ConfigIsTrue, ParentLives
  <2> QED
    BY <2>1, <2>2, <2>3 DEF ConfigIsTrue, RevisionIsTrue, SnapshotIsReal
<1> QED
  BY <1>8, <1>9, <1>10, <1>11, <1>12 DEF IInv
-----------------------------------------------------------------------------
(* Steps that leave the projects and the log alone. *)
LEMMA ReadKeeps ==
  ASSUME IInv, UNCHANGED <<project, revisions, log>>,
         channel' \in Nat, cmd' \in [Commands -> Ids \cup {0}],
         intents' \subseteq Ids, failed' \subseteq Ids,
         \A i \in intents' \ revived' : project[i].st # "retired",
         reader' \in Readers, reader'.pc = "list" => reader'.id \in Ids, ReaderInv',
         snapshot' \subseteq log
  PROVE  IInv'
<1>1. Ids' = Ids /\ Active' = Active
  BY DEF Ids, Active
<1>2. TypeInv'
  BY <1>1 DEF IInv, TypeInv, Numbered, Bounded
<1>3. ActiveInv'
  BY <1>1 DEF IInv, ActiveInv
<1>4. LogInv'
  BY <1>1 DEF IInv, LogInv
<1>5. ConfigIsTrue'
  BY DEF IInv, ConfigIsTrue, RevisionIsTrue, SnapshotIsReal, ParentLives
<1> QED
  BY <1>2, <1>3, <1>4, <1>5 DEF IInv

(* A project's tables with one entry changed. *)
LEMMA EntryChanged ==
  ASSUME TypeInv, NEW i \in Ids, NEW t \in Tables, NEW e \in Entries
  PROVE  [project[i].tables EXCEPT ![t] = e] \in Configs
BY DEF TypeInv, Projects, Configs

(* A command of the channel's family. *)
LEMMA ChannelWriteKeeps ==
  ASSUME IInv, NEW c \in Commands, NEW t \in Tables, ChannelWrite(c, t)
  PROVE  IInv'
<1> DEFINE i == cmd[c]
<1>1. i \in Ids /\ cmd' \in [Commands -> Ids \cup {0}]
  BY DEF ChannelWrite, IInv, TypeInv
<1>2. PICK e \in Changed(project[i].tables[t], t # "env") :
        Write(i, [project[i].tables EXCEPT ![t] = e], advance(i))
  BY DEF ChannelWrite
<1>3. e \in Entries
  BY <1>2 DEF Changed, Entries
<1> DEFINE T == [project[i].tables EXCEPT ![t] = e]
<1>4. T \in Configs
  BY <1>1, <1>3, EntryChanged DEF IInv
<1>5. Write(i, T, project[i].ver + 1)
  BY <1>2 DEF advance
<1>6. channel' \in Nat /\ revisions' = revisions /\ UNCHANGED <<intents, failed, revived, reader, snapshot>>
  BY DEF ChannelWrite, IInv, TypeInv
<1> HIDE DEF i, T
<1> QED
  BY <1>1, <1>4, <1>5, <1>6, WriteKeeps

(* A command of the project's family (_mutate_config). *)
LEMMA MutateKeeps ==
  ASSUME IInv, NEW i \in Ids, NEW t \in Tables, NEW e \in Entries, mutate_config(i, t, e)
  PROVE  IInv'
<1> DEFINE T == [project[i].tables EXCEPT ![t] = e]
<1>1. T \in Configs
  BY EntryChanged DEF IInv
<1>2. Write(i, T, project[i].ver + 1)
  BY DEF mutate_config
<1>3. revisions' = revisions \cup {<<i, project[i].ver + 1, T>>}
  BY DEF mutate_config, Logged
<1>4. channel' \in Nat /\ cmd' \in [Commands -> Ids \cup {0}] /\ UNCHANGED <<intents, failed, revived, reader, snapshot>>
  BY DEF mutate_config, IInv, TypeInv
<1> HIDE DEF T
<1> QED
  BY <1>1, <1>2, <1>3, <1>4, WriteKeeps

(* Retiring the channel's project spares those with a worktree intent. *)
LEMMA RetiredAges ==
  ASSUME IInv, Unbindable
  PROVE  Ages(Retired) /\ \A i \in Ids : Retired[i].st # "active"
<1>1. \A i \in Ids : project[i] \in Projects
  BY DEF IInv, TypeInv
<1>2. \A p \in Projects : /\ [p EXCEPT !.st = "retired"] \in Projects
                          /\ [p EXCEPT !.st = "retired"].st = "retired"
                          /\ [p EXCEPT !.st = "retired"].ver = p.ver
                          /\ [p EXCEPT !.st = "retired"].tables = p.tables
  BY DEF Projects
<1>3. \A i \in Ids : Retired[i] = IF i \in Active THEN [project[i] EXCEPT !.st = "retired"] ELSE project[i]
  BY DEF Retired
<1>4. Retired \in [Ids -> Projects]
  BY <1>1, <1>2 DEF Retired
<1>5. \A i \in intents : i \notin Active
  BY DEF Unbindable
<1> QED
  BY <1>1, <1>2, <1>3, <1>4, <1>5 DEF Ages, Active

(* The snapshot that a session is created from is read table by table. *)
LEMMA SnapshotKeeps ==
  ASSUME IInv, snapshot_starts \/ snapshot_lists \/ snapshot_ends
  PROVE  IInv'
<1>1. /\ UNCHANGED <<project, revisions, log>> /\ channel' \in Nat /\ cmd' \in [Commands -> Ids \cup {0}]
      /\ intents' \subseteq Ids /\ failed' \subseteq Ids
      /\ \A i \in intents' \ revived' : project[i].st # "retired"
  BY DEF snapshot_starts, snapshot_lists, snapshot_ends, IInv, TypeInv, ConfigIsTrue, ParentLives
<1>2. Empty \in Configs
  BY DEF Empty, Configs, Entries
<1>3. NoReader \in Readers /\ NoReader.pc = "idle"
  BY <1>2 DEF NoReader, Readers
<1>4. \A i \in Ids : i \in Nat /\ project[i].ver \in Nat /\ project[i].tables \in Configs
  BY DEF IInv, TypeInv, Numbered, Projects
<1>5. /\ resolve # 0 => resolve \in Ids /\ project[resolve].st = "active"
      /\ \A i \in Ids : project[i].st = "active" => resolve = i
  BY ResolveIsActive DEF IInv, Active
<1>6. CASE snapshot_starts
  <2>1. /\ reader' = [pc |-> "list", id |-> resolve, ver |-> project[resolve].ver, chan |-> channel,
                      got |-> Empty, n |-> 0]
        /\ resolve \in Ids /\ snapshot' = snapshot /\ channel \in Nat
    BY <1>5, <1>6 DEF snapshot_starts, IInv, TypeInv
  <2>2. reader' \in Readers
    BY <1>2, <1>4, <2>1 DEF Readers
  <2>3. reader'.id = resolve /\ reader'.ver = project[resolve].ver /\ reader'.n = 0
    BY <2>1
  <2>4. ReaderInv'
    BY <1>1, <1>4, <2>1, <2>3 DEF ReaderInv, Same
  <2>5. snapshot' \subseteq log
    BY <2>1 DEF IInv, ConfigIsTrue, SnapshotIsReal
  <2> QED
    BY <1>1, <2>1, <2>2, <2>3, <2>4, <2>5, ReadKeeps
<1>7. CASE snapshot_lists
  <2>1. reader.pc = "list" /\ reader \in Readers /\ reader.id \in Ids /\ snapshot' = snapshot
    BY <1>7 DEF snapshot_lists, IInv, TypeInv
  <2>2. reader.n \in 0..3 /\ reader.n + 1 \in 1..4
    BY <1>7, <2>1, FourTables DEF snapshot_lists, Readers
  <2>3. snapshot' \subseteq log
    BY <2>1 DEF IInv, ConfigIsTrue, SnapshotIsReal
  <2>4. CASE resolve = 0
    <3>1. reader' = NoReader
      BY <1>7, <2>4 DEF snapshot_lists
    <3>2. ReaderInv' /\ reader' \in Readers /\ reader'.pc # "list"
      BY <1>3, <3>1 DEF ReaderInv
    <3> QED
      BY <1>1, <2>3, <3>2, ReadKeeps
  <2>5. CASE resolve # 0
    <3> DEFINE t == Listed[reader.n + 1]
               x == project[resolve].tables[t]
               g == [reader.got EXCEPT ![t] = x]
    <3>1. reader' = [reader EXCEPT !.got[t] = x, !.n = @ + 1]
      BY <1>7, <2>5 DEF snapshot_lists
    <3>2. t \in Tables /\ x \in Entries /\ reader.got \in Configs
      BY <1>4, <1>5, <2>1, <2>2, <2>5, FourTables DEF Configs, Readers
    <3>3. reader' = [reader EXCEPT !.got = g, !.n = reader.n + 1]
      BY <2>1, <3>1 DEF Readers
    <3>4. g \in Configs /\ g[t] = x /\ \A s \in Tables : s # t => g[s] = reader.got[s]
      BY <3>2 DEF Configs
    <3> HIDE DEF g
    <3>5. /\ reader' \in Readers /\ reader'.pc = "list" /\ reader'.id = reader.id /\ reader'.ver = reader.ver
          /\ reader'.got = g /\ reader'.n = reader.n + 1
      <4>1. reader.n + 1 \in 0..4
        BY <2>2
      <4>2. g \in Configs /\ reader \in Readers /\ reader.pc = "list"
        BY <2>1, <3>4
      <4> DEFINE m == reader.n + 1
                 r == [reader EXCEPT !.got = g, !.n = m]
      <4>3. m \in 0..4
        BY <4>1
      <4> HIDE DEF m
      <4>4. r \in Readers /\ r.pc = "list" /\ r.id = reader.id /\ r.ver = reader.ver /\ r.got = g /\ r.n = m
        BY <4>2, <4>3 DEF Readers
      <4>5. reader' = r
        BY <3>3 DEF m
      <4> HIDE DEF r
      <4> QED
        BY <4>4, <4>5 DEF m
    <3>6. ASSUME Same(reader.id, reader.ver), NEW k \in 1..(reader.n + 1)
          PROVE  g[Listed[k]] = project[reader.id].tables[Listed[k]]
      <4>1. resolve = reader.id
        BY <1>5, <2>1, <3>6 DEF Same
      <4>2. CASE Listed[k] = t
        BY <3>4, <4>1, <4>2
      <4>3. CASE Listed[k] # t
        <5>1. k \in 1..reader.n /\ k \in 1..4
          BY <2>2, <4>3
        <5>2. reader.got[Listed[k]] = project[reader.id].tables[Listed[k]]
          BY <2>1, <3>6, <5>1 DEF IInv, ReaderInv
        <5> QED
          BY <3>4, <4>3, <5>1, <5>2, FourTables
      <4> QED
        BY <4>2, <4>3
    <3>7. ReaderInv'
      BY <1>1, <2>1, <3>5, <3>6 DEF IInv, ReaderInv, Same
    <3> QED
      BY <1>1, <2>1, <2>3, <3>5, <3>7, ReadKeeps
  <2> QED
    BY <2>4, <2>5
<1>8. CASE snapshot_ends
  <2>1. reader.pc = "list" /\ reader.n = 4 /\ reader' = NoReader /\ reader \in Readers /\ reader.id \in Ids
    BY <1>8, FourTables DEF snapshot_ends, IInv, TypeInv
  <2>2. snapshot' \subseteq log
    <3>1. CASE Unchanged
      <4>1. Same(reader.id, reader.ver)
        BY <1>5, <2>1, <3>1, <1>4 DEF Unchanged, Same, IInv, TypeInv, Numbered
      <4>2. \A k \in 1..4 : reader.got[Listed[k]] = project[reader.id].tables[Listed[k]]
        BY <2>1, <4>1 DEF IInv, ReaderInv
      <4>3. \A s \in Tables : reader.got[s] = project[reader.id].tables[s]
        BY <4>2, FourTables
      <4>4. reader.got = project[reader.id].tables
        BY <1>4, <2>1, <4>3 DEF Configs, Readers
      <4>5. <<reader.id, reader.ver, reader.got>> \in log
        BY <2>1, <4>1, <4>4 DEF IInv, LogInv, Same
      <4> QED
        BY <1>8, <4>5 DEF snapshot_ends, IInv, ConfigIsTrue, SnapshotIsReal
    <3>2. CASE ~ Unchanged
      BY <1>8, <3>2 DEF snapshot_ends, IInv, ConfigIsTrue, SnapshotIsReal
    <3> QED
      BY <3>1, <3>2
  <2>3. ReaderInv' /\ reader' \in Readers /\ reader'.pc # "list"
    BY <1>3, <2>1 DEF ReaderInv
  <2> QED
    BY <1>1, <2>2, <2>3, ReadKeeps
<1> QED
  BY <1>6, <1>7, <1>8
-----------------------------------------------------------------------------
(* The invariant holds of the empty registry ... *)
LEMMA InitHolds == Init => IInv
<1> SUFFICES ASSUME Init PROVE IInv
  OBVIOUS
<1>1. Ids = {} /\ project \in [Ids -> Projects]
  BY DEF Init, Ids
<1>2. Numbered /\ Bounded
  <2>1. Ids = 1..0
    BY <1>1
  <2> QED
    BY <1>1, <2>1 DEF Numbered, Bounded
<1>3. reader \in Readers /\ reader.pc = "idle"
  <2>1. Empty \in Configs
    BY DEF Empty, Configs, Entries
  <2> QED
    BY <2>1 DEF Init, NoReader, Readers
<1>4. log = {} /\ revisions = {} /\ snapshot = {} /\ intents = {} /\ failed = {} /\ channel = 1 /\ cmd = [c \in Commands |-> 0]
  BY DEF Init
<1>5. TypeInv
  BY <1>1, <1>2, <1>3, <1>4 DEF TypeInv
<1>6. ActiveInv /\ LogInv
  BY <1>1, <1>4 DEF ActiveInv, Active, LogInv
<1>7. ReaderInv
  BY <1>3 DEF ReaderInv
<1>8. ConfigIsTrue
  BY <1>4 DEF ConfigIsTrue, SnapshotIsReal, RevisionIsTrue, ParentLives
<1> QED
  BY <1>5, <1>6, <1>7, <1>8 DEF IInv

(* ... and every command, binding and read keeps it. *)
LEMMA StepKeeps == IInv /\ [Next]_vars => IInv'
<1> SUFFICES ASSUME IInv, [Next]_vars PROVE IInv'
  OBVIOUS
<1>1. /\ channel \in Nat /\ cmd \in [Commands -> Ids \cup {0}] /\ snapshot \subseteq log
      /\ intents \subseteq Ids /\ failed \subseteq Ids
      /\ \A i \in intents \ revived : project[i].st # "retired"
      /\ reader \in Readers /\ (reader.pc = "list" => reader.id \in Ids) /\ ReaderInv
  BY DEF IInv, TypeInv, ConfigIsTrue, SnapshotIsReal, ParentLives
<1>2. ASSUME UNCHANGED <<project, reader>> PROVE ReaderInv'
  BY <1>1, <1>2 DEF ReaderInv, Same
<1>3. Tables = {"env", "mcp", "dir", "agent"}
  BY FourTables
<1>4. CASE bind
  <2>1. Ages(Retired) /\ \A i \in Ids : Retired[i].st # "active"
    BY <1>4, RetiredAges DEF bind
  <2>2. LastVersion + 1 \in Nat
    BY LastVersionIsNumber DEF IInv, TypeInv
  <2>3. Empty \in Configs
    BY DEF Empty, Configs, Entries
  <2>4. /\ project' = [i \in Ids \cup {Fresh} |->
                         IF i = Fresh THEN New("active", LastVersion + 1, Empty) ELSE Retired[i]]
        /\ revisions' = revisions \cup {<<Fresh, LastVersion + 1, Empty>>}
        /\ log' = log \cup {<<Fresh, LastVersion + 1, Empty>>}
        /\ UNCHANGED <<channel, intents, failed, revived, cmd, reader, snapshot>>
    BY <1>4 DEF bind
  <2> QED
    BY <2>1, <2>2, <2>3, <2>4, NewKeeps
<1>5. CASE unbind
  <2>1. Ages(project')
    BY <1>5, RetiredAges DEF unbind
  <2> QED
    BY <1>5, <2>1, RetireKeeps DEF unbind
<1>6. CASE reserve_intent \/ reserve_again \/ intent_ends
  <2>1. /\ UNCHANGED <<project, revisions, channel, cmd, reader, snapshot, log>>
        /\ intents' \subseteq Ids /\ failed' \subseteq Ids
        /\ \A i \in intents' \ revived' : project[i].st # "retired"
    BY <1>1, <1>6 DEF reserve_intent, reserve_again, intent_ends
  <2> QED
    BY <1>1, <1>2, <2>1, ReadKeeps
<1>7. CASE register_worktree_project
  <2>1. PICK parent \in intents :
          /\ project' = [i \in Ids \cup {Fresh} |->
                           IF i = Fresh THEN New("worktree", 1, project[parent].tables) ELSE project[i]]
          /\ revisions' = revisions \cup {<<Fresh, 1, project[parent].tables>>}
          /\ log' = log \cup {<<Fresh, 1, project[parent].tables>>}
          /\ UNCHANGED <<channel, intents, failed, revived, cmd, reader, snapshot>>
    BY <1>7 DEF register_worktree_project
  <2>2. project[parent].tables \in Configs
    BY <2>1 DEF IInv, TypeInv, Projects
  <2>3. Ages(project)
    BY DEF Ages, IInv, TypeInv
  <2> DEFINE T == project[parent].tables
  <2>4. /\ T \in Configs
        /\ project' = [i \in Ids \cup {Fresh} |-> IF i = Fresh THEN New("worktree", 1, T) ELSE project[i]]
        /\ revisions' = revisions \cup {<<Fresh, 1, T>>} /\ log' = log \cup {<<Fresh, 1, T>>}
    BY <2>1, <2>2
  <2> HIDE DEF T
  <2>5. 1 \in Nat /\ "worktree" \in {"active", "worktree"} /\ "worktree" # "active"
    OBVIOUS
  <2> QED
    BY <2>1, <2>3, <2>4, <2>5, NewKeeps
<1>8. ASSUME NEW c \in Commands,
             \/ channel_command_starts(c) \/ channel_command_fails(c)
             \/ project_env_command(c) \/ mcp_server_command(c) \/ directory_command(c) \/ custom_agent_command(c)
      PROVE  IInv'
  <2>1. CASE channel_command_starts(c) \/ channel_command_fails(c)
    <3>1. UNCHANGED <<project, revisions, channel, intents, failed, revived, reader, snapshot, log>>
      BY <2>1 DEF channel_command_starts, channel_command_fails
    <3>2. resolve # 0 => resolve \in Ids
      BY ResolveIsActive DEF IInv
    <3>3. cmd' \in [Commands -> Ids \cup {0}]
      BY <1>1, <2>1, <3>2 DEF channel_command_starts, channel_command_fails
    <3> QED
      BY <1>1, <1>2, <3>1, <3>3, ReadKeeps
  <2>2. CASE project_env_command(c) \/ mcp_server_command(c) \/ directory_command(c) \/ custom_agent_command(c)
    BY <1>3, <2>2, ChannelWriteKeeps
       DEF project_env_command, mcp_server_command, directory_command, custom_agent_command
  <2> QED
    BY <1>8, <2>1, <2>2
<1>9. ASSUME NEW i \in Ids,
             \/ set_variable(i) \/ remove_variable(i) \/ add_mcp_server(i)
             \/ change_mcp_server(i) \/ change_directory(i) \/ change_custom_agent(i)
      PROVE  IInv'
  <2>1. \E t \in Tables, e \in Entries : mutate_config(i, t, e)
    BY <1>3, <1>9 DEF set_variable, remove_variable, add_mcp_server, change_mcp_server, change_directory,
                      change_custom_agent, Changed, Entries
  <2> QED
    BY <2>1, MutateKeeps
<1>10. CASE set_channel_setting
  <2>1. UNCHANGED <<project, revisions, intents, failed, revived, cmd, reader, snapshot, log>> /\ channel' \in Nat
    BY <1>1, <1>10 DEF set_channel_setting
  <2> QED
    BY <1>1, <1>2, <2>1, ReadKeeps
<1>11. CASE set_channel_timezone
  <2>1. channel' \in Nat /\ UNCHANGED <<intents, failed, revived, cmd, reader, snapshot>>
    BY <1>1, <1>11 DEF set_channel_timezone
  <2>2. CASE resolve = 0
    <3>1. UNCHANGED <<project, revisions, log>>
      BY <1>11, <2>2 DEF set_channel_timezone
    <3> QED
      BY <1>1, <1>2, <2>1, <3>1, ReadKeeps
  <2>3. CASE resolve # 0
    <3> DEFINE i == resolve
               T == project[i].tables
    <3>1. i \in Ids
      BY <2>3, ResolveIsActive DEF IInv
    <3>2. T \in Configs
      BY <3>1 DEF IInv, TypeInv, Projects
    <3>3. Write(i, T, project[i].ver + 1) /\ revisions' = revisions \cup {<<i, project[i].ver + 1, T>>}
      BY <1>11, <2>3 DEF set_channel_timezone
    <3> HIDE DEF i, T
    <3> QED
      BY <1>1, <2>1, <3>1, <3>2, <3>3, WriteKeeps
  <2> QED
    BY <2>2, <2>3
<1>12. CASE snapshot_starts \/ snapshot_lists \/ snapshot_ends
  BY <1>12, SnapshotKeeps
<1>13. CASE UNCHANGED vars
  <2>1. UNCHANGED <<project, revisions, channel, intents, failed, revived, cmd, reader, snapshot, log>>
    BY <1>13 DEF vars
  <2> QED
    BY <1>1, <1>2, <2>1, ReadKeeps
<1> QED
  BY <1>4, <1>5, <1>6, <1>7, <1>8, <1>9, <1>10, <1>11, <1>12, <1>13 DEF Next

(* The inductive invariant. *)
THEOREM Invariance == Spec => []IInv
BY InitHolds, StepKeeps, PTL DEF Spec

(* For any number of projects, versions and commands under way: a session starts from a configuration that *)
(* its project had at the version written down with it, although session_config_snapshot reads the tables  *)
(* one by one; a version names one configuration, and a logged revision is that one; and neither bind nor  *)
(* unbind retires the parent of a worktree that is being made (one that is tried again after its project   *)
(* was retired runs under the retired one).                                                                *)
THEOREM ConfigurationsAreTrue == Spec => []ConfigIsTrue
<1>1. IInv => ConfigIsTrue
  BY DEF IInv
<1> QED
  BY <1>1, Invariance, PTL
-----------------------------------------------------------------------------
(***************************************************************************)
(* Runtime schedules                                                       *)
(***************************************************************************)
Kinds == {"created", "cancelled", "rearmed", "fired"}
Notices == [type : Kinds, id : ScheduleIds]
States == {Absent, "active", "unknown"} \cup Final
Calls == {"idle", "list", "listing", "listed", "seek", "seeking", "sought", "invoke", "check", "checking", "checked"}
Known == 1..Len(made)

RuntimeTypes ==
  /\ made \in Seq(Actions \cup {0}) /\ Len(made) <= MaxId
  /\ live \subseteq Known /\ every \subseteq Known
  /\ events \in Seq(Notices)
RegistryTypes ==
  /\ rows \in [ScheduleIds -> States] /\ asks \in Nat
  /\ listing \in [by : {Absent, "loop", "create", "cancel", "attach"}, ids : SUBSET ScheduleIds, fresh : BOOLEAN, behind : Nat]
  /\ cancel \in [pc : {"idle", "listing", "listed", "ok"}, id : Nat]
  /\ st \in {"up", "down", "attaching"}
CreateTypes ==
  /\ act \in [Actions -> [st : {Absent, "pending", "confirmed", "unknown"}, id : Nat]]
  /\ base \in [Actions -> SUBSET Nat]
  /\ op \in [Actions -> {Absent, "rejected", "confirmed", "unknown"}]
  /\ pc \in [Actions -> Calls]
ScheduleTypes == RuntimeTypes /\ RegistryTypes /\ CreateTypes

\* The event that a schedule was made is among the first n under way.
Announced(i, n) == \E k \in 1..Len(events) : k <= n /\ events[k].type = "created" /\ events[k].id = i
\* The event e is the last of the schedule i.
Ends(e, i) == e.id = i /\ (e.type = "cancelled" \/ (e.type = "fired" /\ i \notin every))
Ending(i) == \E k \in 1..Len(events) : Ends(events[k], i)
\* The event that a schedule was made is under way.
Coming(i) == \E k \in 1..Len(events) : events[k].type = "created" /\ events[k].id = i

\* A schedule's first event says that it was made.
EventsInOrder ==
  \A k \in 1..Len(events) :
    /\ events[k].id \in Known
    /\ events[k].type = "created" => \A j \in 1..(k - 1) : events[j].id # events[k].id

\* A snapshot is asked for, or is going to be.
Due == st # "up" \/ need \/ asks > 0
\* A row is missing while its event comes; one that is there is active, or in doubt until the snapshot that is due;
\* that of a schedule which ended is final, or the end is under way.
RowOK(i) ==
  /\ rows[i] = Absent <=> Coming(i)
  /\ i \in live => (rows[i] \in {Absent, "active"} \/ (rows[i] = "unknown" /\ Due)) /\ ~Ending(i)
  /\ attached /\ i \notin live => rows[i] \in Final \/ Ending(i)
RowsOK == (\A i \in Known : RowOK(i)) /\ \A i \in ScheduleIds \ Known : rows[i] = Absent

\* What was listed is there or has ended since; what was made since the query makes the answer an old one,
\* or will: the request of its event is on its way.
ListOK(i) ==
  /\ i \in listing.ids => rows[i] # Absent \/ Announced(i, listing.behind)
  /\ i \in listing.ids \ live => rows[i] \in Final \/ Ending(i)
  /\ i \in live \ listing.ids => rows[i] = Absent \/ ~listing.fresh \/ asks > 0
  /\ listing.by = "attach" /\ i \notin live \cup listing.ids => rows[i] # Absent \/ Ending(i)
ListingOK == listing.by # Absent => need /\ listing.ids \subseteq Known /\ \A i \in Known : ListOK(i)

\* A confirmed cancellation is of a schedule that has ended.
CancelOK == cancel.pc = "ok" => cancel.id \in Known \ live

RegistryInv == EventsInOrder /\ RowsOK /\ ListingOK

\* The schedules that the invocations of other actions made
Foreign(a) == {i \in Known : made[i] \notin {a, 0}}
\* One create call at a time; what an action was confirmed with is its own.
CallOK(a) ==
  /\ pc[a] # "idle" => \A c \in Actions \ {a} : pc[c] = "idle"
  /\ pc[a] \in {"listing", "seeking", "checking"} => listing.by = "create"
  /\ pc[a] \in {"seek", "seeking", "sought"} => a \in again
  /\ act[a].id # 0 => act[a].id \in Known /\ (a \in again \/ made[act[a].id] \in {a, 0})
\* When the baseline is taken, every foreign schedule has a row: it is in the baseline or has ended.
BaseOK(a) ==
  a \notin again => \A i \in Foreign(a) :
    /\ pc[a] = "listing" => rows[i] # Absent \/ Announced(i, listing.behind)
    /\ pc[a] = "listed" => rows[i] # Absent
    /\ pc[a] \in {"invoke", "check", "checking", "checked"} => i \in base[a] \/ rows[i] \in Final
\* An action that made a schedule has invoked its command.
MadeOK == (\A i \in Known : made[i] # 0 => op[made[i]] # Absent) /\ CreatedOnce
CreateInv == MadeOK /\ \A a \in Actions : CallOK(a) /\ BaseOK(a)

ScheduleInv == ScheduleTypes /\ RegistryInv /\ CancelOK /\ CreateInv

-----------------------------------------------------------------------------
\* What Append does to a sequence
LEMMA Appends ==
  ASSUME NEW S, NEW s \in Seq(S), NEW e \in S
  PROVE  /\ Append(s, e) \in Seq(S) /\ Len(s) \in Nat /\ Len(Append(s, e)) = Len(s) + 1
         /\ \A k \in 1..Len(s) : Append(s, e)[k] = s[k]
         /\ Append(s, e)[Len(s) + 1] = e
OBVIOUS

\* What Head and Tail of a sequence are
LEMMA Tails ==
  ASSUME NEW S, NEW s \in Seq(S), s # <<>>
  PROVE  /\ Tail(s) \in Seq(S) /\ Len(s) \in Nat /\ Len(s) >= 1 /\ Len(Tail(s)) = Len(s) - 1
         /\ \A k \in 1..(Len(s) - 1) : Tail(s)[k] = s[k + 1]
         /\ Head(s) = s[1] /\ Head(s) \in S
OBVIOUS

\* Two elements more at the end
LEMMA Pairs ==
  ASSUME NEW S, NEW s \in Seq(S), NEW e \in S, NEW f \in S, NEW t, t = s \o <<e, f>>
  PROVE  /\ t \in Seq(S) /\ Len(s) \in Nat /\ Len(t) = Len(s) + 2
         /\ \A k \in 1..Len(s) : k \in 1..Len(t) /\ t[k] = s[k]
         /\ \A k \in 1..Len(t) : k \in 1..Len(s) \/ t[k] \in {e, f}
<1>1. PICK u : u = <<e, f>>
  OBVIOUS
<1>2. u \in Seq(S) /\ Len(u) = 2 /\ u[1] = e /\ u[2] = f
  BY <1>1
<1>3. t = s \o u
  BY <1>1
<1>4. /\ t \in Seq(S) /\ Len(s) \in Nat /\ Len(t) = Len(s) + Len(u)
      /\ \A k \in 1..Len(t) : t[k] = IF k <= Len(s) THEN s[k] ELSE u[k - Len(s)]
  BY <1>2, <1>3
<1>5. \A k \in 1..Len(t) : k \notin 1..Len(s) => k - Len(s) = 1 \/ k - Len(s) = 2
  BY <1>2, <1>4
<1>6. ASSUME NEW k \in 1..Len(s) PROVE k \in 1..Len(t) /\ t[k] = s[k]
  <2>1. k \in 1..Len(t) /\ k <= Len(s)
    BY <1>2, <1>4
  <2> QED
    BY <1>4, <2>1
<1>7. ASSUME NEW k \in 1..Len(t), k \notin 1..Len(s) PROVE t[k] \in {e, f}
  <2>1. ~(k <= Len(s))
    BY <1>4, <1>7
  <2>2. t[k] = u[k - Len(s)]
    BY <1>4, <2>1
  <2> QED
    BY <1>2, <1>5, <1>7, <2>2
<1>8. Len(t) = Len(s) + 2
  BY <1>2, <1>4
<1> QED
  BY <1>4, <1>6, <1>7, <1>8

\* An event more at the end.
LEMMA EventAppended ==
  ASSUME events \in Seq(Notices), NEW e \in Notices, events' = Append(events, e)
  PROVE  /\ events' \in Seq(Notices)
         /\ \A i, n : Announced(i, n) => Announced(i, n)'
         /\ \A i : Coming(i)' <=> Coming(i) \/ (e.type = "created" /\ e.id = i)
         /\ \A i : (i \in every' <=> i \in every) => (Ending(i)' <=> Ending(i) \/ Ends(e, i))
<1>1. /\ events' \in Seq(Notices) /\ Len(events) \in Nat /\ Len(events') = Len(events) + 1
      /\ \A k \in 1..Len(events) : events'[k] = events[k]
      /\ events'[Len(events) + 1] = e
  BY Appends
<1>2. /\ \A k \in 1..Len(events) : k \in 1..Len(events')
      /\ Len(events) + 1 \in 1..Len(events')
      /\ \A k \in 1..Len(events') : k \in 1..Len(events) \/ k = Len(events) + 1
  BY <1>1
<1>3. \A i, n : Announced(i, n) => Announced(i, n)'
  BY <1>1, <1>2 DEF Announced
<1>4. ASSUME NEW i PROVE Coming(i)' <=> Coming(i) \/ (e.type = "created" /\ e.id = i)
  BY <1>1, <1>2 DEF Coming
<1>5. ASSUME NEW i, i \in every' <=> i \in every PROVE Ending(i)' <=> Ending(i) \/ Ends(e, i)
  BY <1>1, <1>2, <1>5 DEF Ending, Ends
<1> QED
  BY <1>1, <1>3, <1>4, <1>5

\* An event more, for a schedule that is known or new, keeps the order.
LEMMA OrderAppended ==
  ASSUME events \in Seq(Notices), EventsInOrder, NEW e \in Notices, events' = Append(events, e),
         Known \subseteq Known', e.id \in Known', e.type = "created" => e.id \notin Known
  PROVE  EventsInOrder'
<1>1. /\ events' \in Seq(Notices) /\ Len(events) \in Nat /\ Len(events') = Len(events) + 1
      /\ \A k \in 1..Len(events) : events'[k] = events[k]
      /\ events'[Len(events) + 1] = e
  BY Appends
<1>2. ASSUME NEW k \in 1..Len(events')
      PROVE  /\ events'[k].id \in Known'
             /\ events'[k].type = "created" => \A j \in 1..(k - 1) : events'[j].id # events'[k].id
  <2>1. CASE k \in 1..Len(events)
    <3>1. events'[k] = events[k] /\ \A j \in 1..(k - 1) : j \in 1..Len(events) /\ events'[j] = events[j]
      BY <1>1, <2>1
    <3> QED
      BY <2>1, <3>1 DEF EventsInOrder
  <2>2. CASE k = Len(events) + 1
    <3>1. events'[k] = e /\ \A j \in 1..(k - 1) : j \in 1..Len(events) /\ events'[j] = events[j]
      BY <1>1, <2>2
    <3>2. \A j \in 1..Len(events) : events[j].id \in Known
      BY DEF EventsInOrder
    <3> QED
      BY <3>1, <3>2
  <2> QED
    BY <1>1, <2>1, <2>2
<1> QED
  BY <1>2 DEF EventsInOrder

\* The first event is taken out.
LEMMA EventTaken ==
  ASSUME NEW e, e = Head(events), events \in Seq(Notices), events # <<>>, events' = Tail(events), UNCHANGED every, EventsInOrder, UNCHANGED made
  PROVE  /\ events' \in Seq(Notices) /\ e \in Notices /\ e.id \in Known
         /\ EventsInOrder'
         /\ \A i : Coming(i)' => Coming(i) /\ i # e.id
         /\ \A i : Coming(i) /\ ~(e.type = "created" /\ e.id = i) => Coming(i)'
         /\ \A i : Ending(i)' => Ending(i)
         /\ \A i : Ending(i) => Ends(e, i) \/ Ending(i)'
         /\ \A i : Ends(e, i) => Ending(i)
         /\ \A i : \A n \in Nat : Announced(i, n) => (e.type = "created" /\ e.id = i) \/ (n > 0 /\ Announced(i, n - 1)')
         /\ \A i : ~Announced(i, 0)
<1>1. /\ events' \in Seq(Notices) /\ Len(events) \in Nat /\ Len(events) >= 1 /\ Len(events') = Len(events) - 1
      /\ \A k \in 1..(Len(events) - 1) : events'[k] = events[k + 1]
      /\ e = events[1] /\ e \in Notices
  BY Tails
<1>2. /\ 1 \in 1..Len(events)
      /\ \A k \in 1..Len(events') : k + 1 \in 1..Len(events) /\ events'[k] = events[k + 1] /\ k + 1 # 1
      /\ \A k \in 1..Len(events) : k = 1 \/ (k - 1 \in 1..Len(events') /\ events'[k - 1] = events[k])
  BY <1>1
<1>3. e.id \in Known
  BY <1>1, <1>2 DEF EventsInOrder
<1>4. EventsInOrder'
  <2>1. SUFFICES ASSUME NEW k \in 1..Len(events')
                 PROVE  /\ events'[k].id \in Known
                        /\ events'[k].type = "created" => \A j \in 1..(k - 1) : events'[j].id # events'[k].id
    BY DEF EventsInOrder, Known
  <2>2. k + 1 \in 1..Len(events) /\ events'[k] = events[k + 1]
    BY <1>2
  <2>3. \A j \in 1..(k - 1) : j \in 1..Len(events') /\ j + 1 \in 1..((k + 1) - 1) /\ events'[j] = events[j + 1]
    BY <1>1
  <2> QED
    BY <2>2, <2>3 DEF EventsInOrder
<1>5. \A i : Coming(i)' => Coming(i) /\ i # e.id
  <2>1. ASSUME NEW i, NEW k \in 1..Len(events'), events'[k].type = "created", events'[k].id = i
        PROVE  Coming(i) /\ i # e.id
    <3>1. k + 1 \in 1..Len(events) /\ events[k + 1].type = "created" /\ events[k + 1].id = i
      BY <1>2, <2>1
    <3>2. 1 \in 1..((k + 1) - 1)
      OBVIOUS
    <3>3. events[1].id # events[k + 1].id
      BY <3>1, <3>2 DEF EventsInOrder
    <3> QED
      BY <1>1, <3>1, <3>3 DEF Coming
  <2> QED
    BY <2>1 DEF Coming
<1>6. \A i : Coming(i) /\ ~(e.type = "created" /\ e.id = i) => Coming(i)'
  BY <1>1, <1>2 DEF Coming
<1>7. \A i : Ending(i)' => Ending(i)
  BY <1>2 DEF Ending, Ends
<1>8. ASSUME NEW i, Ending(i), ~Ends(e, i) PROVE Ending(i)'
  <2>1. PICK k \in 1..Len(events) : Ends(events[k], i)
    BY <1>8 DEF Ending
  <2>2. k - 1 \in 1..Len(events') /\ events'[k - 1] = events[k]
    BY <1>1, <1>2, <1>8, <2>1
  <2>3. \E l \in 1..Len(events') : events'[l] = events[k]
    BY <2>2
  <2> QED
    BY <2>1, <2>3 DEF Ending, Ends
<1>9. \A i : Ends(e, i) => Ending(i)
  BY <1>1, <1>2 DEF Ending
<1>10. ASSUME NEW i, NEW n \in Nat, Announced(i, n), ~(e.type = "created" /\ e.id = i)
       PROVE  n > 0 /\ Announced(i, n - 1)'
  <2>1. PICK k \in 1..Len(events) : k <= n /\ events[k].type = "created" /\ events[k].id = i
    BY <1>10 DEF Announced
  <2>2. k # 1
    BY <1>1, <1>10, <2>1
  <2>3. k - 1 \in 1..Len(events') /\ events'[k - 1] = events[k] /\ k - 1 <= n - 1 /\ n > 0
    BY <1>1, <1>2, <2>1, <2>2
  <2> QED
    BY <2>1, <2>3 DEF Announced
<1>11. \A i : ~Announced(i, 0)
  BY <1>1 DEF Announced
<1>12. \A i : \A n \in Nat : Announced(i, n) => (e.type = "created" /\ e.id = i) \/ (n > 0 /\ Announced(i, n - 1)')
  BY <1>10
<1> QED
  BY <1>1, <1>3, <1>4, <1>5, <1>6, <1>7, <1>8, <1>9, <1>11, <1>12

\* Nothing is announced by no events.
LEMMA NothingAnnounced ==
  ASSUME events \in Seq(Notices) PROVE \A i : ~Announced(i, 0)
<1>1. Len(events) \in Nat
  OBVIOUS
<1> QED
  BY <1>1 DEF Announced

\* The ids given out are ids.
LEMMA KnownIds ==
  ASSUME RuntimeTypes
  PROVE  Known \subseteq ScheduleIds /\ Len(made) \in Nat /\ live \subseteq ScheduleIds /\ Len(events) \in Nat
BY SchedulesAssumption DEF RuntimeTypes, Known, ScheduleIds

\* What a session without schedules gained or lost keeps.
LEMMA RegistryStands ==
  ASSUME RegistryInv, UNCHANGED <<every, made, events, rows, need>>, live' \subseteq live,
         st' = "up" => st = "up" /\ live' = live,
         listing'.by = Absent \/ (listing' = listing /\ live' = live),
         asks' = asks \/ (st' # "up" /\ listing'.by = Absent)
  PROVE  RegistryInv'
<1>1. Known' = Known /\ EventsInOrder'
  BY DEF RegistryInv, EventsInOrder, Known
<1>2. \A i : (Coming(i)' <=> Coming(i)) /\ (Ending(i)' <=> Ending(i)) /\ \A n : Announced(i, n)' <=> Announced(i, n)
  BY DEF Coming, Ending, Ends, Announced
<1>3. RowsOK'
  <2>1. Due => Due'
    BY DEF Due
  <2> QED
    BY <1>1, <1>2, <2>1 DEF RegistryInv, RowsOK, RowOK, attached
<1>4. ListingOK'
  BY <1>1, <1>2 DEF RegistryInv, ListingOK, ListOK
<1> QED
  BY <1>1, <1>3, <1>4 DEF RegistryInv

\* A schedule is made.
LEMMA MakeKeeps ==
  ASSUME RuntimeTypes, RegistryTypes, RegistryInv, NEW by \in Actions \cup {0}, Make(by), UNCHANGED <<rows, need, asks, listing, st>>
  PROVE  /\ RuntimeTypes' /\ RegistryInv'
         /\ Known' = Known \cup {Len(made) + 1} /\ Len(made) + 1 \notin Known /\ rows[Len(made) + 1] = Absent
         /\ \A i \in Known : made'[i] = made[i]
         /\ made'[Len(made) + 1] = by
         /\ \A i, n : Announced(i, n) => Announced(i, n)'
<1>0. PICK new : new = Len(made) + 1
  OBVIOUS
<1> DEFINE e == [type |-> "created", id |-> new]
<1>1. /\ Len(made) < MaxId /\ made' = Append(made, by) /\ live' = live \cup {new}
      /\ every' \in {every, every \cup {new}} /\ events' = Append(events, e)
  BY <1>0 DEF Make
<1>2. /\ made' \in Seq(Actions \cup {0}) /\ Len(made) \in Nat /\ Len(made') = Len(made) + 1
      /\ \A i \in 1..Len(made) : made'[i] = made[i]
      /\ made'[new] = by
  BY <1>0, <1>1, Appends DEF RuntimeTypes
<1>3. Known' = Known \cup {new} /\ new \notin Known
  BY <1>0, <1>2 DEF Known
<1>4. new \in ScheduleIds /\ Len(made') <= MaxId
  BY <1>0, <1>1, <1>2, SchedulesAssumption DEF ScheduleIds
<1>5. e \in Notices /\ e.type = "created" /\ e.id = new
  BY <1>4 DEF Notices, Kinds
<1> HIDE DEF e
<1>6. /\ events' \in Seq(Notices)
      /\ \A i, n : Announced(i, n) => Announced(i, n)'
      /\ \A i : Coming(i)' <=> Coming(i) \/ (e.type = "created" /\ e.id = i)
      /\ \A i : (i \in every' <=> i \in every) => (Ending(i)' <=> Ending(i) \/ Ends(e, i))
  BY <1>1, <1>5, EventAppended DEF RuntimeTypes
<1>7. EventsInOrder'
  BY <1>1, <1>3, <1>5, OrderAppended DEF RuntimeTypes, RegistryInv
<1>8. RuntimeTypes'
  BY <1>1, <1>2, <1>3, <1>4, <1>6 DEF RuntimeTypes
<1>9. rows[new] = Absent
  BY <1>3, <1>4 DEF RegistryInv, RowsOK
<1>10. \A i \in Known : (Coming(i)' <=> Coming(i)) /\ (Ending(i)' <=> Ending(i)) /\ (i \in live' <=> i \in live)
  BY <1>1, <1>3, <1>5, <1>6 DEF Ends
<1>11. ~Ending(new)' /\ Coming(new)'
  <2>1. \A k \in 1..Len(events) : events[k].id \in Known
    BY DEF RegistryInv, EventsInOrder
  <2>2. /\ Len(events) \in Nat /\ Len(events') = Len(events) + 1
        /\ \A k \in 1..Len(events) : events'[k] = events[k]
        /\ events'[Len(events) + 1] = e
    BY <1>1, <1>5, Appends DEF RuntimeTypes
  <2>3. \A k \in 1..Len(events') : events'[k].id # new \/ events'[k].type = "created"
    BY <1>3, <1>5, <2>1, <2>2
  <2> QED
    BY <1>5, <1>6, <2>3 DEF Ending, Ends
<1>12. RowsOK'
  <2>1. ASSUME NEW i \in Known PROVE RowOK(i)'
    BY <1>10, <2>1 DEF RegistryInv, RowsOK, RowOK, attached, Due
  <2>2. RowOK(new)'
    BY <1>1, <1>9, <1>11 DEF RowOK
  <2>3. \A i \in ScheduleIds \ Known' : rows'[i] = Absent
    BY <1>3 DEF RegistryInv, RowsOK
  <2> QED
    BY <1>3, <2>1, <2>2, <2>3 DEF RowsOK
<1>13. ListingOK'
  <2>1. SUFFICES ASSUME listing.by # Absent PROVE need /\ listing.ids \subseteq Known' /\ \A i \in Known' : ListOK(i)'
    BY DEF ListingOK
  <2>2. need /\ listing.ids \subseteq Known /\ \A i \in Known : ListOK(i)
    BY <2>1 DEF RegistryInv, ListingOK
  <2>3. ASSUME NEW i \in Known PROVE ListOK(i)'
    BY <1>6, <1>10, <2>2, <2>3 DEF ListOK
  <2>4. ListOK(new)'
    BY <1>1, <1>3, <1>9, <2>2 DEF ListOK
  <2> QED
    BY <1>3, <2>2, <2>3, <2>4
<1> QED
  BY <1>0, <1>2, <1>3, <1>6, <1>7, <1>8, <1>9, <1>12, <1>13 DEF RegistryInv, Known

\* A schedule ends, and an event says so.
LEMMA DropKeeps ==
  ASSUME RuntimeTypes, RegistryTypes, RegistryInv, NEW j \in live, NEW e \in Notices, Ends(e, j),
         events' = Append(events, e), live' = live \ {j}, UNCHANGED <<every, made, rows, need, asks, listing, st>>
  PROVE  RuntimeTypes' /\ RegistryInv' /\ \A i, n : Announced(i, n) => Announced(i, n)'
<1>1. e.id = j /\ e.type # "created" /\ j \in Known /\ Known' = Known
  BY DEF Ends, RuntimeTypes, Known
<1>2. /\ events' \in Seq(Notices)
      /\ \A i, n : Announced(i, n) => Announced(i, n)'
      /\ \A i : Coming(i)' <=> Coming(i)
      /\ \A i : Ending(i)' <=> Ending(i) \/ Ends(e, i)
  BY <1>1, EventAppended DEF RuntimeTypes
<1>3. \A i : Ends(e, i) <=> i = j
  BY DEF Ends
<1>4. EventsInOrder'
  BY <1>1, OrderAppended DEF RuntimeTypes, RegistryInv
<1>5. RuntimeTypes'
  BY <1>1, <1>2 DEF RuntimeTypes, Known
<1>6. RowsOK'
  <2>1. ASSUME NEW i \in Known PROVE RowOK(i)'
    BY <1>2, <1>3, <2>1 DEF RegistryInv, RowsOK, RowOK, attached, Due
  <2> QED
    BY <1>1, <2>1 DEF RegistryInv, RowsOK
<1>7. ListingOK'
  <2>1. SUFFICES ASSUME listing.by # Absent PROVE need /\ listing.ids \subseteq Known /\ \A i \in Known : ListOK(i)'
    BY <1>1 DEF ListingOK
  <2>2. need /\ listing.ids \subseteq Known /\ \A i \in Known : ListOK(i)
    BY <2>1 DEF RegistryInv, ListingOK
  <2>3. ASSUME NEW i \in Known PROVE ListOK(i)'
    BY <1>2, <1>3, <2>2, <2>3 DEF ListOK
  <2> QED
    BY <2>2, <2>3
<1> QED
  BY <1>2, <1>4, <1>5, <1>6, <1>7 DEF RegistryInv

\* A recurring schedule fires and is armed again.
LEMMA RearmKeeps ==
  ASSUME RuntimeTypes, RegistryTypes, RegistryInv, NEW j \in live, j \in every,
         events' = events \o <<[type |-> "fired", id |-> j], [type |-> "rearmed", id |-> j]>>,
         UNCHANGED <<live, every, made, rows, need, asks, listing, st>>
  PROVE  RuntimeTypes' /\ RegistryInv' /\ \A i, n : Announced(i, n) => Announced(i, n)'
<1> DEFINE e == [type |-> "fired", id |-> j]
           f == [type |-> "rearmed", id |-> j]
<1>1. j \in Known /\ Known' = Known /\ j \in ScheduleIds
  BY KnownIds DEF RuntimeTypes, Known
<1>2. e \in Notices /\ f \in Notices /\ e.id = j /\ f.id = j /\ e.type = "fired" /\ f.type = "rearmed"
  BY <1>1 DEF Notices, Kinds
<1> HIDE DEF e, f
<1>3. events' = events \o <<e, f>>
  BY DEF e, f
<1>5. /\ events' \in Seq(Notices) /\ Len(events) \in Nat
      /\ \A k \in 1..Len(events) : k \in 1..Len(events') /\ events'[k] = events[k]
      /\ \A k \in 1..Len(events') : k \in 1..Len(events) \/ events'[k] \in {e, f}
  BY <1>2, <1>3, Pairs DEF RuntimeTypes
<1>6. /\ \A k \in 1..Len(events) : k \in 1..Len(events') /\ events'[k] = events[k]
      /\ \A k \in 1..Len(events') : k \in 1..Len(events) \/ (events'[k].id = j /\ events'[k].type \in {"fired", "rearmed"})
  BY <1>2, <1>5
<1>7. \A i : (Coming(i)' <=> Coming(i)) /\ (Ending(i)' <=> Ending(i)) /\ \A n : Announced(i, n) => Announced(i, n)'
  BY <1>6 DEF Coming, Ending, Ends, Announced
<1>8. EventsInOrder'
  <2>1. SUFFICES ASSUME NEW k \in 1..Len(events')
                 PROVE  /\ events'[k].id \in Known
                        /\ events'[k].type = "created" => \A l \in 1..(k - 1) : events'[l].id # events'[k].id
    BY <1>1 DEF EventsInOrder
  <2>2. CASE k \in 1..Len(events)
    <3>1. \A l \in 1..(k - 1) : l \in 1..Len(events)
      BY <1>5, <2>2
    <3> QED
      BY <1>6, <2>2, <3>1 DEF RegistryInv, EventsInOrder
  <2>3. CASE k \notin 1..Len(events)
    BY <1>1, <1>6, <2>3
  <2> QED
    BY <2>2, <2>3
<1>9. RuntimeTypes'
  BY <1>1, <1>5 DEF RuntimeTypes
<1>10. RowsOK'
  BY <1>1, <1>7 DEF RegistryInv, RowsOK, RowOK, attached, Due
<1>11. ListingOK'
  BY <1>1, <1>7 DEF RegistryInv, ListingOK, ListOK
<1> QED
  BY <1>7, <1>8, <1>9, <1>10, <1>11 DEF RegistryInv

\* How an event changes a row.
LEMMA EventApplied ==
  ASSUME RuntimeTypes, RegistryTypes, NEW e \in Notices, rows' = ApplyScheduleEvent(e)
  PROVE  /\ rows' \in [ScheduleIds -> States]
         /\ \A i \in ScheduleIds :
              /\ rows[i] # Absent => rows'[i] # Absent
              /\ rows[i] \in Final => rows'[i] = rows[i]
              /\ e.type = "created" /\ e.id = i => rows'[i] # Absent
              /\ rows[i] = Absent /\ ~(e.type = "created" /\ e.id = i) => rows'[i] = Absent
              /\ Ends(e, i) /\ rows[i] # Absent => rows'[i] \in Final
              /\ rows[i] \in {Absent, "active"} /\ ~Ends(e, i) => rows'[i] \in {Absent, "active"}
              /\ rows[i] = "unknown" /\ ~Ends(e, i) => rows'[i] \in {"unknown", "active"}
<1>1. e.id \in ScheduleIds /\ e.type \in Kinds
  BY DEF Notices
<1>2. rows \in [ScheduleIds -> States]
  BY DEF RegistryTypes
<1>3. CASE e.type = "created"
  <2>1. rows' = [rows EXCEPT ![e.id] = IF @ \in Final THEN @ ELSE "active"]
    BY <1>3 DEF ApplyScheduleEvent
  <2> QED
    BY <1>1, <1>2, <1>3, <2>1 DEF States, Final, Absent, Ends
<1>4. CASE e.type = "cancelled"
  <2>1. rows' = [rows EXCEPT ![e.id] = IF @ \in {Absent, "triggered"} THEN @ ELSE "cancelled"]
    BY <1>4 DEF ApplyScheduleEvent
  <2> QED
    BY <1>1, <1>2, <1>4, <2>1 DEF States, Final, Absent, Ends
<1>5. CASE e.type = "rearmed"
  <2>1. rows' = [rows EXCEPT ![e.id] = IF @ \in {Absent} \cup Final THEN @ ELSE "active"]
    BY <1>5 DEF ApplyScheduleEvent
  <2> QED
    BY <1>1, <1>2, <1>5, <2>1 DEF States, Final, Absent, Ends
<1>6. CASE e.type = "fired"
  <2>1. rows' = [rows EXCEPT ![e.id] = IF @ \in {"active", "unknown"} /\ e.id \notin every THEN "triggered" ELSE @]
    BY <1>6 DEF ApplyScheduleEvent
  <2> QED
    BY <1>1, <1>2, <1>6, <2>1 DEF States, Final, Absent, Ends
<1> QED
  BY <1>1, <1>3, <1>4, <1>5, <1>6 DEF Kinds

\* A row once there stays, and one that is final does not change.
RowsAdvance == \A i \in ScheduleIds : (rows[i] # Absent => rows'[i] # Absent) /\ (rows[i] \in Final => rows'[i] = rows[i])

\* The reducer takes an event.
LEMMA DeliverKeeps ==
  ASSUME RuntimeTypes, RegistryTypes, RegistryInv, reduce_event
  PROVE  /\ RuntimeTypes' /\ RegistryTypes' /\ RegistryInv' /\ RowsAdvance /\ listing'.by = listing.by
         /\ \A i \in Known : Announced(i, listing.behind) => rows'[i] # Absent \/ Announced(i, listing.behind)'
<1>0. PICK e : e = Head(events)
  OBVIOUS
<1>1. /\ events # <<>> /\ events' = Tail(events) /\ rows' = ApplyScheduleEvent(e)
      /\ \/ asks' = IF AsksSnapshot(e) THEN asks + 1 ELSE asks
         \/ listing.by = Absent /\ asks' = asks
      /\ listing' = [listing EXCEPT !.behind = IF @ = 0 THEN 0 ELSE @ - 1]
      /\ UNCHANGED <<live, every, made, need, cancel, st>>
  BY <1>0 DEF reduce_event, Runtime
<1>2. /\ events' \in Seq(Notices) /\ e \in Notices /\ e.id \in Known
      /\ EventsInOrder'
      /\ \A i : Coming(i)' => Coming(i) /\ i # e.id
      /\ \A i : Coming(i) /\ ~(e.type = "created" /\ e.id = i) => Coming(i)'
      /\ \A i : Ending(i)' => Ending(i)
      /\ \A i : Ending(i) => Ends(e, i) \/ Ending(i)'
      /\ \A i : Ends(e, i) => Ending(i)
      /\ \A i : \A n \in Nat : Announced(i, n) => (e.type = "created" /\ e.id = i) \/ (n > 0 /\ Announced(i, n - 1)')
      /\ \A i : ~Announced(i, 0)
  BY <1>0, <1>1, EventTaken DEF RuntimeTypes, RegistryInv
<1>3. /\ rows' \in [ScheduleIds -> States]
      /\ \A i \in ScheduleIds :
           /\ rows[i] # Absent => rows'[i] # Absent
           /\ rows[i] \in Final => rows'[i] = rows[i]
           /\ e.type = "created" /\ e.id = i => rows'[i] # Absent
           /\ rows[i] = Absent /\ ~(e.type = "created" /\ e.id = i) => rows'[i] = Absent
           /\ Ends(e, i) /\ rows[i] # Absent => rows'[i] \in Final
           /\ rows[i] \in {Absent, "active"} /\ ~Ends(e, i) => rows'[i] \in {Absent, "active"}
           /\ rows[i] = "unknown" /\ ~Ends(e, i) => rows'[i] \in {"unknown", "active"}
  BY <1>1, <1>2, EventApplied
<1>4. Known \subseteq ScheduleIds /\ Known' = Known
  BY <1>1, KnownIds DEF Known
<1>5. RuntimeTypes'
  BY <1>1, <1>2, <1>4 DEF RuntimeTypes
<1>6. /\ listing'.by = listing.by /\ listing'.ids = listing.ids
      /\ listing'.behind = IF listing.behind = 0 THEN 0 ELSE listing.behind - 1
      /\ listing'.fresh = listing.fresh
      /\ listing.behind \in Nat
  BY <1>1 DEF RegistryTypes
<1>a. /\ asks' \in Nat /\ (asks > 0 => asks' > 0)
      /\ listing.by # Absent /\ e.type = "created" => asks' > 0
  BY <1>1 DEF RegistryTypes, AsksSnapshot
<1>b. Due => Due'
  BY <1>1, <1>a DEF Due
<1>7. RegistryTypes'
  <2>1. listing' \in [by : {Absent, "loop", "create", "cancel", "attach"}, ids : SUBSET ScheduleIds, fresh : BOOLEAN, behind : Nat]
    <3>2. PICK n \in Nat : n = IF listing.behind = 0 THEN 0 ELSE listing.behind - 1
      BY <1>6
    <3>3. listing' = [listing EXCEPT !.behind = n]
      BY <1>1, <3>2
    <3> QED
      BY <3>3 DEF RegistryTypes
  <2> QED
    BY <1>1, <1>3, <1>a, <2>1 DEF RegistryTypes
<1>8. ASSUME NEW i \in Known, rows[i] \in Final \/ Ending(i) PROVE rows'[i] \in Final \/ Ending(i)'
  <2>1. CASE rows[i] \in Final
    BY <1>3, <1>4, <2>1
  <2>2. CASE Ends(e, i)
    <3>1. e.id = i /\ e.type # "created"
      BY <2>2 DEF Ends
    <3>2. ~Coming(i)
      BY <1>2, <3>1
    <3>3. rows[i] # Absent
      BY <3>2 DEF RegistryInv, RowsOK, RowOK
    <3> QED
      BY <1>3, <1>4, <2>2, <3>3
  <2> QED
    BY <1>2, <1>8, <2>1, <2>2
<1>9. ASSUME NEW i \in Known, Announced(i, listing.behind) PROVE rows'[i] # Absent \/ Announced(i, listing.behind)'
  <2>0. PICK n : n = listing.behind
    OBVIOUS
  <2>1. n \in Nat /\ Announced(i, n)
    BY <1>6, <1>9, <2>0
  <2>2. CASE e.type = "created" /\ e.id = i
    BY <1>3, <1>4, <2>2
  <2>3. CASE n > 0 /\ Announced(i, n - 1)'
    <3>1. listing'.behind = n - 1
      BY <1>6, <2>0, <2>1, <2>3
    <3> QED
      BY <2>3, <3>1
  <2> QED
    BY <1>2, <2>1, <2>2, <2>3
<1>10. ASSUME NEW i \in Known PROVE RowOK(i)'
  <2>0. RowOK(i) /\ i \in ScheduleIds
    BY <1>4 DEF RegistryInv, RowsOK
  <2>1. rows'[i] = Absent <=> Coming(i)'
    BY <1>2, <1>3, <2>0 DEF RowOK
  <2>2. i \in live' => (rows'[i] \in {Absent, "active"} \/ (rows'[i] = "unknown" /\ Due')) /\ ~Ending(i)'
    BY <1>1, <1>2, <1>3, <1>b, <2>0 DEF RowOK
  <2>3. attached' /\ i \notin live' => rows'[i] \in Final \/ Ending(i)'
    BY <1>1, <1>8, <2>0 DEF RowOK, attached
  <2> QED
    BY <2>1, <2>2, <2>3 DEF RowOK
<1>11. RowsOK'
  <2>1. \A i \in ScheduleIds \ Known : rows'[i] = Absent
    BY <1>2, <1>3 DEF RegistryInv, RowsOK
  <2> QED
    BY <1>4, <1>10, <2>1 DEF RowsOK
<1>12. ListingOK'
  <2>1. SUFFICES ASSUME listing.by # Absent PROVE need' /\ listing.ids \subseteq Known /\ \A i \in Known : ListOK(i)'
    BY <1>4, <1>6 DEF ListingOK
  <2>2. need /\ listing.ids \subseteq Known /\ \A i \in Known : ListOK(i)
    BY <2>1 DEF RegistryInv, ListingOK
  <2>3. ASSUME NEW i \in Known PROVE ListOK(i)'
    <3>0. ListOK(i) /\ i \in ScheduleIds
      BY <1>4, <2>2
    <3>1. i \in listing'.ids => rows'[i] # Absent \/ Announced(i, listing.behind)'
      BY <1>3, <1>6, <1>9, <3>0 DEF ListOK
    <3>2. i \in listing'.ids \ live' => rows'[i] \in Final \/ Ending(i)'
      BY <1>1, <1>6, <1>8, <3>0 DEF ListOK
    <3>3. i \in live' \ listing'.ids => rows'[i] = Absent \/ ~listing'.fresh \/ asks' > 0
      BY <1>1, <1>3, <1>6, <1>a, <2>1, <3>0 DEF ListOK
    <3>4. listing'.by = "attach" /\ i \notin live' \cup listing'.ids => rows'[i] # Absent \/ Ending(i)'
      <4>1. Absent \notin Final
        BY DEF Absent, Final
      <4> QED
        BY <1>1, <1>3, <1>6, <1>8, <3>0, <4>1 DEF ListOK
    <3> QED
      BY <3>1, <3>2, <3>3, <3>4 DEF ListOK
  <2> QED
    BY <1>1, <2>2, <2>3
<1>13. RowsAdvance
  BY <1>3 DEF RowsAdvance
<1> QED
  BY <1>2, <1>5, <1>6, <1>7, <1>9, <1>11, <1>12, <1>13 DEF RegistryInv

\* A query takes what the runtime has; one for an attach waits until no event is under way.
LEMMA QueryKeeps ==
  ASSUME RuntimeTypes, RegistryTypes, RegistryInv, NEW who \in {"loop", "create", "cancel", "attach"}, Query(who),
         who = "attach" => events = <<>>, UNCHANGED <<live, every, made, asks, events, rows, st>>
  PROVE  /\ RegistryInv'
         /\ listing' \in [by : {Absent, "loop", "create", "cancel", "attach"}, ids : SUBSET ScheduleIds, fresh : BOOLEAN, behind : Nat]
         /\ listing.by = Absent /\ listing'.by = who
         /\ \A i \in Known : rows[i] # Absent \/ Announced(i, listing.behind)'
<1>1. /\ listing.by = Absent /\ need'
      /\ listing' = [by |-> who, ids |-> live, fresh |-> TRUE, behind |-> Len(events)]
  BY DEF Query
<1>2. Known' = Known /\ EventsInOrder'
  BY DEF RegistryInv, EventsInOrder, Known
<1>3. \A i : (Coming(i)' <=> Coming(i)) /\ (Ending(i)' <=> Ending(i))
  BY DEF Coming, Ending, Ends
<1>4. RowsOK'
  BY <1>1, <1>2, <1>3 DEF RegistryInv, RowsOK, RowOK, attached, Due
<1>5. Len(events) \in Nat /\ live \subseteq ScheduleIds /\ live \subseteq Known
  BY KnownIds DEF RuntimeTypes
<1>6. ASSUME NEW i \in Known PROVE rows[i] # Absent \/ Announced(i, listing.behind)'
  <2>1. listing'.behind = Len(events)
    BY <1>1
  <2>2. rows[i] = Absent => Coming(i)
    BY DEF RegistryInv, RowsOK, RowOK
  <2>3. Coming(i) => Announced(i, listing.behind)'
    BY <1>5, <2>1 DEF Coming, Announced
  <2> QED
    BY <2>2, <2>3
<1>7. ASSUME NEW i \in Known PROVE ListOK(i)'
  <2>1. listing'.by = "attach" => ~Coming(i)
    <3>1. SUFFICES ASSUME events = <<>> PROVE ~Coming(i)
      BY <1>1
    <3> QED
      BY <3>1 DEF Coming
  <2>2. listing'.by = "attach" => rows[i] # Absent
    BY <2>1 DEF RegistryInv, RowsOK, RowOK
  <2> QED
    BY <1>1, <1>6, <2>2 DEF ListOK
<1>8. ListingOK'
  BY <1>1, <1>2, <1>5, <1>7 DEF ListingOK
<1>9. listing' \in [by : {Absent, "loop", "create", "cancel", "attach"}, ids : SUBSET ScheduleIds, fresh : BOOLEAN, behind : Nat]
  BY <1>1, <1>5
<1> QED
  BY <1>1, <1>2, <1>4, <1>6, <1>8, <1>9 DEF RegistryInv

\* A snapshot is merged.
LEMMA CommitKeeps ==
  ASSUME RuntimeTypes, RegistryTypes, RegistryInv, listing.by # Absent, Commit, UNCHANGED <<live, every, made, asks, events>>,
         st' = "up" => st = "up" \/ (listing.by = "attach" /\ ~need' /\ \A i \in ScheduleIds : rows'[i] # "unknown")
  PROVE  RegistryInv' /\ rows' \in [ScheduleIds -> States] /\ listing' = NoListing /\ RowsAdvance
<1>1. listing.behind = 0 /\ rows' = Merged(listing) /\ need' = (need /\ ~listing.fresh) /\ listing' = NoListing
  BY DEF Commit
<1>2. \A i \in ScheduleIds :
        rows'[i] = IF i \in listing.ids THEN (IF rows[i] \in Final THEN rows[i] ELSE "active")
                   ELSE IF listing.fresh /\ rows[i] = "active" THEN "unknown" ELSE rows[i]
  BY <1>1 DEF Merged
<1>3. rows' \in [ScheduleIds -> States]
  <2>1. rows' = [i \in ScheduleIds |-> IF i \in listing.ids THEN (IF rows[i] \in Final THEN rows[i] ELSE "active")
                   ELSE IF listing.fresh /\ rows[i] = "active" THEN "unknown" ELSE rows[i]]
    BY <1>1 DEF Merged
  <2>2. \A i \in ScheduleIds : rows[i] \in States
    BY DEF RegistryTypes
  <2> QED
    BY <2>1, <2>2 DEF States
<1>4. RowsAdvance
  BY <1>2 DEF RowsAdvance, Final, Absent
<1>5. Known' = Known /\ Known \subseteq ScheduleIds /\ EventsInOrder'
  BY KnownIds DEF RegistryInv, EventsInOrder, Known
<1>6. \A i : (Coming(i)' <=> Coming(i)) /\ (Ending(i)' <=> Ending(i)) /\ ~Announced(i, 0)
  BY NothingAnnounced DEF Coming, Ending, Ends, RuntimeTypes
<1>7. need /\ listing.ids \subseteq Known /\ \A i \in Known : ListOK(i)
  BY DEF RegistryInv, ListingOK
<1>8. ASSUME NEW i \in Known PROVE RowOK(i)'
  <2>0. RowOK(i) /\ ListOK(i) /\ i \in ScheduleIds /\ rows[i] \in States
    BY <1>5, <1>7 DEF RegistryInv, RowsOK, RegistryTypes
  <2>1. i \in listing.ids => rows[i] # Absent
    BY <1>1, <1>6, <2>0 DEF ListOK
  <2>2. rows'[i] = Absent <=> rows[i] = Absent
    BY <1>2, <2>0, <2>1 DEF Absent, Final
  <2>3. i \in live => rows'[i] \in {Absent, "active"} \/ (rows'[i] = "unknown" /\ Due')
    <3>1. CASE i \in listing.ids
      BY <1>2, <2>0, <2>1, <3>1 DEF RowOK, Absent, Final
    <3>2. CASE i \notin listing.ids /\ ~listing.fresh
      <4>1. rows'[i] = rows[i] /\ Due'
        BY <1>1, <1>2, <1>7, <2>0, <3>2 DEF Due
      <4> QED
        BY <2>0, <4>1 DEF RowOK
    <3>3. CASE i \notin listing.ids /\ listing.fresh
      <4>1. i \in live => rows[i] = Absent \/ Due'
        BY <2>0, <3>3 DEF ListOK, Due
      <4>2. rows'[i] = IF rows[i] = "active" THEN "unknown" ELSE rows[i]
        BY <1>2, <2>0, <3>3
      <4> QED
        BY <2>0, <4>1, <4>2 DEF RowOK, Absent
    <3> QED
      BY <3>1, <3>2, <3>3
  <2>4. CASE st' = "up" /\ st = "up"
    <3>1. i \notin live => rows'[i] \in Final \/ Ending(i)
      BY <1>2, <2>0, <2>4 DEF RowOK, attached, Final
    <3> QED
      BY <1>6, <2>0, <2>2, <2>3, <3>1 DEF RowOK
  <2>5. CASE st' = "up" /\ st # "up"
    <3>1. listing.by = "attach" /\ ~need' /\ rows'[i] # "unknown"
      BY <2>0, <2>5
    <3>2. listing.fresh
      BY <1>1, <1>7, <3>1
    <3>3. i \notin live => rows'[i] \in Final \/ Ending(i)
      <4>1. CASE i \in listing.ids
        BY <1>2, <2>0, <4>1 DEF ListOK
      <4>2. CASE i \notin listing.ids
        <5>1. rows[i] # "active" /\ rows[i] # "unknown" /\ rows'[i] = rows[i]
          BY <1>2, <2>0, <3>1, <3>2, <4>2
        <5>2. rows[i] \in Final \/ rows[i] = Absent
          BY <2>0, <5>1 DEF States
        <5> QED
          BY <2>0, <3>1, <4>2, <5>1, <5>2 DEF ListOK
      <4> QED
        BY <4>1, <4>2
    <3> QED
      BY <1>6, <2>0, <2>2, <2>3, <3>3 DEF RowOK
  <2>6. CASE st' # "up"
    BY <1>6, <2>0, <2>2, <2>3, <2>6 DEF RowOK, attached
  <2> QED
    BY <2>4, <2>5, <2>6
<1>9. \A i \in ScheduleIds \ Known : rows'[i] = Absent
  <2>1. SUFFICES ASSUME NEW i \in ScheduleIds \ Known PROVE rows'[i] = Absent
    OBVIOUS
  <2>2. rows[i] = Absent /\ i \notin listing.ids
    BY <1>7 DEF RegistryInv, RowsOK
  <2> QED
    BY <1>2, <2>2 DEF Absent
<1>10. RowsOK'
  BY <1>5, <1>8, <1>9 DEF RowsOK
<1>11. ListingOK'
  BY <1>1 DEF ListingOK, NoListing
<1> QED
  BY <1>1, <1>3, <1>4, <1>5, <1>10, <1>11 DEF RegistryInv

\* The receipt of a cancellation
LEMMA ReceiptKeeps ==
  ASSUME RuntimeTypes, RegistryTypes, RegistryInv, CancelOK, cancelled
  PROVE  RegistryInv' /\ rows' \in [ScheduleIds -> States] /\ RowsAdvance
<1>0. PICK j : j = cancel.id
  OBVIOUS
<1>1. /\ cancel.pc = "ok" /\ rows' = [rows EXCEPT ![j] = IF @ \in {Absent, "triggered"} THEN @ ELSE "cancelled"]
      /\ UNCHANGED <<live, every, made, events, need, asks, listing, st>>
  BY <1>0 DEF cancelled, Runtime
<1>2. j \in Known /\ j \notin live /\ Known \subseteq ScheduleIds /\ Known' = Known /\ EventsInOrder'
  BY <1>0, <1>1, KnownIds DEF CancelOK, RegistryInv, EventsInOrder, Known
<1>3. rows \in [ScheduleIds -> States]
  BY DEF RegistryTypes
<1>4. /\ rows' \in [ScheduleIds -> States]
      /\ \A i \in ScheduleIds : i # j => rows'[i] = rows[i]
      /\ rows'[j] = Absent <=> rows[j] = Absent
      /\ rows[j] \in Final => rows'[j] = rows[j]
  BY <1>1, <1>2, <1>3 DEF States, Final, Absent
<1>5. \A i : (Coming(i)' <=> Coming(i)) /\ (Ending(i)' <=> Ending(i)) /\ \A n : Announced(i, n)' <=> Announced(i, n)
  BY <1>1 DEF Coming, Ending, Ends, Announced
<1>6. ASSUME NEW i \in Known PROVE RowOK(i)'
  BY <1>1, <1>2, <1>4, <1>5, <1>6 DEF RegistryInv, RowsOK, RowOK, attached, Due
<1>7. RowsOK'
  BY <1>2, <1>4, <1>6 DEF RegistryInv, RowsOK
<1>8. ListingOK'
  <2>1. SUFFICES ASSUME listing.by # Absent PROVE need' /\ listing.ids \subseteq Known /\ \A i \in Known : ListOK(i)'
    BY <1>1, <1>2 DEF ListingOK
  <2>2. need' /\ listing.ids \subseteq Known /\ \A i \in Known : ListOK(i)
    BY <1>1, <2>1 DEF RegistryInv, ListingOK
  <2>3. ASSUME NEW i \in Known PROVE ListOK(i)'
    BY <1>1, <1>2, <1>4, <1>5, <2>2, <2>3 DEF ListOK
  <2> QED
    BY <2>2, <2>3
<1>9. RowsAdvance
  BY <1>4 DEF RowsAdvance
<1> QED
  BY <1>2, <1>4, <1>7, <1>8, <1>9 DEF RegistryInv

\* The states of a create call that lists
LEMMA AskingFacts ==
  /\ DOMAIN Asking = {"list", "seek", "check"} /\ DOMAIN Asked = {"listing", "seeking", "checking"}
  /\ Asking["list"] = "listing" /\ Asking["seek"] = "seeking" /\ Asking["check"] = "checking"
  /\ Asked["listing"] = "listed" /\ Asked["seeking"] = "sought" /\ Asked["checking"] = "checked"
BY DEF Asking, Asked

\* A cancellation stands as long as no schedule comes back.
LEMMA CancelStands ==
  ASSUME CancelOK, cancel' = cancel \/ cancel'.pc # "ok", Known \subseteq Known', \A i \in Known : i \in live' => i \in live
  PROVE  CancelOK'
BY DEF CancelOK

\* The create calls stand while the registry moves on.
LEMMA CallsStand ==
  ASSUME RuntimeTypes, CreateInv, UNCHANGED <<made, act, base, op, pc, again>>, RowsAdvance,
         listing.by = "create" =>
           /\ listing'.by = "create"
           /\ \A i \in Known : Announced(i, listing.behind) => rows'[i] # Absent \/ Announced(i, listing.behind)'
  PROVE  CreateInv'
<1>1. Known' = Known /\ Known \subseteq ScheduleIds
  BY KnownIds DEF Known
<1>2. MadeOK'
  BY <1>1 DEF CreateInv, MadeOK, CreatedOnce
<1>3. ASSUME NEW a \in Actions PROVE CallOK(a)' /\ BaseOK(a)'
  <2>1. CallOK(a) /\ BaseOK(a)
    BY DEF CreateInv
  <2>2. CallOK(a)'
    BY <1>1, <2>1 DEF CallOK
  <2>3. BaseOK(a)'
    <3>1. SUFFICES ASSUME a \notin again, NEW i \in Foreign(a)
                   PROVE  /\ pc[a] = "listing" => rows'[i] # Absent \/ Announced(i, listing.behind)'
                          /\ pc[a] = "listed" => rows'[i] # Absent
                          /\ pc[a] \in {"invoke", "check", "checking", "checked"} => i \in base[a] \/ rows'[i] \in Final
      BY DEF BaseOK, Foreign, Known
    <3>2. i \in Known /\ i \in ScheduleIds
      BY <1>1 DEF Foreign
    <3>3. /\ pc[a] = "listing" => rows[i] # Absent \/ Announced(i, listing.behind)
          /\ pc[a] = "listed" => rows[i] # Absent
          /\ pc[a] \in {"invoke", "check", "checking", "checked"} => i \in base[a] \/ rows[i] \in Final
      BY <2>1, <3>1 DEF BaseOK
    <3>4. (rows[i] # Absent => rows'[i] # Absent) /\ (rows[i] \in Final => rows'[i] \in Final)
      BY <3>2 DEF RowsAdvance
    <3>5. pc[a] = "listing" => listing.by = "create"
      BY <2>1 DEF CallOK
    <3> QED
      BY <3>2, <3>3, <3>4, <3>5
  <2> QED
    BY <2>2, <2>3
<1> QED
  BY <1>2, <1>3 DEF CreateInv

\* While one call runs, the others do not.
LEMMA OthersStand ==
  ASSUME RuntimeTypes, CreateTypes, CreateInv, NEW a \in Actions, NEW p \in Calls, pc[a] # "idle" \/ LockFree, Step(a, p),
         \A c \in Actions \ {a} : act'[c] = act[c],
         again \subseteq again', Known \subseteq Known', \A i \in Known : made'[i] = made[i]
  PROVE  /\ pc' \in [Actions -> Calls] /\ pc'[a] = p
         /\ \A c \in Actions \ {a} : pc'[c] = "idle" /\ CallOK(c)' /\ BaseOK(c)'
<1>1. pc' \in [Actions -> Calls] /\ pc'[a] = p /\ \A c \in Actions \ {a} : pc'[c] = pc[c]
  BY DEF Step, CreateTypes
<1>2. \A c \in Actions \ {a} : pc[c] = "idle"
  BY DEF LockFree, CreateInv, CallOK
<1>3. ASSUME NEW c \in Actions \ {a} PROVE CallOK(c)' /\ BaseOK(c)'
  <2>1. CallOK(c)
    BY DEF CreateInv
  <2>2. pc'[c] = "idle"
    BY <1>1, <1>2
  <2>3. act'[c].id # 0 => act'[c].id \in Known' /\ (c \in again' \/ made'[act'[c].id] \in {c, 0})
    BY <2>1 DEF CallOK
  <2>4. CallOK(c)'
    BY <2>2, <2>3 DEF CallOK
  <2>5. BaseOK(c)'
    BY <2>2 DEF BaseOK
  <2> QED
    BY <2>4, <2>5
<1> QED
  BY <1>1, <1>2, <1>3

\* Who made what does not change by itself.
LEMMA MadeStands ==
  ASSUME MadeOK, UNCHANGED <<made, op>> PROVE MadeOK'
BY DEF MadeOK, CreatedOnce, Known

\* Types of what does not change
LEMMA TypesStand ==
  /\ RuntimeTypes /\ UNCHANGED <<live, every, made, events>> => RuntimeTypes'
  /\ RegistryTypes /\ UNCHANGED <<rows, asks, listing, cancel, st>> => RegistryTypes'
  /\ CreateTypes /\ UNCHANGED <<act, base, op, pc>> => CreateTypes'
  /\ UNCHANGED rows => RowsAdvance
BY DEF RuntimeTypes, RegistryTypes, CreateTypes, Known, RowsAdvance

\* What the steps leave of a call's own invariant to be shown
LEMMA OneCall ==
  ASSUME RuntimeTypes, CreateTypes, CreateInv, NEW a \in Actions, NEW p \in Calls, pc[a] # "idle" \/ LockFree, Step(a, p),
         \A c \in Actions \ {a} : act'[c] = act[c],
         again \subseteq again', Known \subseteq Known', \A i \in Known : made'[i] = made[i],
         MadeOK', BaseOK(a)',
         p \in {"listing", "seeking", "checking"} => listing'.by = "create",
         p \in {"seek", "seeking", "sought"} => a \in again',
         act'[a].id # 0 => act'[a].id \in Known' /\ (a \in again' \/ made'[act'[a].id] \in {a, 0})
  PROVE  CreateInv' /\ pc' \in [Actions -> Calls]
<1>1. /\ pc' \in [Actions -> Calls] /\ pc'[a] = p
      /\ \A c \in Actions \ {a} : pc'[c] = "idle" /\ CallOK(c)' /\ BaseOK(c)'
  BY OthersStand
<1>2. CallOK(a)'
  BY <1>1 DEF CallOK
<1> QED
  BY <1>1, <1>2 DEF CreateInv
-----------------------------------------------------------------------------
\* The invariant holds at the start.
LEMMA SchedulesInitHolds == SchedulesInit => ScheduleInv
<1> SUFFICES ASSUME SchedulesInit PROVE ScheduleInv
  OBVIOUS
<1>1. Len(made) = 0 /\ Len(events) = 0 /\ Known = {} /\ DOMAIN made = {}
  BY DEF SchedulesInit, Known
<1>2. ScheduleTypes
  BY <1>1, SchedulesAssumption
     DEF SchedulesInit, ScheduleTypes, RuntimeTypes, RegistryTypes, CreateTypes, NoListing, NoCancel, States, Calls, Gone, ScheduleIds
<1>3. RegistryInv
  BY <1>1 DEF SchedulesInit, RegistryInv, EventsInOrder, RowsOK, ListingOK, NoListing
<1>4. CancelOK
  BY DEF SchedulesInit, CancelOK, NoCancel
<1>5. CreateInv
  <2>1. MadeOK
    BY <1>1 DEF MadeOK, CreatedOnce
  <2>2. ASSUME NEW a \in Actions PROVE CallOK(a) /\ BaseOK(a)
    <3>1. pc[a] = "idle" /\ act[a].id = 0
      BY DEF SchedulesInit
    <3> QED
      BY <3>1 DEF CallOK, BaseOK
  <2> QED
    BY <2>1, <2>2 DEF CreateInv
<1> QED
  BY <1>2, <1>3, <1>4, <1>5 DEF ScheduleInv

\* create_runtime_schedule begins.
LEMMA CreateKeeps ==
  ASSUME ScheduleInv, NEW a \in Actions, create_runtime_schedule(a) PROVE ScheduleInv'
<1>1. PICK p : p = IF act[a].st = Absent THEN "list" ELSE "seek"
  OBVIOUS
<1>2. /\ LockFree /\ Step(a, p) /\ again' = IF act[a].st = Absent THEN again ELSE again \cup {a}
      /\ UNCHANGED <<live, every, made, rows, need, asks, listing, events, act, base, op, cancel, st>>
  BY <1>1 DEF create_runtime_schedule, Runtime, Registry
<1>3. p \in Calls /\ p \in {"list", "seek"} /\ (p = "seek" => a \in again') /\ again \subseteq again'
  BY <1>1, <1>2 DEF Calls
<1>4. RuntimeTypes /\ RegistryTypes /\ CreateTypes /\ RegistryInv /\ CancelOK /\ CreateInv /\ MadeOK /\ CallOK(a)
  BY DEF ScheduleInv, ScheduleTypes, CreateInv
<1>5. RegistryInv' /\ RuntimeTypes' /\ RegistryTypes' /\ MadeOK'
  BY <1>2, <1>4, RegistryStands, TypesStand, MadeStands
<1>6. Known' = Known /\ CancelOK'
  BY <1>2, <1>4, CancelStands DEF Known
<1>7. pc'[a] = p
  BY <1>2, <1>4 DEF Step, CreateTypes
<1>8. BaseOK(a)'
  BY <1>3, <1>7 DEF BaseOK
<1>9. act'[a].id # 0 => act'[a].id \in Known' /\ (a \in again' \/ made'[act'[a].id] \in {a, 0})
  BY <1>2, <1>3, <1>4, <1>6 DEF CallOK
<1>10. CreateInv' /\ pc' \in [Actions -> Calls]
  BY <1>2, <1>3, <1>4, <1>5, <1>6, <1>8, <1>9, OneCall
<1>11. CreateTypes'
  BY <1>2, <1>4, <1>10 DEF CreateTypes
<1> QED
  BY <1>5, <1>6, <1>10, <1>11 DEF ScheduleInv, ScheduleTypes

\* A create call asks for a snapshot.
LEMMA ListKeeps ==
  ASSUME ScheduleInv, NEW a \in Actions, list(a) PROVE ScheduleInv'
<1>1. /\ pc[a] \in {"list", "seek", "check"}
      /\ \/ Query("create") /\ Step(a, Asking[pc[a]])
         \/ Step(a, "idle") /\ UNCHANGED <<need, listing>>
      /\ UNCHANGED <<live, every, made, rows, asks, events, act, base, op, again, cancel, st>>
  BY AskingFacts DEF list, Runtime
<1>2. RuntimeTypes /\ RegistryTypes /\ CreateTypes /\ RegistryInv /\ CancelOK /\ CreateInv /\ MadeOK /\ CallOK(a) /\ BaseOK(a)
  BY DEF ScheduleInv, ScheduleTypes, CreateInv
<1>3. RuntimeTypes' /\ MadeOK'
  BY <1>1, <1>2, TypesStand, MadeStands
<1>4. Known' = Known /\ CancelOK'
  BY <1>1, <1>2, CancelStands DEF Known
<1>5. act'[a].id # 0 => act'[a].id \in Known' /\ (a \in again' \/ made'[act'[a].id] \in {a, 0})
  BY <1>1, <1>2, <1>4 DEF CallOK
<1>6. CASE Query("create") /\ Step(a, Asking[pc[a]])
  <2>1. PICK p : p = Asking[pc[a]]
    OBVIOUS
  <2>2. p \in Calls /\ p \in {"listing", "seeking", "checking"} /\ Step(a, p)
        /\ (p = "listing" => pc[a] = "list") /\ (p = "checking" => pc[a] = "check") /\ (p = "seeking" => pc[a] = "seek")
    BY <1>1, <1>6, <2>1, AskingFacts DEF Calls
  <2>3. /\ RegistryInv'
        /\ listing' \in [by : {Absent, "loop", "create", "cancel", "attach"}, ids : SUBSET ScheduleIds, fresh : BOOLEAN, behind : Nat]
        /\ listing'.by = "create"
        /\ \A i \in Known : rows[i] # Absent \/ Announced(i, listing.behind)'
    BY <1>1, <1>2, <1>6, QueryKeeps
  <2>4. RegistryTypes'
    BY <1>1, <1>2, <2>3 DEF RegistryTypes
  <2>5. pc'[a] = p
    BY <1>2, <2>2 DEF Step, CreateTypes
  <2>6. BaseOK(a)'
    <3>1. SUFFICES ASSUME a \notin again, NEW i \in Foreign(a)
                   PROVE  /\ p = "listing" => rows[i] # Absent \/ Announced(i, listing.behind)'
                          /\ p = "checking" => i \in base[a] \/ rows[i] \in Final
      BY <1>1, <1>4, <2>2, <2>5 DEF BaseOK, Foreign
    <3> QED
      BY <1>2, <2>2, <2>3, <3>1 DEF BaseOK, Foreign
  <2>7. p \in {"seek", "seeking", "sought"} => a \in again'
    BY <1>1, <1>2, <2>2 DEF CallOK
  <2>8. CreateInv' /\ pc' \in [Actions -> Calls]
    BY <1>1, <1>2, <1>3, <1>4, <1>5, <2>2, <2>3, <2>6, <2>7, OneCall
  <2>9. CreateTypes'
    BY <1>1, <1>2, <2>8 DEF CreateTypes
  <2> QED
    BY <1>3, <1>4, <2>3, <2>4, <2>8, <2>9 DEF ScheduleInv, ScheduleTypes
<1>7. CASE Step(a, "idle") /\ UNCHANGED <<need, listing>>
  <2>1. RegistryInv' /\ RegistryTypes'
    BY <1>1, <1>2, <1>7, RegistryStands, TypesStand
  <2>2. pc'[a] = "idle" /\ "idle" \in Calls
    BY <1>2, <1>7 DEF Step, CreateTypes, Calls
  <2>3. BaseOK(a)'
    BY <2>2 DEF BaseOK
  <2>4. CreateInv' /\ pc' \in [Actions -> Calls]
    BY <1>1, <1>2, <1>3, <1>4, <1>5, <1>7, <2>2, <2>3, OneCall
  <2>5. CreateTypes'
    BY <1>1, <1>2, <2>4 DEF CreateTypes
  <2> QED
    BY <1>3, <1>4, <2>1, <2>4, <2>5 DEF ScheduleInv, ScheduleTypes
<1> QED
  BY <1>1, <1>6, <1>7

\* A create call has its snapshot.
LEMMA ListedKeeps ==
  ASSUME ScheduleInv, NEW a \in Actions, listed(a) PROVE ScheduleInv' /\ RowsAdvance
<1>0. PICK p : p = Asked[pc[a]]
  OBVIOUS
<1>1. /\ pc[a] \in {"listing", "seeking", "checking"} /\ listing.by = "create" /\ Commit /\ Step(a, p)
      /\ UNCHANGED <<live, every, made, asks, events, act, base, op, again, cancel, st>>
  BY <1>0, AskingFacts DEF listed, Runtime
<1>2. RuntimeTypes /\ RegistryTypes /\ CreateTypes /\ RegistryInv /\ CancelOK /\ CreateInv /\ MadeOK /\ CallOK(a) /\ BaseOK(a)
  BY DEF ScheduleInv, ScheduleTypes, CreateInv
<1>3. RuntimeTypes' /\ MadeOK'
  BY <1>1, <1>2, TypesStand, MadeStands
<1>4. Known' = Known /\ CancelOK' /\ Known \subseteq ScheduleIds
  BY <1>1, <1>2, CancelStands, KnownIds DEF Known
<1>5. act'[a].id # 0 => act'[a].id \in Known' /\ (a \in again' \/ made'[act'[a].id] \in {a, 0})
  BY <1>1, <1>2, <1>4 DEF CallOK
<1>6. p \in Calls /\ p \in {"listed", "sought", "checked"}
      /\ (p = "listed" => pc[a] = "listing") /\ (p = "checked" => pc[a] = "checking") /\ (p = "sought" => pc[a] = "seeking")
  BY <1>0, <1>1, AskingFacts DEF Calls
<1>7. listing.by # Absent
  BY <1>1 DEF Absent
<1>8. RegistryInv' /\ rows' \in [ScheduleIds -> States] /\ listing' = NoListing /\ RowsAdvance
  BY <1>1, <1>2, <1>7, CommitKeeps
<1>9. RegistryTypes'
  BY <1>1, <1>2, <1>8 DEF RegistryTypes, NoListing
<1>10. pc'[a] = p
  BY <1>1, <1>2 DEF Step, CreateTypes
<1>11. BaseOK(a)'
  <2>1. SUFFICES ASSUME a \notin again, NEW i \in Foreign(a)
                 PROVE  /\ p = "listed" => rows'[i] # Absent
                        /\ p = "checked" => i \in base[a] \/ rows'[i] \in Final
    BY <1>1, <1>4, <1>6, <1>10 DEF BaseOK, Foreign
  <2>2. listing.behind = 0 /\ ~Announced(i, 0) /\ i \in ScheduleIds
    BY <1>1, <1>2, <1>4, NothingAnnounced DEF Commit, RuntimeTypes, Foreign
  <2>3. /\ p = "listed" => rows[i] # Absent
        /\ p = "checked" => i \in base[a] \/ rows[i] \in Final
    BY <1>2, <1>6, <2>1, <2>2 DEF BaseOK
  <2> QED
    BY <1>8, <2>2, <2>3 DEF RowsAdvance
<1>12. p \in {"seek", "seeking", "sought"} => a \in again'
  BY <1>1, <1>2, <1>6 DEF CallOK
<1>13. CreateInv' /\ pc' \in [Actions -> Calls]
  BY <1>1, <1>2, <1>3, <1>4, <1>5, <1>6, <1>11, <1>12, OneCall
<1>14. CreateTypes'
  BY <1>1, <1>2, <1>13 DEF CreateTypes
<1> QED
  BY <1>3, <1>4, <1>8, <1>9, <1>13, <1>14 DEF ScheduleInv, ScheduleTypes

\* The baseline is recorded.
LEMMA BaselineKeeps ==
  ASSUME ScheduleInv, NEW a \in Actions, record_baseline(a) PROVE ScheduleInv'
<1>1. /\ pc[a] = "listed" /\ Step(a, "invoke") /\ act' = [act EXCEPT ![a].st = "pending"]
      /\ base' = [base EXCEPT ![a] = {i \in ScheduleIds : rows[i] \in {"active", "unknown"}}]
      /\ UNCHANGED <<live, every, made, rows, need, asks, listing, events, op, again, cancel, st>>
  BY DEF record_baseline, Runtime, Registry
<1>2. RuntimeTypes /\ RegistryTypes /\ CreateTypes /\ RegistryInv /\ CancelOK /\ CreateInv /\ MadeOK /\ CallOK(a) /\ BaseOK(a)
  BY DEF ScheduleInv, ScheduleTypes, CreateInv
<1>3. RegistryInv' /\ RuntimeTypes' /\ RegistryTypes' /\ MadeOK'
  BY <1>1, <1>2, RegistryStands, TypesStand, MadeStands
<1>4. Known' = Known /\ CancelOK' /\ Known \subseteq ScheduleIds
  BY <1>1, <1>2, CancelStands, KnownIds DEF Known
<1>5. /\ act' \in [Actions -> [st : {Absent, "pending", "confirmed", "unknown"}, id : Nat]]
      /\ act'[a].id = act[a].id /\ \A c \in Actions \ {a} : act'[c] = act[c]
  BY <1>1, <1>2 DEF CreateTypes
<1>6. base' \in [Actions -> SUBSET Nat] /\ base'[a] = {i \in ScheduleIds : rows[i] \in {"active", "unknown"}}
  BY <1>1, <1>2, SchedulesAssumption DEF CreateTypes, ScheduleIds
<1>7. act'[a].id # 0 => act'[a].id \in Known' /\ (a \in again' \/ made'[act'[a].id] \in {a, 0})
  BY <1>1, <1>2, <1>4, <1>5 DEF CallOK
<1>8. pc'[a] = "invoke" /\ "invoke" \in Calls
  BY <1>1, <1>2 DEF Step, CreateTypes, Calls
<1>9. BaseOK(a)'
  <2>1. SUFFICES ASSUME a \notin again, NEW i \in Foreign(a) PROVE i \in base'[a] \/ rows[i] \in Final
    BY <1>1, <1>4, <1>8 DEF BaseOK, Foreign
  <2>2. rows[i] # Absent /\ i \in ScheduleIds
    BY <1>1, <1>2, <1>4, <2>1 DEF BaseOK, Foreign
  <2>3. rows[i] \in States
    BY <1>2, <2>2 DEF RegistryTypes
  <2> QED
    BY <1>6, <2>2, <2>3 DEF States
<1>10. CreateInv' /\ pc' \in [Actions -> Calls]
  BY <1>1, <1>2, <1>3, <1>4, <1>5, <1>7, <1>8, <1>9, OneCall
<1>11. CreateTypes'
  BY <1>1, <1>2, <1>5, <1>6, <1>10 DEF CreateTypes
<1> QED
  BY <1>3, <1>4, <1>10, <1>11 DEF ScheduleInv, ScheduleTypes

\* find_created looks for the new schedule.
LEMMA FindKeeps ==
  ASSUME ScheduleInv, NEW a \in Actions, find_created(a) PROVE ScheduleInv'
<1>1. /\ pc[a] \in {"sought", "checked"}
      /\ UNCHANGED <<live, every, made, rows, need, asks, listing, events, op, again, cancel, st>>
  BY DEF find_created, Runtime, Registry
<1>2. RuntimeTypes /\ RegistryTypes /\ CreateTypes /\ RegistryInv /\ CancelOK /\ CreateInv /\ MadeOK /\ CallOK(a) /\ BaseOK(a)
  BY DEF ScheduleInv, ScheduleTypes, CreateInv
<1>3. RegistryInv' /\ RuntimeTypes' /\ RegistryTypes' /\ MadeOK'
  BY <1>1, <1>2, RegistryStands, TypesStand, MadeStands
<1>4. Known' = Known /\ CancelOK'
  BY <1>1, <1>2, CancelStands DEF Known
<1>5. pc[a] = "sought" => a \in again
  BY <1>2 DEF CallOK
<1>6. ASSUME NEW p \in Calls, Step(a, p), UNCHANGED <<act, base>>,
             p = "idle" \/ (p = "check" /\ pc[a] = "checked") \/ (p \in {"seek", "invoke"} /\ pc[a] = "sought")
      PROVE  ScheduleInv'
  <2>1. pc'[a] = p
    BY <1>2, <1>6 DEF Step, CreateTypes
  <2>2. BaseOK(a)'
    <3>1. SUFFICES ASSUME a \notin again, NEW i \in Foreign(a)
                   PROVE  p = "check" => i \in base[a] \/ rows[i] \in Final
      BY <1>1, <1>4, <1>5, <1>6, <2>1 DEF BaseOK, Foreign
    <3> QED
      BY <1>2, <1>6, <3>1 DEF BaseOK
  <2>3. act'[a].id # 0 => act'[a].id \in Known' /\ (a \in again' \/ made'[act'[a].id] \in {a, 0})
    BY <1>1, <1>2, <1>4, <1>6 DEF CallOK
  <2>4. CreateInv' /\ pc' \in [Actions -> Calls]
    BY <1>1, <1>2, <1>3, <1>4, <1>5, <1>6, <2>2, <2>3, OneCall
  <2>5. CreateTypes'
    BY <1>1, <1>2, <1>6, <2>4 DEF CreateTypes
  <2> QED
    BY <1>3, <1>4, <2>4, <2>5 DEF ScheduleInv, ScheduleTypes
<1>7. ASSUME NEW s \in {"confirmed", "unknown"}, NEW i \in Nat, Settle(a, s, i), i # 0 => i \in Created(a)
      PROVE  ScheduleInv'
  <2>1. act' = [act EXCEPT ![a] = [st |-> s, id |-> i]] /\ base' = [base EXCEPT ![a] = Gone] /\ Step(a, "idle")
    BY <1>7 DEF Settle
  <2>2. /\ act' \in [Actions -> [st : {Absent, "pending", "confirmed", "unknown"}, id : Nat]]
        /\ act'[a].id = i /\ \A c \in Actions \ {a} : act'[c] = act[c]
    BY <1>2, <2>1 DEF CreateTypes
  <2>3. base' \in [Actions -> SUBSET Nat]
    BY <1>2, <2>1 DEF CreateTypes, Gone
  <2>4. pc'[a] = "idle" /\ "idle" \in Calls
    BY <1>2, <2>1 DEF Step, CreateTypes, Calls
  <2>5. BaseOK(a)'
    BY <2>4 DEF BaseOK
  <2>6. ASSUME i # 0 PROVE i \in Known /\ (a \in again \/ made[i] \in {a, 0})
    <3>1. i \in ScheduleIds /\ rows[i] = "active" /\ i \notin base[a]
      BY <1>7, <2>6 DEF Created
    <3>2. i \in Known
      BY <1>2, <3>1 DEF RegistryInv, RowsOK, Absent
    <3>3. ASSUME a \notin again, made[i] \notin {a, 0} PROVE FALSE
      <4>1. pc[a] = "checked" /\ i \in Foreign(a)
        BY <1>1, <1>5, <3>2, <3>3 DEF Foreign
      <4> QED
        BY <1>2, <3>1, <3>3, <4>1 DEF BaseOK, Final
    <3> QED
      BY <3>2, <3>3
  <2>7. act'[a].id # 0 => act'[a].id \in Known' /\ (a \in again' \/ made'[act'[a].id] \in {a, 0})
    BY <1>1, <1>4, <2>2, <2>6
  <2>8. CreateInv' /\ pc' \in [Actions -> Calls]
    BY <1>1, <1>2, <1>3, <1>4, <2>1, <2>2, <2>4, <2>5, <2>7, OneCall
  <2>9. CreateTypes'
    BY <1>1, <1>2, <2>2, <2>3, <2>8 DEF CreateTypes
  <2> QED
    BY <1>3, <1>4, <2>8, <2>9 DEF ScheduleInv, ScheduleTypes
<1>8. \/ \E i \in Created(a) : Settle(a, "confirmed", i)
      \/ pc[a] = "sought" /\ Step(a, "seek") /\ UNCHANGED <<act, base>>
      \/ pc[a] = "checked" /\ Step(a, "check") /\ UNCHANGED <<act, base>>
      \/ pc[a] = "sought" /\ Step(a, "invoke") /\ UNCHANGED <<act, base>>
      \/ Step(a, "idle") /\ UNCHANGED <<act, base>>
      \/ Settle(a, "unknown", 0)
  BY <1>1 DEF find_created, Confirm, SettleUnknown
<1>9. {"seek", "check", "invoke", "idle"} \subseteq Calls
  BY DEF Calls
<1>10. \A i \in Created(a) : i \in Nat
  BY SchedulesAssumption DEF Created, ScheduleIds
<1>11. CASE \E i \in Created(a) : Settle(a, "confirmed", i)
  BY <1>7, <1>10, <1>11
<1>12. CASE pc[a] = "sought" /\ Step(a, "seek") /\ UNCHANGED <<act, base>>
  BY <1>6, <1>9, <1>12
<1>13. CASE pc[a] = "checked" /\ Step(a, "check") /\ UNCHANGED <<act, base>>
  BY <1>6, <1>9, <1>13
<1>14. CASE pc[a] = "sought" /\ Step(a, "invoke") /\ UNCHANGED <<act, base>>
  BY <1>6, <1>9, <1>14
<1>15. CASE Step(a, "idle") /\ UNCHANGED <<act, base>>
  BY <1>6, <1>9, <1>15
<1>16. CASE Settle(a, "unknown", 0)
  BY <1>7, <1>16
<1> QED
  BY <1>8, <1>11, <1>12, <1>13, <1>14, <1>15, <1>16

\* The builtin command is invoked.
LEMMA InvokeKeeps ==
  ASSUME ScheduleInv, NEW a \in Actions, invoke(a) PROVE ScheduleInv'
<1>1. pc[a] = "invoke" /\ UNCHANGED <<rows, need, asks, listing, act, base, again, cancel, st>>
  BY DEF invoke
<1>2. RuntimeTypes /\ RegistryTypes /\ CreateTypes /\ RegistryInv /\ CancelOK /\ CreateInv /\ MadeOK /\ CallOK(a) /\ BaseOK(a)
  BY DEF ScheduleInv, ScheduleTypes, CreateInv
<1>3. RegistryTypes'
  BY <1>1, <1>2, TypesStand
<1>4. /\ {"idle", "check"} \subseteq Calls
      /\ \A i \in Foreign(a) : a \notin again => i \in base[a] \/ rows[i] \in Final
  BY <1>1, <1>2 DEF BaseOK, Calls
<1>5. ASSUME NEW p \in {"idle", "check"}, NEW o \in {Absent, "rejected", "confirmed", "unknown"},
             Step(a, p), op' = [op EXCEPT ![a] = o], op[a] # Absent => o # Absent, UNCHANGED <<live, every, made, events>>
      PROVE  ScheduleInv'
  <2>1. pc'[a] = p /\ op' \in [Actions -> {Absent, "rejected", "confirmed", "unknown"}] /\ \A c \in Actions : op[c] # Absent => op'[c] # Absent
    BY <1>2, <1>5 DEF Step, CreateTypes
  <2>2. RegistryInv' /\ RuntimeTypes' /\ Known' = Known
    BY <1>1, <1>2, <1>5, RegistryStands, TypesStand DEF Known
  <2>3. CancelOK'
    BY <1>1, <1>2, <1>5, <2>2, CancelStands
  <2>4. MadeOK'
    <3>1. \A i \in Known : made[i] # 0 => made[i] \in Actions
      BY <1>2 DEF RuntimeTypes, Known
    <3> QED
      BY <1>2, <1>5, <2>1, <2>2, <3>1 DEF MadeOK, CreatedOnce
  <2>5. BaseOK(a)'
    BY <1>1, <1>4, <1>5, <2>1, <2>2 DEF BaseOK, Foreign
  <2>6. act'[a].id # 0 => act'[a].id \in Known' /\ (a \in again' \/ made'[act'[a].id] \in {a, 0})
    BY <1>1, <1>2, <1>5, <2>2 DEF CallOK
  <2>7. CreateInv' /\ pc' \in [Actions -> Calls]
    BY <1>1, <1>2, <1>4, <1>5, <2>2, <2>4, <2>5, <2>6, OneCall
  <2>8. CreateTypes'
    BY <1>1, <1>2, <2>1, <2>7 DEF CreateTypes
  <2> QED
    BY <1>3, <2>2, <2>3, <2>7, <2>8 DEF ScheduleInv, ScheduleTypes
<1>6. ASSUME NEW o \in {"confirmed", "unknown"}, op[a] = Absent, Make(a), Step(a, "check"), op' = [op EXCEPT ![a] = o]
      PROVE  ScheduleInv'
  <2>0. PICK new : new = Len(made) + 1
    OBVIOUS
  <2>1. /\ RuntimeTypes' /\ RegistryInv'
        /\ Known' = Known \cup {new} /\ new \notin Known
        /\ \A i \in Known : made'[i] = made[i]
        /\ made'[new] = a
    BY <1>1, <1>2, <1>6, <2>0, MakeKeeps
  <2>2. /\ pc'[a] = "check" /\ op' \in [Actions -> {Absent, "rejected", "confirmed", "unknown"}]
        /\ op'[a] # Absent /\ \A c \in Actions \ {a} : op'[c] = op[c]
    BY <1>2, <1>6 DEF Step, CreateTypes, Absent
  <2>3. \A i \in Known : i \in live' => i \in live
    BY <1>6, <2>0, <2>1 DEF Make
  <2>4. CancelOK'
    BY <1>1, <1>2, <2>1, <2>3, CancelStands
  <2>5. MadeOK'
    <3>1. \A i \in Known : made[i] # 0 => made[i] \in Actions /\ made[i] # a /\ op[made[i]] # Absent
      BY <1>2, <1>6 DEF MadeOK, RuntimeTypes, Known
    <3>2. \A i \in Known' : made'[i] # 0 => op'[made'[i]] # Absent
      BY <2>1, <2>2, <3>1
    <3>3. DOMAIN made' = Known' /\ DOMAIN made = Known
      BY <1>2, <2>1 DEF RuntimeTypes, Known
    <3>4. CreatedOnce'
      BY <1>2, <2>1, <3>1, <3>3 DEF MadeOK, CreatedOnce
    <3> QED
      BY <3>2, <3>4 DEF MadeOK
  <2>6. BaseOK(a)'
    <3>1. Foreign(a)' = Foreign(a)
      BY <2>1 DEF Foreign
    <3> QED
      BY <1>1, <1>4, <2>2, <3>1 DEF BaseOK
  <2>7. act'[a].id # 0 => act'[a].id \in Known' /\ (a \in again' \/ made'[act'[a].id] \in {a, 0})
    BY <1>1, <1>2, <2>1 DEF CallOK
  <2>8. CreateInv' /\ pc' \in [Actions -> Calls]
    BY <1>1, <1>2, <1>4, <1>6, <2>1, <2>5, <2>6, <2>7, OneCall
  <2>9. CreateTypes'
    BY <1>1, <1>2, <2>2, <2>8 DEF CreateTypes
  <2> QED
    BY <1>3, <2>1, <2>4, <2>8, <2>9 DEF ScheduleInv, ScheduleTypes
<1>7. CASE Blocked \/ ~FirstInvocation(a)
  <2>1. \E p \in {"idle", "check"} : Step(a, p)
    BY <1>7 DEF invoke
  <2>2. UNCHANGED <<op, live, every, made, events>>
    BY <1>7 DEF invoke
  <2>3. PICK o \in {Absent, "rejected", "confirmed", "unknown"} : o = op[a]
    BY <1>2 DEF CreateTypes
  <2>4. op' = [op EXCEPT ![a] = o]
    BY <1>2, <2>2, <2>3 DEF CreateTypes
  <2> QED
    BY <1>5, <2>1, <2>2, <2>3, <2>4
<1>8. CASE ~(Blocked \/ ~FirstInvocation(a))
  <2>1. op[a] = Absent
    BY <1>8 DEF FirstInvocation
  <2>2. \/ op' = [op EXCEPT ![a] = "rejected"] /\ Step(a, "idle") /\ UNCHANGED <<live, every, made, events>>
        \/ op' = [op EXCEPT ![a] = "unknown"] /\ Step(a, "check") /\ UNCHANGED <<live, every, made, events>>
        \/ \E o \in {"confirmed", "unknown"} : Make(a) /\ Step(a, "check") /\ op' = [op EXCEPT ![a] = o]
    BY <1>8 DEF invoke
  <2> QED
    BY <1>5, <1>6, <2>1, <2>2
<1> QED
  BY <1>7, <1>8

\* The session makes a schedule by itself.
LEMMA OwnMakeKeeps ==
  ASSUME ScheduleInv, Make(0), UNCHANGED <<rows, need, asks, listing, act, base, op, pc, again, cancel, st>> PROVE ScheduleInv'
<1>0. PICK new : new = Len(made) + 1
  OBVIOUS
<1>1. RuntimeTypes /\ RegistryTypes /\ CreateTypes /\ RegistryInv /\ CancelOK /\ CreateInv /\ MadeOK
  BY DEF ScheduleInv, ScheduleTypes, CreateInv
<1>2. /\ RuntimeTypes' /\ RegistryInv'
      /\ Known' = Known \cup {new} /\ new \notin Known
      /\ \A i \in Known : made'[i] = made[i]
      /\ made'[new] = 0
      /\ \A i, n : Announced(i, n) => Announced(i, n)'
  BY <1>0, <1>1, MakeKeeps
<1>3. RegistryTypes' /\ CreateTypes'
  BY <1>1, TypesStand
<1>4. \A i \in Known : i \in live' => i \in live
  BY <1>0, <1>2 DEF Make
<1>5. CancelOK'
  BY <1>1, <1>2, <1>4, CancelStands
<1>6. MadeOK'
  <2>1. DOMAIN made' = Known' /\ DOMAIN made = Known
    BY <1>1, <1>2 DEF RuntimeTypes, Known
  <2>2. CreatedOnce'
    BY <1>1, <1>2, <2>1 DEF MadeOK, CreatedOnce
  <2> QED
    BY <1>1, <1>2, <2>2 DEF MadeOK
<1>7. ASSUME NEW a \in Actions PROVE CallOK(a)' /\ BaseOK(a)'
  <2>1. CallOK(a) /\ BaseOK(a)
    BY <1>1 DEF CreateInv
  <2>2. CallOK(a)'
    BY <1>2, <2>1 DEF CallOK
  <2>3. Foreign(a)' = Foreign(a)
    BY <1>2 DEF Foreign
  <2>4. BaseOK(a)'
    BY <1>2, <2>1, <2>3 DEF BaseOK
  <2> QED
    BY <2>2, <2>4
<1> QED
  BY <1>2, <1>3, <1>5, <1>6, <1>7 DEF ScheduleInv, ScheduleTypes, CreateInv

\* A step of the runtime or of the registry beside the create calls
LEMMA RegistryStep ==
  ASSUME ScheduleInv, UNCHANGED <<made, act, base, op, pc, again>>, RuntimeTypes', RegistryTypes', RegistryInv', CancelOK', RowsAdvance,
         listing.by = "create" =>
           /\ listing'.by = "create"
           /\ \A i \in Known : Announced(i, listing.behind) => rows'[i] # Absent \/ Announced(i, listing.behind)'
  PROVE  ScheduleInv'
<1>1. RuntimeTypes /\ CreateTypes /\ CreateInv
  BY DEF ScheduleInv, ScheduleTypes
<1>2. CreateInv' /\ CreateTypes'
  BY <1>1, CallsStand, TypesStand
<1> QED
  BY <1>2 DEF ScheduleInv, ScheduleTypes

\* A schedule ends, beside the create calls.
LEMMA DropStep ==
  ASSUME ScheduleInv, NEW j \in live, NEW e \in Notices, Ends(e, j), events' = Append(events, e), live' = live \ {j},
         cancel' = cancel \/ cancel'.pc # "ok" \/ cancel'.id = j,
         cancel' \in [pc : {"idle", "listing", "listed", "ok"}, id : Nat],
         UNCHANGED <<every, made, rows, need, asks, listing, st, act, base, op, pc, again>>
  PROVE  ScheduleInv'
<1>1. RuntimeTypes /\ RegistryTypes /\ RegistryInv /\ CancelOK
  BY DEF ScheduleInv, ScheduleTypes
<1>2. RuntimeTypes' /\ RegistryInv' /\ \A i, n : Announced(i, n) => Announced(i, n)'
  BY <1>1, DropKeeps
<1>3. RegistryTypes' /\ RowsAdvance
  BY <1>1 DEF RegistryTypes, RowsAdvance
<1>4. CancelOK'
  BY <1>1 DEF CancelOK, RuntimeTypes, Known
<1> QED
  BY <1>2, <1>3, <1>4, RegistryStep

\* The steps of the runtime
LEMMA SdkKeeps ==
  ASSUME ScheduleInv, SdkActs \/ SdkTakesEffect \/ \E i \in ScheduleIds : SdkFires(i) PROVE ScheduleInv'
<1>0. RuntimeTypes /\ RegistryTypes /\ CreateTypes /\ RegistryInv /\ CancelOK /\ CreateInv
  BY DEF ScheduleInv, ScheduleTypes
<1>1. UNCHANGED <<rows, need, asks, listing, act, base, op, pc, again, cancel, st>>
  BY DEF SdkActs, SdkTakesEffect, SdkFires
<1>2. \/ Make(0)
      \/ \E i \in live : Drop(i) /\ UNCHANGED <<every, made>>
      \/ UNCHANGED <<live, every, made, events>>
      \/ \E i \in live : SdkFires(i)
  BY DEF SdkActs, SdkTakesEffect, SdkFires
<1>3. CASE Make(0)
  BY <1>1, <1>3, OwnMakeKeeps
<1>4. ASSUME NEW i \in live, NEW k \in {"cancelled", "fired"}, k = "fired" => i \notin every, live' = live \ {i},
             events' = Append(events, [type |-> k, id |-> i]), UNCHANGED <<every, made>>
      PROVE  ScheduleInv'
  <2>1. PICK e : e = [type |-> k, id |-> i]
    OBVIOUS
  <2>2. e \in Notices /\ Ends(e, i)
    BY <1>0, <1>4, <2>1, KnownIds DEF Notices, Kinds, Ends
  <2>3. cancel' \in [pc : {"idle", "listing", "listed", "ok"}, id : Nat]
    BY <1>0, <1>1 DEF RegistryTypes
  <2> QED
    BY <1>1, <1>4, <2>1, <2>2, <2>3, DropStep
<1>5. CASE \E i \in live : Drop(i) /\ UNCHANGED <<every, made>>
  BY <1>4, <1>5 DEF Drop
<1>6. CASE UNCHANGED <<live, every, made, events>>
  <2>1. RuntimeTypes' /\ RegistryTypes' /\ RowsAdvance /\ RegistryInv'
    BY <1>0, <1>1, <1>6, TypesStand, RegistryStands
  <2>2. CancelOK'
    BY <1>0, <1>1, <1>6, CancelStands DEF Known
  <2>3. \A i, n : Announced(i, n) => Announced(i, n)'
    BY <1>6 DEF Announced
  <2> QED
    BY <1>1, <1>6, <2>1, <2>2, <2>3, RegistryStep
<1>7. CASE \E i \in live : SdkFires(i)
  <2>1. PICK i \in live : SdkFires(i)
    BY <1>7
  <2>2. CASE i \in every
    <3>1. events' = events \o <<[type |-> "fired", id |-> i], [type |-> "rearmed", id |-> i]>> /\ UNCHANGED <<live, every, made>>
      BY <2>1, <2>2 DEF SdkFires
    <3>2. RuntimeTypes' /\ RegistryInv' /\ \A l, n : Announced(l, n) => Announced(l, n)'
      BY <1>0, <1>1, <2>2, <3>1, RearmKeeps
    <3>3. RegistryTypes' /\ RowsAdvance
      BY <1>0, <1>1, TypesStand
    <3>4. CancelOK'
      BY <1>0, <1>1, <3>1, CancelStands DEF Known
    <3> QED
      BY <1>1, <3>1, <3>2, <3>3, <3>4, RegistryStep
  <2>3. CASE i \notin every
    BY <1>4, <2>1, <2>3 DEF SdkFires
  <2> QED
    BY <2>2, <2>3
<1> QED
  BY <1>2, <1>3, <1>5, <1>6, <1>7

\* The reducer takes an event, beside the create calls.
LEMMA ReduceKeeps ==
  ASSUME ScheduleInv, reduce_event PROVE ScheduleInv' /\ RowsAdvance
<1>0. RuntimeTypes /\ RegistryTypes /\ RegistryInv /\ CancelOK
  BY DEF ScheduleInv, ScheduleTypes
<1>1. UNCHANGED <<live, made, act, base, op, pc, again, cancel>>
  BY DEF reduce_event, Runtime, Creates
<1>2. /\ RuntimeTypes' /\ RegistryTypes' /\ RegistryInv' /\ RowsAdvance /\ listing'.by = listing.by
      /\ \A i \in Known : Announced(i, listing.behind) => rows'[i] # Absent \/ Announced(i, listing.behind)'
  BY <1>0, DeliverKeeps
<1>3. CancelOK'
  BY <1>0, <1>1, CancelStands DEF Known
<1> QED
  BY <1>1, <1>2, <1>3, RegistryStep

\* The request that follows an event is reduced.
LEMMA RequestKeeps ==
  ASSUME ScheduleInv, snapshot_requested PROVE ScheduleInv'
<1>0. RuntimeTypes /\ RegistryTypes /\ RegistryInv /\ CancelOK
  BY DEF ScheduleInv, ScheduleTypes
<1>1. /\ asks' = asks - 1 /\ asks > 0 /\ need' /\ listing' = [listing EXCEPT !.fresh = listing.by = Absent]
      /\ UNCHANGED <<live, every, made, events, rows, act, base, op, pc, again, cancel, st>>
  BY DEF snapshot_requested, Runtime, Creates
<1>2. /\ listing'.by = listing.by /\ listing'.ids = listing.ids /\ listing'.behind = listing.behind
      /\ listing.by # Absent => ~listing'.fresh
  BY <1>0, <1>1 DEF RegistryTypes
<1>3. asks' \in Nat
  BY <1>0, <1>1 DEF RegistryTypes
<1>4. RuntimeTypes' /\ RegistryTypes' /\ RowsAdvance /\ Known' = Known
  <2>1. PICK f \in BOOLEAN : f = (listing.by = Absent)
    OBVIOUS
  <2>2. listing' = [listing EXCEPT !.fresh = f]
    BY <1>1, <2>1
  <2>3. listing' \in [by : {Absent, "loop", "create", "cancel", "attach"}, ids : SUBSET ScheduleIds, fresh : BOOLEAN, behind : Nat]
    BY <1>0, <2>2 DEF RegistryTypes
  <2> QED
    BY <1>0, <1>1, <1>3, <2>3 DEF RuntimeTypes, RegistryTypes, RowsAdvance, Known
<1>5. \A i : (Coming(i)' <=> Coming(i)) /\ (Ending(i)' <=> Ending(i)) /\ \A n : Announced(i, n)' <=> Announced(i, n)
  BY <1>1 DEF Coming, Ending, Ends, Announced
<1>6. RowsOK' /\ EventsInOrder'
  BY <1>0, <1>1, <1>4, <1>5 DEF RegistryInv, RowsOK, RowOK, attached, Due, EventsInOrder
<1>7. ListingOK'
  BY <1>0, <1>1, <1>2, <1>4, <1>5 DEF RegistryInv, ListingOK, ListOK
<1>8. CancelOK'
  BY <1>0, <1>1, <1>4, CancelStands
<1> QED
  BY <1>1, <1>2, <1>4, <1>5, <1>6, <1>7, <1>8, RegistryStep DEF RegistryInv

\* A query or its answer beside the create calls
LEMMA SnapshotStep ==
  ASSUME ScheduleInv, UNCHANGED <<live, every, made, asks, events, act, base, op, pc, again>>, listing.by # "create",
         \/ /\ \E who \in {"loop", "create", "cancel", "attach"} : Query(who) /\ (who = "attach" => events = <<>>)
            /\ UNCHANGED <<rows, st>>
         \/ /\ listing.by # Absent /\ Commit
            /\ st' = "up" => st = "up" \/ (listing.by = "attach" /\ ~need' /\ \A i \in ScheduleIds : rows'[i] # "unknown"),
         st' \in {"up", "down", "attaching"}, cancel' = cancel \/ cancel'.pc # "ok",
         cancel' \in [pc : {"idle", "listing", "listed", "ok"}, id : Nat]
  PROVE  ScheduleInv' /\ RowsAdvance
<1>0. RuntimeTypes /\ RegistryTypes /\ RegistryInv /\ CancelOK
  BY DEF ScheduleInv, ScheduleTypes
<1>1. RuntimeTypes' /\ CancelOK'
  BY <1>0, TypesStand, CancelStands DEF Known
<1>2. RegistryInv' /\ RegistryTypes' /\ RowsAdvance
  <2>1. CASE \E who \in {"loop", "create", "cancel", "attach"} : Query(who) /\ (who = "attach" => events = <<>>) /\ UNCHANGED <<rows, st>>
    <3>1. PICK who \in {"loop", "create", "cancel", "attach"} : Query(who) /\ (who = "attach" => events = <<>>) /\ UNCHANGED <<rows, st>>
      BY <2>1
    <3>2. /\ RegistryInv'
          /\ listing' \in [by : {Absent, "loop", "create", "cancel", "attach"}, ids : SUBSET ScheduleIds, fresh : BOOLEAN, behind : Nat]
      BY <1>0, <3>1, QueryKeeps
    <3> QED
      BY <1>0, <3>1, <3>2 DEF RegistryTypes, RowsAdvance
  <2>2. CASE /\ listing.by # Absent /\ Commit
             /\ st' = "up" => st = "up" \/ (listing.by = "attach" /\ ~need' /\ \A i \in ScheduleIds : rows'[i] # "unknown")
    <3>1. RegistryInv' /\ rows' \in [ScheduleIds -> States] /\ listing' = NoListing /\ RowsAdvance
      BY <1>0, <2>2, CommitKeeps
    <3> QED
      BY <1>0, <3>1 DEF RegistryTypes, NoListing
  <2> QED
    BY <2>1, <2>2
<1> QED
  BY <1>1, <1>2, RegistryStep

\* The reconcile loop and the listing of a cancel call
LEMMA ReconcileKeeps ==
  ASSUME ScheduleInv, reconcile \/ reconciled \/ cancel_runtime_schedule \/ cancel_listed PROVE ScheduleInv' /\ RowsAdvance
<1>0. RegistryTypes
  BY DEF ScheduleInv, ScheduleTypes
<1>1. UNCHANGED <<live, every, made, asks, events, act, base, op, pc, again, st>> /\ st' \in {"up", "down", "attaching"}
  BY <1>0 DEF reconcile, reconciled, cancel_runtime_schedule, cancel_listed, Runtime, Creates, RegistryTypes
<1>2. \/ listing.by = Absent /\ UNCHANGED rows /\ \E who \in {"loop", "cancel"} : Query(who)
      \/ listing.by \in {"loop", "cancel"} /\ Commit
  BY DEF reconcile, reconciled, cancel_runtime_schedule, cancel_listed, Query
<1>3. cancel' = cancel \/ cancel'.pc # "ok"
  BY <1>0 DEF reconcile, reconciled, cancel_runtime_schedule, cancel_listed, RegistryTypes
<1>4. cancel' \in [pc : {"idle", "listing", "listed", "ok"}, id : Nat]
  <2>1. ScheduleIds \subseteq Nat
    BY SchedulesAssumption DEF ScheduleIds
  <2>2. CASE reconcile \/ reconciled
    BY <1>0, <2>2 DEF reconcile, reconciled, RegistryTypes
  <2>3. CASE cancel_runtime_schedule
    BY <2>1, <2>3 DEF cancel_runtime_schedule
  <2>4. CASE cancel_listed
    BY <1>0, <2>4 DEF cancel_listed, RegistryTypes
  <2> QED
    BY <2>2, <2>3, <2>4
<1>5. CASE listing.by = Absent /\ UNCHANGED rows /\ \E who \in {"loop", "cancel"} : Query(who)
  <2>1. /\ \E who \in {"loop", "create", "cancel", "attach"} : Query(who) /\ (who = "attach" => events = <<>>)
        /\ listing.by # "create"
    BY <1>5 DEF Absent
  <2> QED
    BY <1>1, <1>3, <1>4, <1>5, <2>1, SnapshotStep
<1>6. CASE listing.by \in {"loop", "cancel"} /\ Commit
  <2>1. listing.by # Absent /\ listing.by # "create"
    BY <1>6 DEF Absent
  <2> QED
    BY <1>1, <1>3, <1>4, <1>6, <2>1, SnapshotStep
<1> QED
  BY <1>2, <1>5, <1>6

\* The steps of an attach
LEMMA AttachKeeps ==
  ASSUME ScheduleInv, attach_schedules PROVE ScheduleInv' /\ RowsAdvance
<1>0. RuntimeTypes /\ RegistryTypes /\ RegistryInv /\ CancelOK
  BY DEF ScheduleInv, ScheduleTypes
<1>1. UNCHANGED <<live, every, made, asks, events, act, base, op, pc, again, cancel>>
  BY DEF attach_schedules, Runtime, Creates
<1>2. cancel' \in [pc : {"idle", "listing", "listed", "ok"}, id : Nat]
  BY <1>0, <1>1 DEF RegistryTypes
<1>3. CASE st = "down" /\ st' = "attaching" /\ UNCHANGED <<rows, need, listing>>
  <2>1. RuntimeTypes' /\ RowsAdvance /\ RegistryInv'
    BY <1>0, <1>1, <1>3, TypesStand, RegistryStands
  <2>2. RegistryTypes'
    BY <1>0, <1>1, <1>3 DEF RegistryTypes
  <2>3. CancelOK'
    BY <1>0, <1>1, CancelStands DEF Known
  <2>4. \A i, n : Announced(i, n) => Announced(i, n)'
    BY <1>1 DEF Announced
  <2> QED
    BY <1>1, <1>3, <2>1, <2>2, <2>3, <2>4, RegistryStep
<1>4. CASE st = "attaching" /\ events = <<>> /\ Query("attach") /\ UNCHANGED <<rows, st>>
  <2>1. listing.by # "create" /\ st' \in {"up", "down", "attaching"}
    BY <1>4 DEF Query, Absent
  <2>2. \E who \in {"loop", "create", "cancel", "attach"} : Query(who) /\ (who = "attach" => events = <<>>)
    BY <1>4
  <2> QED
    BY <1>1, <1>2, <1>4, <2>1, <2>2, SnapshotStep
<1>5. CASE /\ st = "attaching" /\ listing.by = "attach" /\ Commit
           /\ st' = IF need' THEN "attaching" ELSE IF \E i \in ScheduleIds : rows'[i] = "unknown" THEN "down" ELSE "up"
  <2>1. listing.by # Absent /\ listing.by # "create" /\ st' \in {"up", "down", "attaching"}
    BY <1>5 DEF Absent
  <2>2. st' = "up" => listing.by = "attach" /\ ~need' /\ \A i \in ScheduleIds : rows'[i] # "unknown"
    BY <1>5
  <2> QED
    BY <1>1, <1>2, <1>5, <2>1, <2>2, SnapshotStep
<1> QED
  BY <1>3, <1>4, <1>5 DEF attach_schedules

\* schedule.stop
LEMMA StopKeeps ==
  ASSUME ScheduleInv, NEW i \in ScheduleIds, stop(i) PROVE ScheduleInv'
<1>0. RuntimeTypes /\ RegistryTypes /\ RegistryInv /\ CancelOK
  BY DEF ScheduleInv, ScheduleTypes
<1>1. /\ cancel = [pc |-> "listed", id |-> i] /\ UNCHANGED <<every, made, rows, need, asks, listing, act, base, op, pc, again, st>>
      /\ i \in Nat
  BY SchedulesAssumption DEF stop, Creates, ScheduleIds
<1>2. \/ cancel' = NoCancel /\ UNCHANGED <<live, events>>
      \/ i \in live /\ Drop(i) /\ cancel' \in {[cancel EXCEPT !.pc = "ok"], NoCancel}
  BY DEF stop
<1>3. CASE cancel' = NoCancel /\ UNCHANGED <<live, events>>
  <2>1. cancel'.pc # "ok" /\ cancel' \in [pc : {"idle", "listing", "listed", "ok"}, id : Nat]
    BY <1>3 DEF NoCancel
  <2>2. RuntimeTypes' /\ RowsAdvance /\ RegistryInv'
    BY <1>0, <1>1, <1>3, TypesStand, RegistryStands
  <2>3. RegistryTypes'
    BY <1>0, <1>1, <2>1 DEF RegistryTypes
  <2>4. CancelOK'
    BY <2>1 DEF CancelOK
  <2>5. \A l, n : Announced(l, n) => Announced(l, n)'
    BY <1>3 DEF Announced
  <2> QED
    BY <1>1, <2>2, <2>3, <2>4, <2>5, RegistryStep
<1>4. CASE i \in live /\ Drop(i) /\ cancel' \in {[cancel EXCEPT !.pc = "ok"], NoCancel}
  <2>1. PICK e : e = [type |-> "cancelled", id |-> i]
    OBVIOUS
  <2>2. e \in Notices /\ Ends(e, i) /\ events' = Append(events, e) /\ live' = live \ {i}
    BY <1>4, <2>1 DEF Notices, Kinds, Ends, Drop
  <2>3. /\ cancel'.pc # "ok" \/ cancel'.id = i
        /\ cancel' \in [pc : {"idle", "listing", "listed", "ok"}, id : Nat]
    BY <1>1, <1>4 DEF NoCancel
  <2> QED
    BY <1>1, <1>4, <2>2, <2>3, DropStep
<1> QED
  BY <1>2, <1>3, <1>4

\* The receipt of a confirmed cancellation
LEMMA CancelledKeeps ==
  ASSUME ScheduleInv, cancelled PROVE ScheduleInv' /\ RowsAdvance
<1>0. RuntimeTypes /\ RegistryTypes /\ RegistryInv /\ CancelOK
  BY DEF ScheduleInv, ScheduleTypes
<1>1. cancel' = NoCancel /\ UNCHANGED <<live, every, made, events, need, asks, listing, act, base, op, pc, again, st>>
  BY DEF cancelled, Runtime, Creates
<1>2. RegistryInv' /\ rows' \in [ScheduleIds -> States] /\ RowsAdvance
  BY <1>0, ReceiptKeeps
<1>3. RuntimeTypes' /\ RegistryTypes' /\ CancelOK'
  BY <1>0, <1>1, <1>2, TypesStand DEF RegistryTypes, NoCancel, CancelOK
<1>4. \A i, n : Announced(i, n) => Announced(i, n)'
  BY <1>1 DEF Announced
<1> QED
  BY <1>1, <1>2, <1>3, <1>4, RegistryStep

\* A query fails.
LEMMA FailsKeeps ==
  ASSUME ScheduleInv, reconcile_fails PROVE ScheduleInv'
<1>0. RuntimeTypes /\ RegistryTypes /\ CreateTypes /\ RegistryInv /\ CancelOK /\ CreateInv /\ MadeOK
  BY DEF ScheduleInv, ScheduleTypes, CreateInv
<1>1. /\ listing.by # Absent /\ listing.behind = 0 /\ listing' = NoListing /\ listing'.by = Absent
      /\ st' = IF st = "attaching" THEN "down" ELSE st
      /\ pc' = [a \in Actions |-> IF listing.by = "create" /\ pc[a] \in DOMAIN Asked THEN Asked[pc[a]] ELSE pc[a]]
      /\ cancel' = IF listing.by = "cancel" THEN [cancel EXCEPT !.pc = IF @ = "listing" THEN "listed" ELSE "idle"] ELSE cancel
      /\ UNCHANGED <<live, every, made, events, rows, need, asks, act, base, op, again>>
  BY DEF reconcile_fails, Runtime, NoListing
<1>2. RuntimeTypes' /\ MadeOK' /\ RegistryInv' /\ Known' = Known
  BY <1>0, <1>1, TypesStand, MadeStands, RegistryStands DEF Known
<1>3. /\ cancel' = cancel \/ cancel'.pc # "ok"
      /\ cancel' \in [pc : {"idle", "listing", "listed", "ok"}, id : Nat]
  BY <1>0, <1>1 DEF RegistryTypes
<1>4. CancelOK'
  BY <1>0, <1>1, <1>2, <1>3, CancelStands
<1>5. RegistryTypes'
  BY <1>0, <1>1, <1>3 DEF RegistryTypes, NoListing
<1>6. ASSUME NEW a \in Actions
      PROVE  /\ pc'[a] \in Calls
             /\ pc'[a] = "idle" <=> pc[a] = "idle"
             /\ pc'[a] \notin {"listing", "seeking", "checking"}
             /\ pc'[a] = pc[a] \/ <<pc[a], pc'[a]>> \in {<<"listing", "listed">>, <<"seeking", "sought">>, <<"checking", "checked">>}
  <2>1. pc[a] \in Calls /\ (pc[a] \in {"listing", "seeking", "checking"} => listing.by = "create")
    BY <1>0 DEF CreateTypes, CreateInv, CallOK
  <2>2. pc'[a] = IF pc[a] \in {"listing", "seeking", "checking"} THEN Asked[pc[a]] ELSE pc[a]
    BY <1>1, <2>1, AskingFacts
  <2> QED
    BY <2>1, <2>2, AskingFacts DEF Calls
<1>7. CreateTypes'
  BY <1>0, <1>1, <1>6 DEF CreateTypes
<1>8. ASSUME NEW a \in Actions PROVE CallOK(a)' /\ BaseOK(a)'
  <2>1. CallOK(a) /\ BaseOK(a)
    BY <1>0 DEF CreateInv
  <2>2. CallOK(a)'
    BY <1>1, <1>2, <1>6, <2>1 DEF CallOK
  <2>3. BaseOK(a)'
    <3>1. SUFFICES ASSUME a \notin again, NEW i \in Foreign(a)
                   PROVE  /\ pc'[a] = "listed" => rows[i] # Absent
                          /\ pc'[a] \in {"invoke", "check", "checking", "checked"} => i \in base[a] \/ rows[i] \in Final
      BY <1>1, <1>2, <1>6 DEF BaseOK, Foreign
    <3>2. ~Announced(i, 0)
      BY <1>0, NothingAnnounced DEF RuntimeTypes
    <3>3. /\ pc[a] = "listing" => rows[i] # Absent
          /\ pc[a] = "listed" => rows[i] # Absent
          /\ pc[a] \in {"invoke", "check", "checking", "checked"} => i \in base[a] \/ rows[i] \in Final
      BY <1>1, <2>1, <3>1, <3>2 DEF BaseOK
    <3>4. /\ pc'[a] = "listed" => pc[a] \in {"listing", "listed"}
          /\ pc'[a] \in {"invoke", "check", "checking", "checked"} => pc[a] \in {"invoke", "check", "checking", "checked"}
      BY <1>6
    <3> QED
      BY <3>3, <3>4
  <2> QED
    BY <2>2, <2>3
<1> QED
  BY <1>2, <1>4, <1>5, <1>7, <1>8 DEF ScheduleInv, ScheduleTypes, CreateInv

\* The process is lost, with or without the runtime.
LEMMA CrashKeeps ==
  ASSUME ScheduleInv, loses_process PROVE ScheduleInv'
<1>0. RuntimeTypes /\ RegistryTypes /\ CreateTypes /\ RegistryInv /\ CancelOK /\ CreateInv /\ MadeOK
  BY DEF ScheduleInv, ScheduleTypes, CreateInv
<1>1. /\ st' = "down" /\ live' \in {live, {}} /\ live' \subseteq live /\ listing' = NoListing /\ listing'.by = Absent /\ asks' = 0 /\ cancel' = NoCancel
      /\ base' = [a \in Actions |-> Gone] /\ pc' = [a \in Actions |-> "idle"]
      /\ op' = [a \in Actions |-> IF op[a] = "confirmed" THEN "unknown" ELSE op[a]]
      /\ UNCHANGED <<every, made, events, rows, need, act, again>>
  BY DEF loses_process, NoListing
<1>2. RegistryInv' /\ Known' = Known
  BY <1>0, <1>1, RegistryStands DEF Known
<1>3. RuntimeTypes' /\ RegistryTypes' /\ CancelOK'
  BY <1>0, <1>1, <1>2 DEF RuntimeTypes, RegistryTypes, NoListing, NoCancel, CancelOK
<1>4. CreateTypes'
  BY <1>0, <1>1 DEF CreateTypes, Gone, Calls
<1>5. MadeOK'
  <2>1. \A i \in Known : made[i] # 0 => made[i] \in Actions /\ op[made[i]] # Absent
    BY <1>0 DEF MadeOK, RuntimeTypes, Known
  <2>2. \A a \in Actions : op[a] # Absent => op'[a] # Absent
    BY <1>1 DEF Absent
  <2> QED
    BY <1>0, <1>1, <1>2, <2>1, <2>2 DEF MadeOK, CreatedOnce
<1>6. ASSUME NEW a \in Actions PROVE CallOK(a)' /\ BaseOK(a)'
  <2>1. CallOK(a) /\ \A c \in Actions : pc'[c] = "idle"
    BY <1>0, <1>1 DEF CreateInv
  <2> QED
    BY <1>1, <1>2, <2>1 DEF CallOK, BaseOK
<1> QED
  BY <1>2, <1>3, <1>4, <1>5, <1>6 DEF ScheduleInv, ScheduleTypes, CreateInv

\* Every step keeps the invariant.
LEMMA SchedulesStepKeeps == ScheduleInv /\ [SchedulesNext]_scheduleVars => ScheduleInv'
<1> SUFFICES ASSUME ScheduleInv, [SchedulesNext]_scheduleVars PROVE ScheduleInv'
  OBVIOUS
<1>1. ASSUME NEW a \in Actions, create_runtime_schedule(a) \/ list(a) \/ listed(a) \/ record_baseline(a) \/ find_created(a) \/ invoke(a)
      PROVE  ScheduleInv'
  BY <1>1, CreateKeeps, ListKeeps, ListedKeeps, BaselineKeeps, FindKeeps, InvokeKeeps
<1>2. CASE SdkActs \/ SdkTakesEffect \/ \E i \in ScheduleIds : SdkFires(i)
  BY <1>2, SdkKeeps
<1>3. ASSUME NEW i \in ScheduleIds, stop(i) PROVE ScheduleInv'
  BY <1>3, StopKeeps
<1>4. CASE reconcile \/ reconciled \/ cancel_runtime_schedule \/ cancel_listed
  BY <1>4, ReconcileKeeps
<1>5. CASE cancelled \/ reduce_event \/ snapshot_requested \/ reconcile_fails \/ loses_process \/ attach_schedules
  BY <1>5, CancelledKeeps, ReduceKeeps, RequestKeeps, FailsKeeps, CrashKeeps, AttachKeeps
<1>6. CASE UNCHANGED scheduleVars
  <2>0. RuntimeTypes /\ RegistryTypes /\ RegistryInv /\ CancelOK
    BY DEF ScheduleInv, ScheduleTypes
  <2>1. UNCHANGED <<live, every, made, events, rows, need, asks, listing, act, base, op, pc, cancel, st, again>>
    BY <1>6 DEF scheduleVars
  <2>2. RuntimeTypes' /\ RegistryTypes' /\ RowsAdvance /\ RegistryInv'
    BY <2>0, <2>1, TypesStand, RegistryStands
  <2>3. CancelOK'
    BY <2>0, <2>1, CancelStands DEF Known
  <2>4. \A i, n : Announced(i, n) => Announced(i, n)'
    BY <2>1 DEF Announced
  <2> QED
    BY <2>1, <2>2, <2>3, <2>4, RegistryStep
<1> QED
  BY <1>1, <1>2, <1>3, <1>4, <1>5, <1>6 DEF SchedulesNext

(* The inductive invariant of runtime schedules: what the events under way, the snapshot that is asked for, the *)
(* rows of the registry and the baselines of create calls say of the schedules that the runtime has.            *)
THEOREM SchedulesInvariant == SchedulesSpec => []ScheduleInv
BY SchedulesInitHolds, SchedulesStepKeeps, PTL DEF SchedulesSpec

(* Whatever calls, retries, lost answers, crashes and schedules of the session's own there are: a create action *)
(* makes one schedule, and the one its first call is confirmed with is not one that another action's invocation *)
(* made (create_runtime_schedule, find_created).                                                               *)
THEOREM CreatesAreTrue == SchedulesSpec => []ScheduleIsTrue
<1>1. ScheduleInv => ScheduleIsTrue
  BY DEF ScheduleInv, CreateInv, MadeOK, CallOK, ScheduleIsTrue, ConfirmedOwn
<1> QED
  BY <1>1, SchedulesInvariant, PTL

(* An attached session whose events are reduced shows in runtime_schedules the schedules that its runtime has,  *)
(* no matter which snapshots were merged, overtaken or lost, and whether the runtime died with the process; one *)
(* of them may be in doubt, but not when every request was reduced and served.                                  *)
THEOREM RegistryIsTrue == SchedulesSpec => []RegistryTrue
<1>1. ScheduleInv => RegistryTrue
  <2>1. SUFFICES ASSUME ScheduleInv, attached, events = <<>>
                 PROVE  /\ Shown("active") \subseteq live /\ live \subseteq Shown("active") \cup Shown("unknown")
                        /\ ~need /\ asks = 0 => Shown("active") = live
    BY DEF RegistryTrue
  <2>2. RuntimeTypes /\ RegistryInv
    BY <2>1 DEF ScheduleInv, ScheduleTypes
  <2>3. \A i : ~Coming(i) /\ ~Ending(i)
    BY <2>1 DEF Coming, Ending
  <2>4. Known \subseteq ScheduleIds /\ live \subseteq Known
    BY <2>2, KnownIds DEF RuntimeTypes
  <2>5. ASSUME NEW i \in ScheduleIds
        PROVE  /\ rows[i] = "active" => i \in live
               /\ i \in live => rows[i] = "active" \/ (rows[i] = "unknown" /\ Due)
    <3>1. CASE i \in Known
      BY <2>1, <2>2, <2>3, <3>1 DEF RegistryInv, RowsOK, RowOK, Final, Absent
    <3>2. CASE i \notin Known
      BY <2>2, <2>4, <3>2 DEF RegistryInv, RowsOK, Absent
    <3> QED
      BY <3>1, <3>2
  <2>6. Shown("active") \subseteq live /\ live \subseteq Shown("active") \cup Shown("unknown")
    BY <2>4, <2>5 DEF Shown
  <2>7. ASSUME ~need, asks = 0 PROVE Shown("active") = live
    <3>1. ~Due
      BY <2>1, <2>7 DEF Due, attached
    <3> QED
      BY <2>4, <2>5, <3>1 DEF Shown
  <2> QED
    BY <2>6, <2>7
<1> QED
  BY <1>1, SchedulesInvariant, PTL

(* A schedule that was cancelled or has fired does not come back: no event, receipt or old snapshot changes a   *)
(* final row of runtime_schedules.                                                                              *)
THEOREM FinalRowsStay == SchedulesSpec => FinalStays
<1>1. ScheduleInv /\ [SchedulesNext]_scheduleVars => [\A i \in ScheduleIds : rows[i] \in Final => rows'[i] = rows[i]]_scheduleVars
  <2>1. SUFFICES ASSUME ScheduleInv, [SchedulesNext]_scheduleVars PROVE RowsAdvance
    BY DEF RowsAdvance
  <2>2. CASE UNCHANGED rows
    BY <2>2 DEF RowsAdvance
  <2>3. \/ UNCHANGED rows \/ reduce_event \/ reconciled \/ cancel_listed \/ cancelled \/ attach_schedules
        \/ \E a \in Actions : listed(a)
    BY <2>1 DEF SchedulesNext, scheduleVars, create_runtime_schedule, list, record_baseline, find_created, invoke, SdkActs,
         SdkTakesEffect, SdkFires, stop, cancel_runtime_schedule, snapshot_requested, reconcile, reconcile_fails, loses_process, Registry
  <2> QED
    BY <2>1, <2>2, <2>3, ReduceKeeps, ReconcileKeeps, CancelledKeeps, AttachKeeps, ListedKeeps
<1> QED
  BY <1>1, SchedulesInvariant, PTL DEF SchedulesSpec, FinalStays
-----------------------------------------------------------------------------
(***************************************************************************)
(* SessionLifecycle.  What a record may hold is stated by its fields: only *)
(* those that the argument needs have a range.                             *)
(***************************************************************************)
\* What a job leads to.
Aims == {"none", "creating", "resuming", "ru", "detached", "closed", "fenced"}
\* The fields of the rows
RuntimeFields == {"st", "gen", "fence", "lease", "handle", "renews", "job", "to", "by", "failed", "cancelled", "doomed",
                  "ends", "was", "term"}
TaskFields == {"pc", "r", "old", "x"}
BindingFields == {"intent", "att", "gen", "fence", "reason"}
IsRuntime(row) ==
  /\ row = [f \in RuntimeFields |-> row[f]]
  /\ row.to \in Aims /\ row.by \in Tasks \cup {"none"} /\ row.failed \in {"no", "bad", "unknown"}
IsTask(row) == row = [f \in TaskFields |-> row[f]]
IsBinding(row) == row = [f \in BindingFields |-> row[f]]

\* The rows are records with their fields.
Shapes ==
  /\ rt = [r \in Runtimes |-> rt[r]] /\ \A r \in Runtimes : IsRuntime(rt[r])
  /\ task = [t \in Tasks |-> task[t]] /\ \A t \in Tasks : IsTask(task[t])
  /\ IsBinding(b) /\ intent = [f \in {"st", "thread"} |-> intent[f]]
  /\ threads \in Nat /\ creates \in Nat

\* The runtime will ask the SDK to make the session.
Asks(row) == row.to = "creating" /\ row.job \in {"acquire", "begin", "probe", "rpc"}
\* The creation is about to let its runtime ask.
WillAsk == task["create"].pc = "enter" /\ ~task["create"].x
\* By what the intent says, nobody has asked yet.
Unasked == intent.st \notin {"creating", "attached", "unknown"} \/ (intent.st = "unknown" /\ ~intent.thread)

\* Threads and sessions are made at most once; whoever asks is alone, and nobody asked before.
AskInv ==
  /\ threads <= 1 /\ creates <= 1
  /\ Unasked => creates = 0 /\ ~WillAsk /\ \A r \in Runtimes : ~Asks(rt[r])
  /\ WillAsk => creates = 0 /\ \A r \in Runtimes : ~Asks(rt[r])
  /\ \A r \in Runtimes : Asks(rt[r]) => creates = 0 /\ \A q \in Runtimes : Asks(rt[q]) => q = r

\* What the step the creation has come to says about the intent.
StepInv ==
  /\ task["create"].pc = "thread" => threads = 0
  /\ task["create"].pc \in {"find", "thread"} => ~intent.thread
  /\ task["create"].pc \notin {"idle", "find", "thread"} => intent.thread
  /\ task["create"].pc = "resume" => task["create"].x
  /\ ~intent.thread => Unasked
  /\ \A r \in Runtimes : rt[r].by = "create" => intent.thread

\* What only an SDK session brings about.
Sprung ==
  \/ b.att \in {"attached", "disconnecting"} \/ b.intent \in {"closed", "deleting", "delete_unknown", "deleted"}
  \/ task["delete"].pc \in {"reconcile", "rpc", "deleted"}
  \/ \E r \in Runtimes : rt[r].handle \/ rt[r].job = "mark"
\* Without a session nothing of it is there; a deletion that found it gone, or a row that says so, is right.
GoneInv ==
  /\ creates = 0 => sdk # "open" /\ ~Sprung
  /\ task["delete"].pc = "deleted" => sdk # "open"
  /\ DeletedForGood

\* The inductive invariant of creation and deletion.
CreationInv == Shapes /\ AskInv /\ StepInv /\ GoneInv

(***************************************************************************)
(* Most steps leave the intent, the SDK and the histories alone: they keep *)
(* the invariant if what they make of the runtimes, the tasks and the      *)
(* binding is calm, that is, asks for no session and revives none.         *)
(***************************************************************************)
\* What a runtime may become.
CalmRow(old, new) ==
  /\ IsRuntime(new)
  /\ Asks(new) => Asks(old)
  /\ new.handle \/ new.job = "mark" => creates # 0
  /\ new.by = "create" => intent.thread
CalmRuntimes(new) == new = [q \in Runtimes |-> new[q]] /\ \A q \in Runtimes : CalmRow(rt[q], new[q])
\* What the creation's and the deletion's own rows may become.
CalmTask(t, row) ==
  /\ IsTask(row)
  /\ t = "create" =>
       \/ row.pc = task["create"].pc /\ row.x = task["create"].x
       \/ row.pc = "idle"
       \/ intent.thread /\ row.pc \notin {"find", "thread", "resume"} /\ (row.pc = "enter" => row.x)
  /\ t = "delete" => (row.pc \in {"reconcile", "rpc", "deleted"} => creates # 0) /\ (row.pc = "deleted" => sdk # "open")
CalmTasks(new) == new = [t \in Tasks |-> new[t]] /\ \A t \in Tasks : CalmTask(t, new[t])
\* What the binding may become.
CalmBinding(new) ==
  /\ IsBinding(new)
  /\ creates = 0 => /\ new.att \notin {"attached", "disconnecting"}
                    /\ new.intent \notin {"closed", "deleting", "delete_unknown", "deleted"}
  /\ new.intent = "deleted" => sdk # "open" /\ new.att = "absent"

\* The five tasks.
LEMMA TaskNames == {"create", "delete", "attach", "sched", "overflow"} = Tasks
BY DEF Tasks

\* A free slot and an idle task ask for nothing.
LEMMA FreeIsRow == IsTask(Idle) /\ \A old : CalmRow(old, Free)
<1>1. Free = [f \in RuntimeFields |-> Free[f]]
  BY DEF Free, RuntimeFields
<1>2. IsRuntime(Free) /\ ~Asks(Free) /\ ~Free.handle /\ Free.job = "none" /\ Free.by = "none"
  BY <1>1 DEF Free, Asks, IsRuntime, Aims
<1>3. IsTask(Idle)
  BY DEF Idle, IsTask, TaskFields
<1>. QED
  BY <1>2, <1>3 DEF CalmRow

\* What stays as it is is calm.
LEMMA SameCalm ==
  ASSUME CreationInv
  PROVE  CalmRuntimes(rt) /\ CalmTasks(task) /\ CalmBinding(b)
<1>1. CalmRuntimes(rt)
  BY DEF CreationInv, Shapes, CalmRuntimes, CalmRow, GoneInv, Sprung, StepInv
<1>2. CalmTasks(task)
  BY DEF CreationInv, Shapes, CalmTasks, CalmTask, GoneInv, Sprung
<1>3. CalmBinding(b)
  BY DEF CreationInv, Shapes, CalmBinding, GoneInv, Sprung, DeletedForGood
<1>. QED
  BY <1>1, <1>2, <1>3

\* A calm step keeps the invariant.
LEMMA CalmKeeps ==
  ASSUME CreationInv, CalmRuntimes(rt'), CalmTasks(task'), CalmBinding(b'),
         UNCHANGED <<intent, sdk, threads, creates>>
  PROVE  CreationInv'
<1>1. Shapes'
  BY DEF CreationInv, Shapes, CalmRuntimes, CalmTasks, CalmTask, CalmBinding, CalmRow
<1>2. \A q \in Runtimes : CalmRow(rt[q], rt'[q])
  BY DEF CalmRuntimes
<1>3. /\ \A q \in Runtimes : Asks(rt'[q]) => Asks(rt[q])
      /\ \A q \in Runtimes : rt'[q].by = "create" => intent.thread
      /\ \A q \in Runtimes : rt'[q].handle \/ rt'[q].job = "mark" => creates # 0
  BY <1>2 DEF CalmRow
<1>4. CalmTask("create", task'["create"]) /\ CalmTask("delete", task'["delete"])
  BY TaskNames DEF CalmTasks
<1>5. WillAsk' => WillAsk
  BY <1>4 DEF CalmTask, WillAsk
<1>6. Unasked' <=> Unasked
  BY DEF Unasked
<1>7. AskInv'
  BY <1>3, <1>5, <1>6 DEF CreationInv, AskInv
<1>8. StepInv'
  BY <1>3, <1>6, <1>4 DEF CreationInv, StepInv, CalmTask
<1>9. GoneInv'
  <2>1. creates = 0 => ~Sprung'
    BY <1>3, <1>4 DEF CreationInv, GoneInv, Sprung, CalmTask, CalmBinding
  <2>. QED
    BY <2>1, <1>4 DEF CreationInv, GoneInv, DeletedForGood, CalmTask, CalmBinding
<1>. QED
  BY <1>1, <1>7, <1>8, <1>9 DEF CreationInv

\* Sweeping the runtimes that nobody refers to is calm.
LEMMA SweptCalm ==
  ASSUME NEW new, CalmRuntimes(new), NEW tk, NEW rg
  PROVE  CalmRuntimes(Swept(new, tk, rg))
BY FreeIsRow DEF CalmRuntimes, Swept

\* One runtime may be given a calm row.
LEMMA RuntimeSet ==
  ASSUME NEW f, CalmRuntimes(f), NEW r, NEW row, r \in Runtimes => CalmRow(rt[r], row)
  PROVE  CalmRuntimes([f EXCEPT ![r] = row])
BY DEF CalmRuntimes

\* One task may be given a calm row.
LEMMA TaskSet ==
  ASSUME NEW f, CalmTasks(f), NEW t \in Tasks, NEW row, CalmTask(t, row)
  PROVE  CalmTasks([f EXCEPT ![t] = row])
BY DEF CalmTasks

\* A task moves on and keeps what it has in hand.
LEMMA TaskTo ==
  ASSUME CreationInv, NEW t \in Tasks, NEW at,
         t = "create" => intent.thread /\ at \notin {"find", "thread", "resume"} /\ (at = "enter" => task[t].x),
         t = "delete" => (at \in {"reconcile", "rpc", "deleted"} => creates # 0) /\ (at = "deleted" => sdk # "open")
  PROVE  CalmTasks([task EXCEPT ![t].pc = at])
<1>1. task = [u \in Tasks |-> task[u]] /\ IsTask(task[t])
  BY DEF CreationInv, Shapes
<1>2. PICK row : row = [task[t] EXCEPT !.pc = at]
  OBVIOUS
<1>3. IsTask(row) /\ row.pc = at /\ row.x = task[t].x
  BY <1>1, <1>2 DEF IsTask, TaskFields
<1>4. [task EXCEPT ![t].pc = at] = [task EXCEPT ![t] = row]
  BY <1>1, <1>2
<1>. QED
  BY <1>3, <1>4, SameCalm, TaskSet DEF CalmTask

\* The task ends.
LEMMA FinishCalm ==
  ASSUME CreationInv, NEW t \in Tasks, Finish(t)
  PROVE  CalmRuntimes(rt') /\ CalmTasks(task')
<1>1. CalmTask(t, Idle)
  BY FreeIsRow DEF CalmTask, Idle
<1>2. CalmTasks(task')
  BY <1>1, SameCalm, TaskSet DEF Finish
<1>3. CalmRuntimes(rt')
  BY SameCalm, SweptCalm DEF Finish
<1>. QED
  BY <1>2, <1>3

\* How a job may end.
Results == {"ok", "bad", "unknown", "no"}

\* The caller of a job learns how it ended: it asks for nothing then.
LEMMA ToldCalm ==
  ASSUME CreationInv, NEW r \in Runtimes, NEW res \in Results
  PROVE  CalmTasks(Told(r, res))
<1>1. PICK by \in Tasks \cup {"none"} : by = rt[r].by
  BY DEF CreationInv, Shapes, IsRuntime
<1>2. by = "create" => intent.thread
  BY <1>1 DEF CreationInv, StepInv
<1>3. CASE by = "none"
  BY <1>1, <1>3, SameCalm DEF Told
<1>4. CASE by # "none"
  <2>1. PICK at : at = IF task[by].pc # "wait_close" THEN res ELSE IF res = "ok" THEN "closed" ELSE "unclosed"
    OBVIOUS
  <2>2. Told(r, res) = [task EXCEPT ![by].pc = at]
    BY <1>1, <1>4, <2>1 DEF Told
  <2>3. by \in Tasks /\ at \in Results \cup {"closed", "unclosed"}
    BY <1>1, <1>4, <2>1 DEF Results
  <2>. QED
    BY <1>2, <2>2, <2>3, TaskTo DEF Results
<1>. QED
  BY <1>3, <1>4

\* The end of a job is calm.
LEMMA JobEndsCalm ==
  ASSUME CreationInv, NEW r \in Runtimes, NEW row, IsRuntime(row), row.handle => creates # 0,
         NEW res \in Results, JobEnds(r, row, res)
  PROVE  CalmRuntimes(rt') /\ CalmTasks(task')
<1>1. PICK done : done = [row EXCEPT !.job = "none", !.to = "none", !.by = "none"]
  OBVIOUS
<1>2. CalmRow(rt[r], done)
  BY <1>1 DEF CalmRow, Asks, IsRuntime, RuntimeFields, Aims
<1>3. rt' = Swept([rt EXCEPT ![r] = done], task', reg) /\ task' = Told(r, res)
  BY <1>1 DEF JobEnds
<1>. QED
  BY <1>2, <1>3, SameCalm, RuntimeSet, SweptCalm, ToldCalm

\* The rows that the binding may become.
LEMMA BindingMoves ==
  ASSUME CreationInv
  PROVE  /\ \A r : CalmBinding(Unknown(r))
         /\ \A at \in {"ru", "owner_conflict", "absent"} : b.intent # "deleted" => CalmBinding([b EXCEPT !.att = at])
         /\ \A why : CalmBinding([b EXCEPT !.reason = why])
         /\ CalmBinding([b EXCEPT !.intent = "active"])
         /\ b.att \in Bound \cup {"ru"} => b.intent # "deleted"
<1>1. CalmBinding(b)
  BY SameCalm
<1>2. b.att \in Bound \cup {"ru"} => b.intent # "deleted"
  BY DEF CreationInv, GoneInv, DeletedForGood, Bound, Transitional
<1>3. \A at \in {"ru", "owner_conflict", "absent"} : b.intent # "deleted" => CalmBinding([b EXCEPT !.att = at])
  BY <1>1 DEF CalmBinding, IsBinding, BindingFields
<1>4. \A why : CalmBinding([b EXCEPT !.reason = why])
  BY <1>1 DEF CalmBinding, IsBinding, BindingFields
<1>5. CalmBinding([b EXCEPT !.intent = "active"])
  BY <1>1 DEF CalmBinding, IsBinding, BindingFields
<1>6. \A r : CalmBinding(Unknown(r))
  BY <1>1, <1>2, <1>3 DEF Unknown
<1>. QED
  BY <1>2, <1>3, <1>4, <1>5, <1>6

\* The row of a runtime as it is.
LEMMA RowSame ==
  ASSUME CreationInv, NEW r \in Runtimes
  PROVE  CalmRow(rt[r], rt[r]) /\ IsRuntime(rt[r])
BY SameCalm DEF CalmRuntimes, CalmRow

\* One runtime moves, and nothing but its row, the task rows and the binding.
LEMMA RowKeeps ==
  ASSUME CreationInv, NEW r, NEW row, r \in Runtimes => CalmRow(rt[r], row), rt' = [rt EXCEPT ![r] = row],
         CalmTasks(task'), CalmBinding(b'), UNCHANGED <<intent, sdk, threads, creates>>
  PROVE  CreationInv'
BY SameCalm, RuntimeSet, CalmKeeps

\* _stop_components drops the handle and keeps the job.
LEMMA StoppedRow ==
  ASSUME NEW row, IsRuntime(row)
  PROVE  /\ IsRuntime(Stopped(row)) /\ ~Stopped(row).handle
         /\ Stopped(row).by = row.by /\ Stopped(row).job = row.job /\ Stopped(row).to = row.to
BY DEF Stopped, IsRuntime, RuntimeFields

\* A runtime that is to be shut down asks no more than before.
LEMMA DoomCalm ==
  ASSUME CreationInv, NEW q, NEW how
  PROVE  CalmRuntimes(Doom(q, how))
<1>1. PICK row : row = [rt[q] EXCEPT !.doomed = how]
  OBVIOUS
<1>2. q \in Runtimes => CalmRow(rt[q], row)
  BY <1>1, RowSame DEF CalmRow, Asks, IsRuntime, RuntimeFields
<1>3. Doom(q, how) = rt \/ Doom(q, how) = [rt EXCEPT ![q] = row]
  BY <1>1 DEF Doom
<1>. QED
  BY <1>2, <1>3, SameCalm, RuntimeSet

\* The end of an attach transition, which a deletion may wait for, is calm.
LEMMA AnsweredCalm ==
  ASSUME CreationInv, NEW ok, AttachEnds(ok)
  PROVE  CalmRuntimes(rt') /\ CalmTasks(task')
<1>1. PICK mine : mine = IF task["delete"].pc # "attaching" THEN task["delete"]
                         ELSE IF ok THEN [task["delete"] EXCEPT !.pc = "close", !.r = task["attach"].r]
                         ELSE [task["delete"] EXCEPT !.pc = "bad"]
  OBVIOUS
<1>2. task = [t \in Tasks |-> task[t]] /\ CalmTask("delete", task["delete"]) /\ IsTask(task["delete"])
  BY SameCalm, TaskNames DEF CalmTasks, CalmTask
<1>3. CalmTask("delete", mine)
  BY <1>1, <1>2 DEF CalmTask, IsTask, TaskFields
<1>4. CalmTask("attach", Idle)
  BY FreeIsRow DEF CalmTask
<1>5. Answered(ok) = [[task EXCEPT !["attach"] = Idle] EXCEPT !["delete"] = mine]
  BY <1>1, <1>2, TaskNames DEF Answered
<1>6. CalmTasks([task EXCEPT !["attach"] = Idle])
  BY <1>4, SameCalm, TaskSet, TaskNames
<1>7. CalmTasks(Answered(ok))
  <2>1. PICK f : f = [task EXCEPT !["attach"] = Idle]
    OBVIOUS
  <2>2. "delete" \in Tasks /\ CalmTasks(f) /\ Answered(ok) = [f EXCEPT !["delete"] = mine]
    BY <1>5, <1>6, <2>1, TaskNames
  <2>3. CalmTasks([f EXCEPT !["delete"] = mine])
    BY <1>3, <2>2, TaskSet
  <2>. QED
    BY <2>2, <2>3
<1>. QED
  BY <1>7, SameCalm, SweptCalm DEF AttachEnds

(* One lemma per action on a runtime: it keeps the invariant. *)
LEMMA ShutdownMarkKeeps ==
  ASSUME CreationInv, NEW r \in Runtimes, shutdown_mark(r)
  PROVE  CreationInv'
<1>1. CalmRow(rt[r], rt[r]) /\ IsRuntime(rt[r])
  BY RowSame
<1>2. CalmBinding(b') /\ CalmTasks(task')
  BY SameCalm, BindingMoves DEF shutdown_mark
<1>3. UNCHANGED <<intent, sdk, threads, creates>>
  BY DEF shutdown_mark, World
<1>4. CASE rt[r].st = "closed"
  <2>1. PICK row : row = [rt[r] EXCEPT !.doomed = "no"]
    OBVIOUS
  <2>2. CalmRow(rt[r], row)
    BY <1>1, <2>1 DEF CalmRow, Asks, IsRuntime, RuntimeFields
  <2>3. rt' = Swept([rt EXCEPT ![r] = row], task, reg)
    BY <1>4, <2>1 DEF shutdown_mark
  <2>. QED
    BY <1>2, <1>3, <2>2, <2>3, RuntimeSet, SweptCalm, SameCalm, CalmKeeps
<1>5. CASE rt[r].st # "closed"
  <2>1. PICK to \in {"fenced", "ru", "detached"} : rt' = [rt EXCEPT ![r].job = "shutdown", ![r].to = to]
    BY <1>5 DEF shutdown_mark
  <2>2. PICK row : row = [rt[r] EXCEPT !.job = "shutdown", !.to = to]
    OBVIOUS
  <2>3. CalmRow(rt[r], row)
    BY <1>1, <2>2 DEF CalmRow, Asks, IsRuntime, RuntimeFields, Aims
  <2>4. rt' = [rt EXCEPT ![r] = row]
    BY <2>1, <2>2
  <2>. QED
    BY <1>2, <1>3, <2>3, <2>4, RowKeeps, SameCalm
<1>. QED
  BY <1>4, <1>5

LEMMA ShutdownStopKeeps ==
  ASSUME CreationInv, NEW r \in Runtimes, shutdown_stop(r)
  PROVE  CreationInv'
<1>1. CalmRow(rt[r], rt[r]) /\ IsRuntime(rt[r])
  BY RowSame
<1>2. CalmBinding(b') /\ UNCHANGED <<intent, sdk, threads, creates>>
  BY SameCalm DEF shutdown_stop, World
<1>3. CalmTasks(task')
  <2>1. task' = [t \in Tasks |-> task'[t]]
    BY DEF shutdown_stop
  <2>2. ASSUME NEW t \in Tasks
        PROVE  CalmTask(t, task'[t])
    <3>1. CalmTask(t, task[t]) /\ IsTask(task[t]) /\ (task["create"].pc = "replacing" => intent.thread)
      BY SameCalm DEF CalmTasks, CalmTask, CreationInv, StepInv
    <3>2. CASE task'[t] = task[t]
      BY <3>1, <3>2
    <3>3. CASE task[t].pc = "replacing" /\ task'[t] = [task[t] EXCEPT !.pc = "bad", !.old = 0]
      <4>1. IsTask(task'[t]) /\ task'[t].pc = "bad"
        BY <3>1, <3>3 DEF IsTask, TaskFields
      <4>. QED
        BY <3>1, <3>3, <4>1 DEF CalmTask
    <3>. QED
      BY <3>2, <3>3 DEF shutdown_stop
  <2>. QED
    BY <2>1, <2>2 DEF CalmTasks
<1>4. CalmRuntimes(rt')
  <2>1. PICK at : at = IF StopFails(r) /\ rt[r].doomed # "emergency" /\ rt[r].st # "fenced" /\ rt[r].to # "ru"
                       THEN rt[r].st ELSE rt[r].to
    OBVIOUS
  <2>2. PICK row : row = [Stopped(rt[r]) EXCEPT !.job = "none", !.to = "none", !.doomed = "no", !.st = at]
    OBVIOUS
  <2>3. rt' = Swept([rt EXCEPT ![r] = row], task', reg)
    BY <2>1, <2>2 DEF shutdown_stop
  <2>4. PICK down : down = Stopped(rt[r])
    OBVIOUS
  <2>5. IsRuntime(down) /\ ~down.handle /\ down.by = rt[r].by
    BY <1>1, <2>4, StoppedRow
  <2>6. row = [down EXCEPT !.job = "none", !.to = "none", !.doomed = "no", !.st = at]
    BY <2>2, <2>4
  <2>7. CalmRow(rt[r], row)
    BY <1>1, <2>5, <2>6 DEF CalmRow, Asks, IsRuntime, RuntimeFields, Aims
  <2>. QED
    BY <2>3, <2>7, SameCalm, RuntimeSet, SweptCalm
<1>. QED
  BY <1>2, <1>3, <1>4, CalmKeeps

LEMMA AcquireKeeps ==
  ASSUME CreationInv, NEW r \in Runtimes, attach_acquire(r)
  PROVE  CreationInv'
<1>1. CalmRow(rt[r], rt[r]) /\ IsRuntime(rt[r])
  BY RowSame
<1>2. CalmBinding(b') /\ rt[r].job = "acquire" /\ UNCHANGED <<intent, sdk, threads, creates>>
  BY SameCalm DEF attach_acquire, World
<1>3. CASE Conflict
  <2>1. PICK row : row = [rt[r] EXCEPT !.st = "detached"]
    OBVIOUS
  <2>2. IsRuntime(row) /\ (row.handle => creates # 0)
    BY <1>1, <2>1 DEF CalmRow, IsRuntime, RuntimeFields
  <2>3. JobEnds(r, row, "bad") /\ "bad" \in Results
    BY <1>3, <2>1 DEF attach_acquire, Results
  <2>. QED
    BY <1>2, <2>2, <2>3, JobEndsCalm, CalmKeeps
<1>4. CASE ~Conflict
  <2>1. PICK row : row = [rt[r] EXCEPT !.lease = Acquired.fence, !.renews = TRUE, !.job = "begin"]
    OBVIOUS
  <2>2. CalmRow(rt[r], row)
    BY <1>1, <1>2, <2>1 DEF CalmRow, Asks, IsRuntime, RuntimeFields
  <2>3. rt' = [rt EXCEPT ![r] = row] /\ task' = task
    BY <1>4, <2>1 DEF attach_acquire
  <2>. QED
    BY <1>2, <2>2, <2>3, RowKeeps, SameCalm
<1>. QED
  BY <1>3, <1>4

LEMMA BeginKeeps ==
  ASSUME CreationInv, NEW r \in Runtimes, begin_attachment(r)
  PROVE  CreationInv'
<1>1. CalmRow(rt[r], rt[r]) /\ IsRuntime(rt[r])
  BY RowSame
<1>2. CalmTasks(task') /\ rt[r].job = "begin" /\ UNCHANGED <<intent, sdk, threads, creates>>
  BY SameCalm DEF begin_attachment, World
<1>3. CASE MayAttach(r)
  <2>1. PICK gen, fence : gen = b'.gen /\ fence = b'.fence
    OBVIOUS
  <2>2. PICK job \in {"probe", "rpc"} : job = IF rt[r].to = "resuming" THEN "probe" ELSE "rpc"
    OBVIOUS
  <2>3. PICK row : row = [rt[r] EXCEPT !.gen = gen, !.fence = fence, !.job = job]
    OBVIOUS
  <2>4. CalmRow(rt[r], row)
    BY <1>1, <1>2, <2>3 DEF CalmRow, Asks, IsRuntime, RuntimeFields
  <2>5. rt' = [rt EXCEPT ![r] = row]
    BY <1>3, <2>1, <2>2, <2>3 DEF begin_attachment
  <2>6. CalmBinding(b')
    <3>1. b' = [b EXCEPT !.att = rt[r].to, !.gen = b.gen + 1, !.fence = rt[r].lease]
      BY <1>3 DEF begin_attachment
    <3>2. b.intent \in {"active", "closed"} /\ rt[r].to \notin {"attached", "disconnecting"}
      BY <1>1, <1>3 DEF MayAttach, IsRuntime, Aims
    <3>3. CalmBinding(b) /\ IsBinding(b)
      BY SameCalm DEF CalmBinding
    <3>. QED
      BY <3>1, <3>2, <3>3 DEF CalmBinding, IsBinding, BindingFields
  <2>. QED
    BY <1>2, <2>4, <2>5, <2>6, RowKeeps, SameCalm
<1>4. CASE ~MayAttach(r)
  <2>1. PICK row : row = [rt[r] EXCEPT !.job = "unwind", !.failed = "bad"]
    OBVIOUS
  <2>2. CalmRow(rt[r], row)
    BY <1>1, <2>1 DEF CalmRow, Asks, IsRuntime, RuntimeFields
  <2>3. rt' = [rt EXCEPT ![r] = row] /\ b' = b
    BY <1>4, <2>1 DEF begin_attachment
  <2>. QED
    BY <1>2, <2>2, <2>3, RowKeeps, SameCalm
<1>. QED
  BY <1>3, <1>4

LEMMA ProbeKeeps ==
  ASSUME CreationInv, NEW r \in Runtimes, attach_probe(r)
  PROVE  CreationInv'
<1>1. CalmRow(rt[r], rt[r]) /\ IsRuntime(rt[r])
  BY RowSame
<1>2. rt[r].job = "probe" /\ UNCHANGED <<intent, sdk, threads, creates>>
  BY DEF attach_probe, World
<1>3. CASE rt' = [rt EXCEPT ![r].job = "rpc"] /\ UNCHANGED <<b, task>>
  <2>1. PICK row : row = [rt[r] EXCEPT !.job = "rpc"]
    OBVIOUS
  <2>2. CalmRow(rt[r], row)
    BY <1>1, <1>2, <2>1 DEF CalmRow, Asks, IsRuntime, RuntimeFields
  <2>3. rt' = [rt EXCEPT ![r] = row]
    BY <1>3, <2>1
  <2>9. CalmTasks(task') /\ CalmBinding(b')
    BY <1>3, SameCalm
  <2>. QED
    BY <1>2, <2>2, <2>3, <2>9, RowKeeps
<1>4. ASSUME NEW att \in {"ru", "owner_conflict"}, b.att \in {"creating", "resuming"}, b' = [b EXCEPT !.att = att],
             JobEnds(r, [Stopped(rt[r]) EXCEPT !.st = "ru"], IF att = "ru" THEN "unknown" ELSE "bad")
      PROVE  CreationInv'
  <2>1. PICK down : down = Stopped(rt[r])
    OBVIOUS
  <2>2. PICK row : row = [down EXCEPT !.st = "ru"]
    OBVIOUS
  <2>3. IsRuntime(row) /\ ~row.handle
    BY <1>1, <2>1, <2>2, StoppedRow DEF IsRuntime, RuntimeFields
  <2>4. PICK res \in Results : res = IF att = "ru" THEN "unknown" ELSE "bad"
    BY DEF Results
  <2>5. JobEnds(r, row, res)
    BY <1>4, <2>1, <2>2, <2>4
  <2>6. CalmBinding(b')
    BY <1>4, BindingMoves DEF Bound, Transitional
  <2>. QED
    BY <1>2, <2>3, <2>5, <2>6, JobEndsCalm, CalmKeeps
<1>5. CASE rt' = [rt EXCEPT ![r].job = "unwind", ![r].failed = "bad"] /\ UNCHANGED <<b, task>>
  <2>1. PICK row : row = [rt[r] EXCEPT !.job = "unwind", !.failed = "bad"]
    OBVIOUS
  <2>2. CalmRow(rt[r], row)
    BY <1>1, <2>1 DEF CalmRow, Asks, IsRuntime, RuntimeFields
  <2>3. rt' = [rt EXCEPT ![r] = row]
    BY <1>5, <2>1
  <2>9. CalmTasks(task') /\ CalmBinding(b')
    BY <1>5, SameCalm
  <2>. QED
    BY <1>2, <2>2, <2>3, <2>9, RowKeeps
<1>. QED
  BY <1>3, <1>4, <1>5 DEF attach_probe

LEMMA UnwindKeeps ==
  ASSUME CreationInv, NEW r \in Runtimes, attach_unwind(r)
  PROVE  CreationInv'
<1>1. CalmRow(rt[r], rt[r]) /\ IsRuntime(rt[r])
  BY RowSame
<1>2. UNCHANGED <<intent, sdk, threads, creates>>
  BY DEF attach_unwind, World
<1>3. CASE /\ UNCHANGED <<b, task>>
           /\ rt' = [rt EXCEPT ![r] = [Stopped(rt[r]) EXCEPT !.st = "ru", !.job = "unwound", !.lease = rt[r].lease]]
  <2>1. PICK down : down = Stopped(rt[r])
    OBVIOUS
  <2>2. IsRuntime(down) /\ ~down.handle /\ down.by = rt[r].by
    BY <1>1, <2>1, StoppedRow
  <2>3. PICK row : row = [down EXCEPT !.st = "ru", !.job = "unwound", !.lease = rt[r].lease]
    OBVIOUS
  <2>4. CalmRow(rt[r], row)
    BY <1>1, <2>2, <2>3 DEF CalmRow, Asks, IsRuntime, RuntimeFields
  <2>5. rt' = [rt EXCEPT ![r] = row]
    BY <1>3, <2>1, <2>3
  <2>9. CalmTasks(task') /\ CalmBinding(b')
    BY <1>3, SameCalm
  <2>. QED
    BY <1>2, <2>4, <2>5, <2>9, RowKeeps
<1>4. CASE /\ b' = IF b.fence = rt[r].lease /\ b.att \in {"creating", "resuming"} THEN [b EXCEPT !.att = "ru"] ELSE b
           /\ JobEnds(r, [rt[r] EXCEPT !.lease = 0, !.failed = "no"], rt[r].failed)
  <2>1. PICK row : row = [rt[r] EXCEPT !.lease = 0, !.failed = "no"]
    OBVIOUS
  <2>2. IsRuntime(row) /\ (row.handle => creates # 0)
    BY <1>1, <2>1 DEF CalmRow, IsRuntime, RuntimeFields
  <2>3. JobEnds(r, row, rt[r].failed) /\ rt[r].failed \in Results
    BY <1>1, <1>4, <2>1 DEF IsRuntime, Results
  <2>4. CalmBinding(b')
    BY <1>4, BindingMoves, SameCalm DEF Bound, Transitional
  <2>. QED
    BY <1>2, <2>2, <2>3, <2>4, JobEndsCalm, CalmKeeps
<1>. QED
  BY <1>3, <1>4 DEF attach_unwind

\* The SDK makes the session: this runtime was the only one to ask, and nobody had asked before.
LEMMA AskAnswered ==
  ASSUME CreationInv, NEW r \in Runtimes, Asks(rt[r]), NEW row, IsRuntime(row), ~Asks(row), row.by = rt[r].by,
         rt' = [rt EXCEPT ![r] = row], sdk' = "open", creates' = creates + 1, UNCHANGED <<b, intent, threads, task>>
  PROVE  CreationInv'
<1>1. creates = 0 /\ creates' = 1 /\ ~Unasked /\ ~WillAsk /\ \A q \in Runtimes : Asks(rt[q]) => q = r
  BY DEF CreationInv, AskInv, Shapes
<1>2. rt = [q \in Runtimes |-> rt[q]]
  BY DEF CreationInv, Shapes
<1>3. rt'[r] = row /\ \A q \in Runtimes : q # r => rt'[q] = rt[q]
  BY <1>2
<1>4. \A q \in Runtimes : ~Asks(rt'[q])
  BY <1>1, <1>3
<1>5. Shapes'
  <2>1. rt' = [q \in Runtimes |-> rt'[q]] /\ \A q \in Runtimes : IsRuntime(rt'[q])
    BY <1>2, <1>3 DEF CreationInv, Shapes
  <2>. QED
    BY <1>1, <2>1 DEF CreationInv, Shapes
<1>6. ~Unasked' /\ ~WillAsk'
  BY <1>1 DEF Unasked, WillAsk
<1>7. AskInv'
  BY <1>1, <1>4, <1>6 DEF CreationInv, AskInv
<1>8. StepInv'
  <2>1. \A q \in Runtimes : rt'[q].by = rt[q].by
    BY <1>3
  <2>2. ~intent'.thread => Unasked'
    BY DEF CreationInv, StepInv, Unasked
  <2>. QED
    BY <2>1, <2>2 DEF CreationInv, StepInv
<1>9. GoneInv'
  BY <1>1 DEF CreationInv, GoneInv, Sprung, DeletedForGood
<1>. QED
  BY <1>5, <1>7, <1>8, <1>9 DEF CreationInv

LEMMA RpcKeeps ==
  ASSUME CreationInv, NEW r \in Runtimes, attach_rpc(r)
  PROVE  CreationInv'
<1>1. CalmRow(rt[r], rt[r]) /\ IsRuntime(rt[r])
  BY RowSame
<1>2. rt[r].job = "rpc" /\ UNCHANGED <<b, intent, threads, task>>
  BY DEF attach_rpc
<1>3. CalmTasks(task') /\ CalmBinding(b')
  BY <1>2, SameCalm
<1>4. PICK row : /\ IsRuntime(row) /\ ~Asks(row) /\ row.by = rt[r].by /\ rt' = [rt EXCEPT ![r] = row]
                 /\ \/ row.job # "mark" /\ (row.handle <=> rt[r].handle)
                    \/ sdk = "open" \/ (rt[r].to = "creating" /\ sdk' = "open" /\ creates' = creates + 1)
  <2>1. PICK one : one = [rt[r] EXCEPT !.handle = TRUE, !.term = FALSE, !.job = "mark"]
    OBVIOUS
  <2>2. PICK two : two = [rt[r] EXCEPT !.handle = TRUE, !.job = "none", !.failed = "unknown"]
    OBVIOUS
  <2>3. PICK three : three = [rt[r] EXCEPT !.job = "unwind", !.failed = "unknown"]
    OBVIOUS
  <2>4. IsRuntime(one) /\ ~Asks(one) /\ one.by = rt[r].by
    BY <1>1, <2>1 DEF IsRuntime, RuntimeFields, Asks
  <2>5. IsRuntime(two) /\ ~Asks(two) /\ two.by = rt[r].by
    BY <1>1, <2>2 DEF IsRuntime, RuntimeFields, Asks
  <2>6. IsRuntime(three) /\ ~Asks(three) /\ three.by = rt[r].by /\ three.job # "mark" /\ (three.handle <=> rt[r].handle)
    BY <1>1, <2>3 DEF IsRuntime, RuntimeFields, Asks
  <2>7. CASE rt' = [rt EXCEPT ![r] = three]
    BY <2>6, <2>7
  <2>8. CASE /\ rt' = [rt EXCEPT ![r] = one]
             /\ sdk = "open" \/ (rt[r].to = "creating" /\ sdk' = "open" /\ creates' = creates + 1)
    BY <2>4, <2>8
  <2>9. CASE /\ rt' = [rt EXCEPT ![r] = two]
             /\ sdk = "open" \/ (rt[r].to = "creating" /\ sdk' = "open" /\ creates' = creates + 1)
    BY <2>5, <2>9
  <2>. QED
    BY <2>1, <2>2, <2>3, <2>7, <2>8, <2>9 DEF attach_rpc
<1>5. CASE UNCHANGED <<sdk, creates>>
  <2>1. sdk = "open" => creates # 0
    BY DEF CreationInv, GoneInv
  <2>2. creates' # creates + 1
    BY <1>5 DEF CreationInv, Shapes
  <2>3. CalmRow(rt[r], row)
    BY <1>1, <1>4, <2>1, <2>2 DEF CalmRow
  <2>. QED
    BY <1>2, <1>3, <1>4, <1>5, <2>3, RowKeeps
<1>6. CASE rt[r].to = "creating" /\ sdk' = "open" /\ creates' = creates + 1
  <2>1. Asks(rt[r])
    BY <1>2, <1>6 DEF Asks
  <2>. QED
    BY <1>2, <1>4, <1>6, <2>1, AskAnswered
<1>. QED
  BY <1>5, <1>6 DEF attach_rpc

LEMMA MarkKeeps ==
  ASSUME CreationInv, NEW r \in Runtimes, attach_mark(r)
  PROVE  CreationInv'
<1>1. CalmRow(rt[r], rt[r]) /\ IsRuntime(rt[r])
  BY RowSame
<1>2. rt[r].job = "mark" /\ CalmTasks(task') /\ UNCHANGED <<intent, sdk, threads, creates>>
  BY SameCalm DEF attach_mark, World
<1>3. creates # 0
  BY <1>1, <1>2 DEF CalmRow
<1>4. CalmBinding(b')
  <2>1. CalmBinding(b) /\ IsBinding(b)
    BY SameCalm DEF CalmBinding
  <2>2. b' = b \/ (b.att \in {"creating", "resuming"} /\ \E att \in {"attached", "ru"} : b' = [b EXCEPT !.att = att])
    BY DEF attach_mark
  <2>3. ASSUME b.att \in {"creating", "resuming"}, NEW att \in {"attached", "ru"}
        PROVE  CalmBinding([b EXCEPT !.att = att])
    BY <1>3, <2>1, <2>3 DEF CalmBinding, IsBinding, BindingFields
  <2>. QED
    BY <2>1, <2>2, <2>3
<1>5. CASE rt' = [rt EXCEPT ![r].job = "settle"]
  <2>1. PICK row : row = [rt[r] EXCEPT !.job = "settle"]
    OBVIOUS
  <2>2. CalmRow(rt[r], row) /\ rt' = [rt EXCEPT ![r] = row]
    BY <1>1, <1>3, <1>5, <2>1 DEF CalmRow, Asks, IsRuntime, RuntimeFields
  <2>. QED
    BY <1>2, <1>4, <2>2, RowKeeps
<1>6. ASSUME NEW res \in {"bad", "unknown"}, rt' = [rt EXCEPT ![r].job = "none", ![r].failed = res]
      PROVE  CreationInv'
  <2>1. PICK row : row = [rt[r] EXCEPT !.job = "none", !.failed = res]
    OBVIOUS
  <2>2. CalmRow(rt[r], row) /\ rt' = [rt EXCEPT ![r] = row]
    BY <1>1, <1>3, <1>6, <2>1 DEF CalmRow, Asks, IsRuntime, RuntimeFields
  <2>. QED
    BY <1>2, <1>4, <2>2, RowKeeps
<1>. QED
  BY <1>5, <1>6 DEF attach_mark

LEMMA ReadyKeeps ==
  ASSUME CreationInv, NEW r \in Runtimes, attach_ready(r)
  PROVE  CreationInv'
<1>1. CalmRow(rt[r], rt[r]) /\ IsRuntime(rt[r])
  BY RowSame
<1>2. CalmBinding(b') /\ UNCHANGED <<intent, sdk, threads, creates>>
  BY SameCalm DEF attach_ready, World
<1>3. CASE JobEnds(r, [rt[r] EXCEPT !.st = "ready"], "ok")
  <2>1. PICK row : row = [rt[r] EXCEPT !.st = "ready"]
    OBVIOUS
  <2>2. IsRuntime(row) /\ (row.handle => creates # 0)
    BY <1>1, <2>1 DEF CalmRow, IsRuntime, RuntimeFields
  <2>3. JobEnds(r, row, "ok") /\ "ok" \in Results
    BY <1>3, <2>1 DEF Results
  <2>. QED
    BY <1>2, <2>2, <2>3, JobEndsCalm, CalmKeeps
<1>4. CASE rt' = [rt EXCEPT ![r].job = "none", ![r].failed = "bad"] /\ task' = task
  <2>1. PICK row : row = [rt[r] EXCEPT !.job = "none", !.failed = "bad"]
    OBVIOUS
  <2>2. CalmRow(rt[r], row) /\ rt' = [rt EXCEPT ![r] = row] /\ CalmTasks(task')
    BY <1>1, <1>4, <2>1, SameCalm DEF CalmRow, Asks, IsRuntime, RuntimeFields
  <2>. QED
    BY <1>2, <2>2, RowKeeps
<1>. QED
  BY <1>3, <1>4 DEF attach_ready

LEMMA CleanupKeeps ==
  ASSUME CreationInv, NEW r \in Runtimes, cleanup_failed_attach(r)
  PROVE  CreationInv'
<1>1. CalmRow(rt[r], rt[r]) /\ IsRuntime(rt[r])
  BY RowSame
<1>2. UNCHANGED <<intent, sdk, threads, creates>>
  BY DEF cleanup_failed_attach, World
<1>3. CASE rt[r].lease = 0 /\ ~rt[r].handle
  <2>1. PICK at : at = IF rt[r].st = "attaching" THEN "detached" ELSE rt[r].st
    OBVIOUS
  <2>2. PICK row : row = [rt[r] EXCEPT !.failed = "no", !.st = at]
    OBVIOUS
  <2>3. IsRuntime(row) /\ (row.handle => creates # 0)
    BY <1>1, <2>2 DEF CalmRow, IsRuntime, RuntimeFields
  <2>4. JobEnds(r, row, rt[r].failed) /\ b' = b
    BY <1>3, <2>1, <2>2 DEF cleanup_failed_attach
  <2>5. rt[r].failed \in Results /\ CalmBinding(b')
    BY <1>1, <2>4, SameCalm DEF IsRuntime, Results
  <2>. QED
    BY <1>2, <2>3, <2>4, <2>5, JobEndsCalm, CalmKeeps
<1>4. CASE ~(rt[r].lease = 0 /\ ~rt[r].handle)
  <2>1. PICK row : row = [rt[r] EXCEPT !.job = "stop", !.to = "ru"]
    OBVIOUS
  <2>2. CalmRow(rt[r], row)
    BY <1>1, <2>1 DEF CalmRow, Asks, IsRuntime, RuntimeFields, Aims
  <2>3. rt' = [rt EXCEPT ![r] = row] /\ task' = task /\ b' = Unknown(r)
    BY <1>4, <2>1 DEF cleanup_failed_attach
  <2>4. CalmTasks(task') /\ CalmBinding(b')
    BY <2>3, SameCalm, BindingMoves
  <2>. QED
    BY <1>2, <2>2, <2>3, <2>4, RowKeeps
<1>. QED
  BY <1>3, <1>4

LEMMA StopComponentsKeeps ==
  ASSUME CreationInv, NEW r \in Runtimes, stop_components(r)
  PROVE  CreationInv'
<1>1. CalmRow(rt[r], rt[r]) /\ IsRuntime(rt[r])
  BY RowSame
<1>2. CalmBinding(b') /\ UNCHANGED <<intent, sdk, threads, creates>>
  BY SameCalm DEF stop_components, World
<1>3. PICK down : down = Stopped(rt[r])
  OBVIOUS
<1>4. IsRuntime(down) /\ ~down.handle
  BY <1>1, <1>3, StoppedRow
<1>5. PICK at : at = IF StopFails(r) /\ ~(rt[r].failed # "no") THEN down.st ELSE rt[r].to
  OBVIOUS
<1>6. PICK row : row = [down EXCEPT !.failed = "no", !.st = at]
  OBVIOUS
<1>7. IsRuntime(row) /\ (row.handle => creates # 0)
  BY <1>4, <1>6 DEF IsRuntime, RuntimeFields
<1>8. PICK res \in Results : JobEnds(r, row, res)
  <2>1. PICK res : res = IF rt[r].failed # "no" THEN IF StopFails(r) THEN "unknown" ELSE rt[r].failed
                         ELSE IF rt[r].to = "ru" \/ StopFails(r) THEN "bad" ELSE "ok"
    OBVIOUS
  <2>2. res \in Results
    BY <1>1, <2>1 DEF Results, IsRuntime
  <2>3. JobEnds(r, row, res)
    BY <1>3, <1>5, <1>6, <2>1 DEF stop_components
  <2>. QED
    BY <2>2, <2>3
<1>. QED
  BY <1>2, <1>7, <1>8, JobEndsCalm, CalmKeeps

LEMMA RenewalKeeps ==
  ASSUME CreationInv, NEW r \in Runtimes, renewal_fails(r)
  PROVE  CreationInv'
<1>1. CalmRow(rt[r], rt[r]) /\ IsRuntime(rt[r])
  BY RowSame
<1>2. CalmBinding(b') /\ CalmTasks(task') /\ UNCHANGED <<intent, sdk, threads, creates>>
  BY SameCalm, BindingMoves DEF renewal_fails, World
<1>3. PICK row : row = [rt[r] EXCEPT !.st = "fenced", !.renews = FALSE]
  OBVIOUS
<1>4. CalmRow(rt[r], row)
  BY <1>1, <1>3 DEF CalmRow, Asks, IsRuntime, RuntimeFields
<1>5. rt' = [rt EXCEPT ![r] = row]
  BY <1>3 DEF renewal_fails
<1>. QED
  BY <1>2, <1>4, <1>5, RowKeeps

LEMMA ShutdownEventKeeps ==
  ASSUME CreationInv, NEW r \in Runtimes, shutdown_event(r)
  PROVE  CreationInv'
<1>1. CalmRow(rt[r], rt[r]) /\ IsRuntime(rt[r])
  BY RowSame
<1>2. CalmTasks(task') /\ UNCHANGED <<intent, sdk, threads, creates>>
  BY SameCalm DEF shutdown_event, World
<1>3. CalmBinding(b')
  BY SameCalm, BindingMoves DEF shutdown_event
<1>4. PICK row : row = [rt[r] EXCEPT !.ends = TRUE, !.was = rt[r].st, !.st = "terminal", !.term = TRUE]
  OBVIOUS
<1>5. CalmRow(rt[r], row)
  BY <1>1, <1>4 DEF CalmRow, Asks, IsRuntime, RuntimeFields
<1>6. rt' = [rt EXCEPT ![r] = row]
  BY <1>4 DEF shutdown_event
<1>. QED
  BY <1>2, <1>3, <1>5, <1>6, RowKeeps

LEMMA ResumeEventKeeps ==
  ASSUME CreationInv, NEW r \in Runtimes, resume_event(r)
  PROVE  CreationInv'
<1>1. CalmRow(rt[r], rt[r]) /\ IsRuntime(rt[r])
  BY RowSame
<1>2. CalmTasks(task') /\ UNCHANGED <<intent, sdk, threads, creates>>
  BY SameCalm DEF resume_event, World
<1>3. CalmBinding(b')
  <2>1. creates # 0
    BY DEF resume_event, CreationInv, GoneInv
  <2>2. CalmBinding(b)
    BY SameCalm
  <2>3. b.intent = "active" => CalmBinding([b EXCEPT !.att = "attached"])
    BY <2>1, <2>2 DEF CalmBinding, IsBinding, BindingFields
  <2>. QED
    BY <2>2, <2>3 DEF resume_event
<1>4. PICK at : at = IF rt[r].st = "terminal" THEN rt[r].was ELSE rt[r].st
  OBVIOUS
<1>5. PICK row : row = [rt[r] EXCEPT !.ends = FALSE, !.term = FALSE, !.was = "none", !.st = at]
  OBVIOUS
<1>6. CalmRow(rt[r], row)
  BY <1>1, <1>5 DEF CalmRow, Asks, IsRuntime, RuntimeFields
<1>7. rt' = [rt EXCEPT ![r] = row]
  BY <1>4, <1>5 DEF resume_event
<1>. QED
  BY <1>2, <1>3, <1>6, <1>7, RowKeeps

LEMMA FinalizeKeeps ==
  ASSUME CreationInv, NEW r \in Runtimes, finalize_handle_shutdown(r)
  PROVE  CreationInv'
<1>1. CalmRow(rt[r], rt[r]) /\ IsRuntime(rt[r])
  BY RowSame
<1>2. CalmBinding(b') /\ CalmTasks(task') /\ UNCHANGED <<intent, sdk, threads, creates>>
  BY SameCalm, BindingMoves DEF finalize_handle_shutdown, World
<1>3. PICK row : row = [rt[r] EXCEPT !.job = "stop", !.to = "ru", !.ends = FALSE, !.was = "none"]
  OBVIOUS
<1>4. CalmRow(rt[r], row)
  BY <1>1, <1>3 DEF CalmRow, Asks, IsRuntime, RuntimeFields, Aims
<1>5. rt' = [rt EXCEPT ![r] = row]
  BY <1>3 DEF finalize_handle_shutdown
<1>. QED
  BY <1>2, <1>4, <1>5, RowKeeps

LEMMA OverflowKeeps ==
  ASSUME CreationInv, NEW r \in Runtimes, overflow(r)
  PROVE  CreationInv'
<1>1. CalmRow(rt[r], rt[r]) /\ IsRuntime(rt[r])
  BY RowSame
<1>2. UNCHANGED <<intent, sdk, threads, creates>>
  BY DEF overflow, World
<1>3. CalmBinding(b')
  BY SameCalm, BindingMoves DEF overflow, Bound
<1>4. PICK row : row = [rt[r] EXCEPT !.st = "ru", !.job = "stop", !.to = "detached", !.by = "overflow"]
  OBVIOUS
<1>5. CalmRow(rt[r], row)
  BY <1>1, <1>4, TaskNames DEF CalmRow, Asks, IsRuntime, RuntimeFields, Aims
<1>6. rt' = [rt EXCEPT ![r] = row]
  BY <1>4 DEF overflow
<1>7. PICK mine : mine = [Idle EXCEPT !.pc = "recover", !.r = r]
  OBVIOUS
<1>8. CalmTask("overflow", mine) /\ task' = [task EXCEPT !["overflow"] = mine] /\ "overflow" \in Tasks
  BY <1>7, FreeIsRow, TaskNames DEF overflow, CalmTask, IsTask, TaskFields
<1>9. CalmTasks(task')
  BY <1>8, SameCalm, TaskSet
<1>. QED
  BY <1>2, <1>3, <1>5, <1>6, <1>9, RowKeeps

\* close, by a task that waits for it or by a command that does not
LEMMA CloseBeginKeeps ==
  ASSUME CreationInv, NEW r, NEW by \in {"none", "sched", "delete"}, close_begin(r, by)
  PROVE  CreationInv'
<1>1. CalmBinding(b') /\ UNCHANGED <<intent, sdk, threads, creates>>
  BY SameCalm DEF close_begin, World
<1>2. CalmTasks(task')
  <2>1. CASE by = "none"
    BY <2>1, SameCalm DEF close_begin
  <2>2. CASE by # "none"
    <3>1. by \in Tasks /\ by # "create" /\ by # "none"
      BY <2>2, TaskNames
    <3>2. IsTask(task[by])
      BY <3>1 DEF CreationInv, Shapes
    <3>3. PICK at : at = IF rt[r].st = "ready" /\ (rt[r].handle /\ Current(r)) THEN "wait_close" ELSE "unclosed"
      OBVIOUS
    <3>4. PICK row : row = [task[by] EXCEPT !.pc = at, !.r = r]
      OBVIOUS
    <3>5. CalmTask(by, row)
      BY <3>1, <3>2, <3>3, <3>4 DEF CalmTask, IsTask, TaskFields
    <3>6. task' = [task EXCEPT ![by] = row]
      BY <3>1, <3>3, <3>4 DEF close_begin
    <3>. QED
      BY <3>1, <3>5, <3>6, SameCalm, TaskSet
  <2>. QED
    BY <2>1, <2>2
<1>3. CASE rt' = rt
  BY <1>1, <1>2, <1>3, SameCalm, CalmKeeps
<1>4. CASE rt' = [rt EXCEPT ![r].st = "fenced"]
  <2>1. PICK row : row = [rt[r] EXCEPT !.st = "fenced"]
    OBVIOUS
  <2>2. r \in Runtimes => CalmRow(rt[r], row)
    BY <2>1, RowSame DEF CalmRow, Asks, IsRuntime, RuntimeFields
  <2>3. rt' = [rt EXCEPT ![r] = row]
    BY <1>4, <2>1
  <2>. QED
    BY <1>1, <1>2, <2>2, <2>3, RowKeeps
<1>5. CASE rt' = [rt EXCEPT ![r].job = "close", ![r].by = by]
  <2>1. PICK row : row = [rt[r] EXCEPT !.job = "close", !.by = by]
    OBVIOUS
  <2>2. r \in Runtimes => CalmRow(rt[r], row)
    BY <2>1, RowSame, TaskNames DEF CalmRow, Asks, IsRuntime, RuntimeFields
  <2>3. rt' = [rt EXCEPT ![r] = row]
    BY <1>5, <2>1
  <2>. QED
    BY <1>1, <1>2, <2>2, <2>3, RowKeeps
<1>. QED
  BY <1>3, <1>4, <1>5 DEF close_begin

LEMMA BeginCloseKeeps ==
  ASSUME CreationInv, NEW r \in Runtimes, begin_close(r)
  PROVE  CreationInv'
<1>1. CalmRow(rt[r], rt[r]) /\ IsRuntime(rt[r])
  BY RowSame
<1>2. UNCHANGED <<intent, sdk, threads, creates>>
  BY DEF begin_close, World
<1>3. CASE b.att = "attached"
  <2>1. PICK gen, fence : gen = b.gen /\ fence = b.fence
    OBVIOUS
  <2>2. PICK row : row = [rt[r] EXCEPT !.st = "closing", !.job = "disconnect", !.gen = gen, !.fence = fence]
    OBVIOUS
  <2>3. CalmRow(rt[r], row)
    BY <1>1, <2>2 DEF CalmRow, Asks, IsRuntime, RuntimeFields
  <2>4. rt' = [rt EXCEPT ![r] = row] /\ task' = task /\ b' = [b EXCEPT !.intent = "closed", !.att = "disconnecting"]
    BY <1>3, <2>1, <2>2 DEF begin_close
  <2>5. CalmBinding(b') /\ CalmTasks(task')
    BY <1>3, <2>4, SameCalm DEF CalmBinding, IsBinding, BindingFields
  <2>. QED
    BY <1>2, <2>3, <2>4, <2>5, RowKeeps
<1>4. CASE b.att # "attached"
  <2>1. JobEnds(r, rt[r], "bad") /\ b' = b /\ "bad" \in Results
    BY <1>4 DEF begin_close, Results
  <2>2. CalmBinding(b') /\ (rt[r].handle => creates # 0)
    BY <1>1, <2>1, SameCalm DEF CalmRow
  <2>. QED
    BY <1>1, <1>2, <2>1, <2>2, JobEndsCalm, CalmKeeps
<1>. QED
  BY <1>3, <1>4

LEMMA FinishCloseKeeps ==
  ASSUME CreationInv, NEW r \in Runtimes, finish_close(r)
  PROVE  CreationInv'
<1>1. CalmRow(rt[r], rt[r]) /\ IsRuntime(rt[r])
  BY RowSame
<1>2. UNCHANGED <<intent, sdk, threads, creates>>
  BY DEF finish_close, World
<1>3. CASE b.att = "disconnecting"
  <2>1. PICK succeeded \in BOOLEAN :
          /\ b' = [b EXCEPT !.att = IF succeeded THEN "absent" ELSE "ru"] /\ task' = task
          /\ rt' = [rt EXCEPT ![r].job = "stop", ![r].to = IF succeeded THEN "closed" ELSE "ru"]
    BY <1>3 DEF finish_close
  <2>2. PICK to \in {"closed", "ru"} : to = IF succeeded THEN "closed" ELSE "ru"
    OBVIOUS
  <2>3. PICK row : row = [rt[r] EXCEPT !.job = "stop", !.to = to]
    OBVIOUS
  <2>4. CalmRow(rt[r], row)
    BY <1>1, <2>3 DEF CalmRow, Asks, IsRuntime, RuntimeFields, Aims
  <2>5. rt' = [rt EXCEPT ![r] = row]
    BY <2>1, <2>2, <2>3
  <2>6. CalmBinding(b') /\ CalmTasks(task')
    BY <1>3, <2>1, SameCalm, BindingMoves DEF Bound, Transitional
  <2>. QED
    BY <1>2, <2>4, <2>5, <2>6, RowKeeps
<1>4. CASE b.att # "disconnecting"
  <2>1. PICK at : JobEnds(r, [rt[r] EXCEPT !.st = at], "bad") /\ b' = b
    BY <1>4 DEF finish_close
  <2>2. PICK row : row = [rt[r] EXCEPT !.st = at]
    OBVIOUS
  <2>3. IsRuntime(row) /\ (row.handle => creates # 0)
    BY <1>1, <2>2 DEF CalmRow, IsRuntime, RuntimeFields
  <2>4. JobEnds(r, row, "bad") /\ "bad" \in Results /\ CalmBinding(b')
    BY <2>1, <2>2, SameCalm DEF Results
  <2>. QED
    BY <1>2, <2>3, <2>4, JobEndsCalm, CalmKeeps
<1>. QED
  BY <1>3, <1>4

LEMMA CancelKeeps ==
  ASSUME CreationInv, NEW r \in Runtimes, cancel_attach(r)
  PROVE  CreationInv'
<1>1. CalmRow(rt[r], rt[r]) /\ IsRuntime(rt[r])
  BY RowSame
<1>2. UNCHANGED <<intent, sdk, threads, creates>>
  BY DEF cancel_attach, World
<1>3. CASE rt[r].job = "acquire"
  <2>1. PICK row : row = [rt[r] EXCEPT !.st = "detached", !.cancelled = FALSE]
    OBVIOUS
  <2>2. IsRuntime(row) /\ (row.handle => creates # 0)
    BY <1>1, <2>1 DEF CalmRow, IsRuntime, RuntimeFields
  <2>3. JobEnds(r, row, "bad") /\ "bad" \in Results /\ b' = b
    BY <1>3, <2>1 DEF cancel_attach, Results
  <2>4. CalmBinding(b')
    BY <2>3, SameCalm
  <2>. QED
    BY <1>2, <2>2, <2>3, <2>4, JobEndsCalm, CalmKeeps
<1>4. CASE rt[r].job \in {"begin", "probe", "rpc"}
  <2>1. PICK row : row = [rt[r] EXCEPT !.job = "unwind", !.failed = "bad", !.cancelled = FALSE]
    OBVIOUS
  <2>2. CalmRow(rt[r], row)
    BY <1>1, <2>1 DEF CalmRow, Asks, IsRuntime, RuntimeFields
  <2>3. rt' = [rt EXCEPT ![r] = row] /\ b' = b /\ task' = task
    BY <1>4, <2>1 DEF cancel_attach
  <2>4. CalmBinding(b') /\ CalmTasks(task')
    BY <2>3, SameCalm
  <2>. QED
    BY <1>2, <2>2, <2>3, <2>4, RowKeeps
<1>5. CASE rt[r].job \notin {"acquire", "begin", "probe", "rpc"}
  <2>1. PICK disconnected \in BOOLEAN :
          LET mine == b.fence = rt[r].lease /\ b.att \in Bound
              reset == disconnected /\ mine /\ b.att # "disconnecting" IN
          /\ b' = IF reset THEN [b EXCEPT !.att = "absent"] ELSE IF mine THEN [b EXCEPT !.att = "ru"] ELSE b
          /\ rt' = [rt EXCEPT ![r].job = "stop", ![r].to = IF reset THEN "detached" ELSE "ru",
                              ![r].failed = "bad", ![r].cancelled = FALSE]
          /\ task' = task
    BY <1>5 DEF cancel_attach
  <2>2. CalmBinding(b') /\ CalmTasks(task')
    BY <2>1, SameCalm, BindingMoves
  <2>3. PICK to \in {"detached", "ru"} :
          rt' = [rt EXCEPT ![r].job = "stop", ![r].to = to, ![r].failed = "bad", ![r].cancelled = FALSE]
    BY <2>1
  <2>4. PICK row : row = [rt[r] EXCEPT !.job = "stop", !.to = to, !.failed = "bad", !.cancelled = FALSE]
    OBVIOUS
  <2>5. CalmRow(rt[r], row)
    BY <1>1, <2>4 DEF CalmRow, Asks, IsRuntime, RuntimeFields, Aims
  <2>6. rt' = [rt EXCEPT ![r] = row]
    BY <2>3, <2>4
  <2>. QED
    BY <1>2, <2>2, <2>5, <2>6, RowKeeps
<1>. QED
  BY <1>3, <1>4, <1>5

\* The lease lapses, a runtime is quarantined, the process stops or is restarted.
LEMMA ProcessKeeps ==
  ASSUME CreationInv, lapse \/ quarantine \/ restart \/ registry_shutdown \/ registry_stop
  PROVE  CreationInv'
<1>1. CASE lapse
  BY <1>1, SameCalm, CalmKeeps DEF lapse, World
<1>2. CASE quarantine
  BY <1>2, SameCalm, DoomCalm, CalmKeeps DEF quarantine, World
<1>3. CASE restart
  <2>1. CalmRuntimes(rt')
    BY <1>3, FreeIsRow DEF restart, CalmRuntimes
  <2>2. CalmTasks(task')
    BY <1>3, FreeIsRow DEF restart, CalmTasks, CalmTask, Idle
  <2>3. CalmBinding(b')
    BY <1>3, SameCalm, BindingMoves DEF restart
  <2>. QED
    BY <1>3, <2>1, <2>2, <2>3, CalmKeeps DEF restart
<1>4. CASE registry_shutdown
  <2>1. CalmBinding(b') /\ UNCHANGED <<intent, sdk, threads, creates>>
    BY <1>4, SameCalm DEF registry_shutdown
  <2>2. CASE task["attach"].pc = "wait"
    <3>1. PICK r : r = task["attach"].r
      OBVIOUS
    <3>2. PICK flag : flag = (rt[r].failed = "no")
      OBVIOUS
    <3>3. PICK row : row = [rt[r] EXCEPT !.cancelled = flag]
      OBVIOUS
    <3>4. r \in Runtimes => CalmRow(rt[r], row)
      BY <3>3, RowSame DEF CalmRow, Asks, IsRuntime, RuntimeFields
    <3>5. rt' = [rt EXCEPT ![r] = row] /\ task' = task
      BY <1>4, <2>2, <3>1, <3>2, <3>3 DEF registry_shutdown
    <3>6. CalmTasks(task')
      BY <3>5, SameCalm
    <3>. QED
      BY <2>1, <3>4, <3>5, <3>6, RowKeeps
  <2>3. CASE task["attach"].pc # "wait"
    BY <1>4, <2>1, <2>3, AnsweredCalm, CalmKeeps DEF registry_shutdown
  <2>. QED
    BY <2>2, <2>3
<1>5. CASE registry_stop
  BY <1>5, SameCalm, DoomCalm, CalmKeeps DEF registry_stop, World
<1>. QED
  BY <1>1, <1>2, <1>3, <1>4, <1>5

\* SessionRegistry.replace, in its two halves.
LEMMA ReplaceKeeps ==
  ASSUME CreationInv, NEW t \in Tasks, replace_pop(t) \/ replace_put(t)
  PROVE  CreationInv'
<1>1. CalmBinding(b') /\ UNCHANGED <<intent, sdk, threads, creates>>
  BY SameCalm DEF replace_pop, replace_put, World
<1>2. IsTask(task[t]) /\ (t = "create" => intent.thread)
  BY DEF CreationInv, Shapes, StepInv, replace_pop, replace_put
<1>3. CASE replace_pop(t)
  <2>1. CalmRuntimes(rt')
    BY <1>3, SameCalm, DoomCalm DEF replace_pop
  <2>2. CalmTasks(task')
    <3>1. CASE task' = To(t, "bad")
      BY <1>2, <3>1, TaskTo DEF To
    <3>2. CASE task' = [task EXCEPT ![t].pc = "replacing", ![t].old = reg, ![t].r = 0]
      <4>1. PICK row : row = [task[t] EXCEPT !.pc = "replacing", !.old = reg, !.r = 0]
        OBVIOUS
      <4>2. CalmTask(t, row)
        BY <1>2, <4>1 DEF CalmTask, IsTask, TaskFields
      <4>3. task' = [task EXCEPT ![t] = row]
        BY <3>2, <4>1
      <4>. QED
        BY <4>2, <4>3, SameCalm, TaskSet
    <3>. QED
      BY <1>3, <3>1, <3>2 DEF replace_pop
  <2>. QED
    BY <1>1, <2>1, <2>2, CalmKeeps
<1>4. CASE replace_put(t)
  <2>1. PICK tk : tk = [task EXCEPT ![t].old = 0]
    OBVIOUS
  <2>2. PICK f : f = Swept(rt, tk, 0)
    OBVIOUS
  <2>3. PICK r \in Runtimes :
          /\ rt' = [f EXCEPT ![r] = [Free EXCEPT !.st = "detached", !.gen = b.gen, !.fence = b.fence]]
          /\ task' = [tk EXCEPT ![t].pc = "have", ![t].r = r]
    BY <1>4, <2>1, <2>2 DEF replace_put
  <2>4. PICK row : row = [Free EXCEPT !.st = "detached", !.gen = b.gen, !.fence = b.fence]
    OBVIOUS
  <2>5. IsRuntime(Free) /\ ~Free.handle /\ Free.job = "none" /\ Free.by = "none"
    BY FreeIsRow DEF CalmRow, Free
  <2>6. CalmRow(rt[r], row)
    BY <2>4, <2>5 DEF CalmRow, Asks, IsRuntime, RuntimeFields
  <2>7. CalmRuntimes(rt')
    BY <2>2, <2>3, <2>4, <2>6, SameCalm, SweptCalm, RuntimeSet
  <2>8. PICK mine : mine = [task[t] EXCEPT !.old = 0, !.pc = "have", !.r = r]
    OBVIOUS
  <2>9. CalmTask(t, mine)
    BY <1>2, <2>8 DEF CalmTask, IsTask, TaskFields
  <2>10. task' = [task EXCEPT ![t] = mine]
    BY <2>1, <2>3, <2>8 DEF CreationInv, Shapes
  <2>11. CalmTasks(task')
    BY <2>9, <2>10, SameCalm, TaskSet
  <2>. QED
    BY <1>1, <2>7, <2>11, CalmKeeps
<1>. QED
  BY <1>3, <1>4

\* attach_resume: a creation that comes here only resumes.
LEMMA ResumeKeeps ==
  ASSUME CreationInv, NEW t \in Tasks, attach_resume(t)
  PROVE  CreationInv'
<1>1. UNCHANGED <<intent, sdk, threads, creates>>
  BY DEF attach_resume, World
<1>2. CalmBinding(b')
  BY SameCalm, BindingMoves DEF attach_resume, Activated
<1>3. t = "create" => intent.thread /\ task[t].x
  BY DEF CreationInv, StepInv, attach_resume
<1>4. PICK at \in {"bad", "enter"} : task' = [task EXCEPT ![t].pc = at]
  BY DEF attach_resume, To
<1>5. CalmTasks(task')
  BY <1>3, <1>4, TaskTo
<1>6. PICK r : r = task[t].r
  OBVIOUS
<1>7. PICK row : row = [rt[r] EXCEPT !.gen = b.gen, !.fence = b.fence]
  OBVIOUS
<1>8. r \in Runtimes => CalmRow(rt[r], row)
  BY <1>7, RowSame DEF CalmRow, Asks, IsRuntime, RuntimeFields
<1>9. rt' = [rt EXCEPT ![r] = row]
  BY <1>6, <1>7 DEF attach_resume
<1>. QED
  BY <1>1, <1>2, <1>5, <1>8, <1>9, RowKeeps

\* _attach: the one step by which a runtime comes to ask the SDK for a new session.
LEMMA EnterKeeps ==
  ASSUME CreationInv, NEW t \in Tasks, attach_enter(t)
  PROVE  CreationInv'
<1>1. CalmBinding(b') /\ UNCHANGED <<b, intent, sdk, threads, creates>>
  BY SameCalm DEF attach_enter, World
<1>2. t = "create" => intent.thread
  BY DEF CreationInv, StepInv, attach_enter
<1>3. PICK r : r = task[t].r
  OBVIOUS
<1>4. CASE rt[r].st # "detached"
  <2>1. CalmTasks(task') /\ rt' = rt
    BY <1>2, <1>3, <1>4, TaskTo DEF attach_enter, To
  <2>. QED
    BY <1>1, <2>1, SameCalm, CalmKeeps
<1>5. CASE rt[r].st = "detached"
  <2>1. PICK to \in {"creating", "resuming"} : to = IF t = "create" /\ ~task[t].x THEN "creating" ELSE "resuming"
    OBVIOUS
  <2>2. PICK row : row = [rt[r] EXCEPT !.st = "attaching", !.job = "acquire", !.by = t, !.to = to]
    OBVIOUS
  <2>3. rt' = [rt EXCEPT ![r] = row] /\ task' = [task EXCEPT ![t].pc = "wait"]
    BY <1>3, <1>5, <2>1, <2>2 DEF attach_enter, To
  <2>4. CalmTasks(task')
    BY <1>2, <2>3, TaskTo
  <2>5. r \in Runtimes => IsRuntime(row) /\ (row.handle => creates # 0) /\ row.job = "acquire" /\ row.by = t /\ row.to = to
    BY <2>2, RowSame DEF CalmRow, IsRuntime, RuntimeFields, Aims
  <2>6. CASE to = "resuming" \/ r \notin Runtimes
    <3>1. r \in Runtimes => CalmRow(rt[r], row)
      BY <1>2, <2>5, <2>6 DEF CalmRow, Asks
    <3>. QED
      BY <1>1, <2>3, <2>4, <3>1, RowKeeps
  <2>7. CASE to = "creating" /\ r \in Runtimes
    <3>1. t = "create" /\ ~task["create"].x /\ task["create"].pc = "enter"
      BY <2>1, <2>7 DEF attach_enter
    <3>2. creates = 0 /\ threads <= 1 /\ ~Unasked /\ \A q \in Runtimes : ~Asks(rt[q])
      BY <3>1 DEF CreationInv, AskInv, WillAsk
    <3>3. rt'[r] = row /\ \A q \in Runtimes : q # r => rt'[q] = rt[q]
      BY <2>3, <2>7 DEF CreationInv, Shapes
    <3>4. task'["create"].pc = "wait" /\ task'["delete"] = task["delete"]
      BY <2>3, <3>1, TaskNames DEF CreationInv, Shapes, IsTask, TaskFields
    <3>5. Shapes'
      <4>1. rt' = [q \in Runtimes |-> rt'[q]] /\ \A q \in Runtimes : IsRuntime(rt'[q])
        BY <2>3, <2>5, <2>7, <3>3 DEF CreationInv, Shapes
      <4>2. task' = [u \in Tasks |-> task'[u]] /\ \A u \in Tasks : IsTask(task'[u])
        BY <2>4 DEF CalmTasks, CalmTask
      <4>. QED
        BY <1>1, <4>1, <4>2 DEF CreationInv, Shapes
    <3>6. AskInv'
      <4>1. ~WillAsk' /\ ~Unasked'
        BY <1>1, <3>2, <3>4 DEF WillAsk, Unasked
      <4>2. \A q \in Runtimes : Asks(rt'[q]) => q = r
        BY <3>2, <3>3
      <4>. QED
        BY <1>1, <3>2, <4>1, <4>2 DEF AskInv
    <3>7. StepInv'
      <4>1. \A q \in Runtimes : rt'[q].by = "create" => intent'.thread
        BY <1>1, <1>2, <3>1
      <4>2. ~intent'.thread => Unasked'
        BY <1>1, <1>2, <3>1
      <4>. QED
        BY <1>1, <1>2, <3>1, <3>4, <4>1, <4>2 DEF StepInv
    <3>8. GoneInv'
      <4>1. ~row.handle /\ row.job # "mark"
        BY <2>5, <2>7, <3>2
      <4>2. \A q \in Runtimes : ~rt'[q].handle /\ rt'[q].job # "mark"
        BY <3>2, <3>3, <4>1 DEF CreationInv, GoneInv, Sprung
      <4>3. ~Sprung'
        BY <1>1, <3>2, <3>4, <4>2 DEF CreationInv, GoneInv, Sprung
      <4>. QED
        BY <1>1, <3>2, <3>4, <4>3 DEF CreationInv, GoneInv, DeletedForGood
    <3>. QED
      BY <3>5, <3>6, <3>7, <3>8 DEF CreationInv
  <2>. QED
    BY <2>6, <2>7
<1>. QED
  BY <1>4, <1>5

\* ensure_attached and the recovery from an overflow never ask for a new session.
LEMMA EnsureKeeps ==
  ASSUME CreationInv,
         \/ overflow_attach \/ overflow_fails \/ (\E reactivate \in BOOLEAN : ensure_attached(reactivate))
         \/ retry_eager_resume \/ recover_protected_bindings \/ ensure_attached_look \/ ensure_attached_have
  PROVE  CreationInv'
<1>1. /\ UNCHANGED <<intent, sdk, threads, creates>>
      /\ {"attach", "overflow"} \subseteq Tasks /\ IsTask(task["attach"])
  BY TaskNames DEF CreationInv, Shapes, overflow_attach, overflow_fails, ensure_attached, retry_eager_resume,
                   recover_protected_bindings, ensure_attached_look, ensure_attached_have, World
<1>2. CASE overflow_attach
  <2>1. CalmBinding(b')
    BY <1>2, SameCalm DEF overflow_attach
  <2>2. CASE task' = To("overflow", "resume") /\ rt' = rt
    BY <1>1, <2>1, <2>2, SameCalm, TaskTo, CalmKeeps DEF To
  <2>3. CASE Finish("overflow")
    BY <1>1, <2>1, <2>3, FinishCalm, CalmKeeps
  <2>. QED
    BY <1>2, <2>2, <2>3 DEF overflow_attach
<1>3. CASE overflow_fails
  <2>1. CalmBinding(b')
    BY <1>3, SameCalm DEF overflow_fails
  <2>2. CalmTask("overflow", Idle)
    BY FreeIsRow DEF CalmTask
  <2>3. CalmTasks(task')
    BY <1>1, <1>3, <2>2, SameCalm, TaskSet DEF overflow_fails
  <2>4. PICK r : r = task["overflow"].r
    OBVIOUS
  <2>5. PICK row : row = [rt[r] EXCEPT !.st = "ru"]
    OBVIOUS
  <2>6. r \in Runtimes => CalmRow(rt[r], row)
    BY <2>5, RowSame DEF CalmRow, Asks, IsRuntime, RuntimeFields
  <2>7. rt' = Swept([rt EXCEPT ![r] = row], task', reg)
    BY <1>3, <2>4, <2>5 DEF overflow_fails
  <2>8. CalmRuntimes(rt')
    BY <2>6, <2>7, SameCalm, RuntimeSet, SweptCalm
  <2>. QED
    BY <1>1, <2>1, <2>3, <2>8, CalmKeeps
<1>4. ASSUME NEW row, IsTask(row), task' = [task EXCEPT !["attach"] = row], CalmBinding(b'), rt' = rt
      PROVE  CreationInv'
  <2>1. CalmTask("attach", row)
    BY <1>4 DEF CalmTask
  <2>2. CalmTasks(task')
    BY <1>1, <1>4, <2>1, SameCalm, TaskSet
  <2>. QED
    BY <1>1, <1>4, <2>2, SameCalm, CalmKeeps
<1>5. ASSUME NEW reactivate \in BOOLEAN, ensure_attached(reactivate)
      PROVE  CreationInv'
  <2>1. PICK one : one = [Idle EXCEPT !.pc = "look", !.x = reactivate]
    OBVIOUS
  <2>2. PICK two : two = [task["attach"] EXCEPT !.x = TRUE]
    OBVIOUS
  <2>3. IsTask(one) /\ IsTask(two)
    BY <1>1, <2>1, <2>2, FreeIsRow DEF IsTask, TaskFields
  <2>4. CalmBinding(b') /\ rt' = rt
    BY <1>5, SameCalm DEF ensure_attached
  <2>5. task' = [task EXCEPT !["attach"] = one] \/ task' = [task EXCEPT !["attach"] = two]
    BY <1>5, <2>1, <2>2 DEF ensure_attached
  <2>. QED
    BY <1>4, <2>3, <2>4, <2>5
<1>6. CASE recover_protected_bindings
  <2>1. PICK row : row = [Idle EXCEPT !.pc = "look"]
    OBVIOUS
  <2>2. IsTask(row)
    BY <2>1, FreeIsRow DEF IsTask, TaskFields
  <2>3. task' = [task EXCEPT !["attach"] = row] /\ rt' = rt
    BY <1>6, <2>1 DEF recover_protected_bindings
  <2>4. CalmBinding(b')
    BY <1>6, SameCalm, BindingMoves DEF recover_protected_bindings, Protected
  <2>. QED
    BY <1>4, <2>2, <2>3, <2>4
<1>7. CASE ensure_attached_look
  <2>1. CalmBinding(b')
    BY <1>7, SameCalm DEF ensure_attached_look
  <2>2. CASE AttachEnds(FALSE)
    BY <1>1, <2>1, <2>2, AnsweredCalm, CalmKeeps
  <2>3. CASE task' = To("attach", "pop") /\ rt' = rt
    BY <1>1, <2>1, <2>3, SameCalm, TaskTo, CalmKeeps DEF To
  <2>4. CASE task' = [task EXCEPT !["attach"] = [[task["attach"] EXCEPT !.r = reg] EXCEPT !.pc = "have"]] /\ rt' = rt
    <3>1. PICK row : row = [[task["attach"] EXCEPT !.r = reg] EXCEPT !.pc = "have"]
      OBVIOUS
    <3>2. IsTask(row)
      BY <1>1, <3>1 DEF IsTask, TaskFields
    <3>. QED
      BY <1>4, <2>1, <2>4, <3>1, <3>2
  <2>. QED
    BY <1>7, <2>2, <2>3, <2>4 DEF ensure_attached_look
<1>8. CASE ensure_attached_have
  <2>1. CalmBinding(b')
    BY <1>8, SameCalm DEF ensure_attached_have
  <2>2. CASE task' = To("attach", "resume") /\ rt' = rt
    BY <1>1, <2>1, <2>2, SameCalm, TaskTo, CalmKeeps DEF To
  <2>3. ASSUME NEW ok, AttachEnds(ok)
        PROVE  CreationInv'
    BY <1>1, <2>1, <2>3, AnsweredCalm, CalmKeeps
  <2>. QED
    BY <1>8, <2>2, <2>3 DEF ensure_attached_have
<1>. QED
  BY <1>2, <1>3, <1>5, <1>6, <1>7, <1>8 DEF retry_eager_resume

\* A step of the creation: what the intent says about the session is never taken back.
LEMMA IntentKeeps ==
  ASSUME CreationInv, NEW row, IsTask(row), task' = [task EXCEPT !["create"] = row], CalmRuntimes(rt'),
         UNCHANGED <<b, sdk, creates>>, threads' \in Nat, threads' <= 1, intent' = [f \in {"st", "thread"} |-> intent'[f]],
         Unasked' => Unasked /\ ~WillAsk', WillAsk' => Unasked, intent.thread => intent'.thread, ~intent'.thread => Unasked',
         row.pc = "thread" => threads' = 0, row.pc \in {"find", "thread"} => ~intent'.thread,
         row.pc \notin {"idle", "find", "thread"} => intent'.thread, row.pc = "resume" => row.x
  PROVE  CreationInv'
<1>1. task = [t \in Tasks |-> task[t]] /\ (\A t \in Tasks : IsTask(task[t])) /\ "create" \in Tasks /\ "delete" \in Tasks
  BY TaskNames DEF CreationInv, Shapes
<1>2. task'["create"] = row /\ task'["delete"] = task["delete"]
  BY <1>1
<1>3. /\ \A q \in Runtimes : Asks(rt'[q]) => Asks(rt[q])
      /\ \A q \in Runtimes : rt'[q].by = "create" => intent.thread
      /\ \A q \in Runtimes : rt'[q].handle \/ rt'[q].job = "mark" => creates # 0
  BY DEF CalmRuntimes, CalmRow
<1>4. Shapes'
  <2>1. rt' = [q \in Runtimes |-> rt'[q]] /\ \A q \in Runtimes : IsRuntime(rt'[q])
    BY DEF CalmRuntimes, CalmRow
  <2>2. task' = [t \in Tasks |-> task'[t]] /\ \A t \in Tasks : IsTask(task'[t])
    BY <1>1
  <2>. QED
    BY <2>1, <2>2 DEF CreationInv, Shapes
<1>5. AskInv'
  BY <1>3 DEF CreationInv, AskInv
<1>6. StepInv'
  BY <1>2, <1>3 DEF StepInv
<1>7. GoneInv'
  <2>1. creates = 0 => ~Sprung'
    BY <1>2, <1>3 DEF CreationInv, GoneInv, Sprung
  <2>. QED
    BY <1>2, <2>1 DEF CreationInv, GoneInv, DeletedForGood
<1>. QED
  BY <1>4, <1>5, <1>6, <1>7 DEF CreationInv

\* The creation marks its intent before it acts.
LEMMA CreationStepKeeps ==
  ASSUME CreationInv,
         \/ create_from_source \/ find_thread \/ create_thread \/ create_binding \/ create_runtime \/ create_attach
         \/ create_ends
  PROVE  CreationInv'
<1>1. /\ "create" \in Tasks /\ IsTask(task["create"]) /\ threads \in Nat /\ threads <= 1
      /\ intent = [f \in {"st", "thread"} |-> intent[f]] /\ (~intent.thread => Unasked)
      /\ task["create"].pc \in {"find", "thread"} => ~intent.thread
      /\ task["create"].pc \notin {"idle", "find", "thread"} => intent.thread
      /\ task["create"].pc = "thread" => threads = 0
      /\ Unasked => ~WillAsk
  BY TaskNames DEF CreationInv, Shapes, StepInv, AskInv
<1>2. ASSUME NEW at
      PROVE  \E row : /\ row = [task["create"] EXCEPT !.pc = at] /\ IsTask(row) /\ row.pc = at
                      /\ Create(at) = [task EXCEPT !["create"] = row]
  <2>1. PICK row : row = [task["create"] EXCEPT !.pc = at]
    OBVIOUS
  <2>2. IsTask(row) /\ row.pc = at
    BY <1>1, <2>1 DEF IsTask, TaskFields
  <2>3. Create(at) = [task EXCEPT !["create"] = row]
    BY <2>1 DEF Create
  <2>. QED
    BY <2>1, <2>2, <2>3
<1>3. ASSUME NEW row, IsTask(row), task' = [task EXCEPT !["create"] = row]
      PROVE  task'["create"] = row
  BY <1>1, <1>3 DEF CreationInv, Shapes
<1>4. CASE create_from_source
  <2>1. PICK at : at = IF intent.thread THEN "bind" ELSE "find"
    OBVIOUS
  <2>2. PICK row : IsTask(row) /\ row.pc = at /\ Create(at) = [task EXCEPT !["create"] = row]
    BY <1>2
  <2>3. task' = [task EXCEPT !["create"] = row] /\ UNCHANGED <<b, sdk, creates, threads, rt>>
    BY <1>4, <2>1, <2>2 DEF create_from_source, World
  <2>4. task'["create"] = row
    BY <1>3, <2>2, <2>3
  <2>5. CASE intent.st = "none"
    <3>1. intent' = [intent EXCEPT !.st = "reserved"]
      BY <1>4, <2>5 DEF create_from_source, Marked
    <3>2. intent'.st = "reserved" /\ intent'.thread = intent.thread /\ intent' = [f \in {"st", "thread"} |-> intent'[f]]
      BY <1>1, <3>1
    <3>3. Unasked /\ Unasked' /\ ~WillAsk'
      BY <2>1, <2>2, <2>4, <2>5, <3>2 DEF Unasked, WillAsk
    <3>. QED
      BY <1>1, <2>1, <2>2, <2>3, <3>2, <3>3, SameCalm, IntentKeeps
  <2>6. CASE intent.st # "none"
    <3>1. intent' = intent
      BY <1>4, <2>6 DEF create_from_source
    <3>2. (Unasked' <=> Unasked) /\ ~WillAsk'
      BY <2>1, <2>2, <2>4, <3>1 DEF Unasked, WillAsk
    <3>. QED
      BY <1>1, <2>1, <2>2, <2>3, <3>1, <3>2, SameCalm, IntentKeeps
  <2>. QED
    BY <2>5, <2>6
<1>5. CASE find_thread
  <2>1. ~intent.thread /\ Unasked /\ UNCHANGED <<b, sdk, creates, threads, rt>>
    BY <1>1, <1>5 DEF find_thread, World
  <2>2. CASE threads > 0
    <3>1. PICK row : IsTask(row) /\ row.pc = "bind" /\ Create("bind") = [task EXCEPT !["create"] = row]
      BY <1>2
    <3>2. task' = [task EXCEPT !["create"] = row] /\ intent' = [st |-> "thread_created", thread |-> TRUE]
      BY <1>5, <2>2, <3>1 DEF find_thread
    <3>3. intent'.st = "thread_created" /\ intent'.thread /\ intent' = [f \in {"st", "thread"} |-> intent'[f]]
      BY <3>2
    <3>4. task'["create"] = row
      BY <1>3, <3>1, <3>2
    <3>5. Unasked' /\ ~WillAsk'
      BY <3>1, <3>3, <3>4 DEF Unasked, WillAsk
    <3>. QED
      BY <1>1, <2>1, <3>1, <3>2, <3>3, <3>5, SameCalm, IntentKeeps
  <2>3. CASE ~(threads > 0) /\ intent.st \in {"thread_creating", "unknown"}
    <3>1. PICK row : IsTask(row) /\ row.pc = "idle" /\ Create("idle") = [task EXCEPT !["create"] = row]
      BY <1>2
    <3>2. task' = [task EXCEPT !["create"] = row] /\ intent' = intent
      BY <1>5, <2>3, <3>1 DEF find_thread
    <3>3. task'["create"] = row
      BY <1>3, <3>1, <3>2
    <3>4. (Unasked' <=> Unasked) /\ ~WillAsk'
      BY <3>1, <3>2, <3>3 DEF Unasked, WillAsk
    <3>. QED
      BY <1>1, <2>1, <3>1, <3>2, <3>4, SameCalm, IntentKeeps
  <2>4. CASE ~(threads > 0) /\ intent.st \notin {"thread_creating", "unknown"}
    <3>1. PICK row : IsTask(row) /\ row.pc = "thread" /\ Create("thread") = [task EXCEPT !["create"] = row]
      BY <1>2
    <3>2. task' = [task EXCEPT !["create"] = row] /\ intent' = [intent EXCEPT !.st = "thread_creating"]
      BY <1>5, <2>4, <3>1 DEF find_thread, Marked
    <3>3. intent'.st = "thread_creating" /\ intent'.thread = intent.thread /\ intent' = [f \in {"st", "thread"} |-> intent'[f]]
      BY <1>1, <3>2
    <3>4. task'["create"] = row
      BY <1>3, <3>1, <3>2
    <3>6. threads' = 0
      BY <1>1, <2>1, <2>4
    <3>5. Unasked' /\ ~WillAsk'
      BY <3>1, <3>3, <3>4 DEF Unasked, WillAsk
    <3>. QED
      BY <1>1, <2>1, <3>1, <3>2, <3>3, <3>5, <3>6, SameCalm, IntentKeeps
  <2>. QED
    BY <2>2, <2>3, <2>4
<1>6. CASE create_thread
  <2>1. ~intent.thread /\ Unasked /\ threads = 0 /\ UNCHANGED <<b, sdk, creates, rt>>
    BY <1>1, <1>6 DEF create_thread
  <2>2. threads' \in {threads, threads + 1}
    BY <1>6 DEF create_thread
  <2>3. threads' \in Nat /\ threads' <= 1
    BY <2>1, <2>2
  <2>4. CASE intent' = [st |-> "thread_created", thread |-> TRUE] /\ task' = Create("bind")
    <3>1. PICK row : IsTask(row) /\ row.pc = "bind" /\ Create("bind") = [task EXCEPT !["create"] = row]
      BY <1>2
    <3>2. intent'.st = "thread_created" /\ intent'.thread /\ intent' = [f \in {"st", "thread"} |-> intent'[f]]
      BY <2>4
    <3>3. task' = [task EXCEPT !["create"] = row] /\ task'["create"] = row
      BY <1>3, <2>4, <3>1
    <3>4. Unasked' /\ ~WillAsk'
      BY <3>1, <3>2, <3>3 DEF Unasked, WillAsk
    <3>. QED
      BY <2>1, <2>3, <3>1, <3>2, <3>3, <3>4, SameCalm, IntentKeeps
  <2>5. CASE intent' = Marked("unknown") /\ task' = Create("idle")
    <3>1. PICK row : IsTask(row) /\ row.pc = "idle" /\ Create("idle") = [task EXCEPT !["create"] = row]
      BY <1>2
    <3>2. intent'.st = "unknown" /\ intent'.thread = intent.thread /\ intent' = [f \in {"st", "thread"} |-> intent'[f]]
      BY <1>1, <2>5 DEF Marked
    <3>3. task' = [task EXCEPT !["create"] = row] /\ task'["create"] = row
      BY <1>3, <2>5, <3>1
    <3>4. Unasked' /\ ~WillAsk'
      BY <2>1, <3>1, <3>2, <3>3 DEF Unasked, WillAsk
    <3>. QED
      BY <2>1, <2>3, <3>1, <3>2, <3>3, <3>4, SameCalm, IntentKeeps
  <2>. QED
    BY <1>6, <2>4, <2>5 DEF create_thread
<1>7. CASE create_binding
  <2>1. UNCHANGED <<intent, sdk, threads, creates, rt>> /\ intent.thread
    BY <1>1, <1>7 DEF create_binding, World
  <2>2. CalmTasks(task')
    BY <1>1, <1>7, <2>1, TaskTo DEF create_binding, Create
  <2>3. CalmBinding(b')
    BY <1>7, SameCalm, BindingMoves DEF create_binding
  <2>. QED
    BY <2>1, <2>2, <2>3, SameCalm, CalmKeeps
<1>8. CASE create_runtime
  <2>1. UNCHANGED <<b, intent, sdk, threads, creates, rt>> /\ intent.thread
    BY <1>1, <1>8 DEF create_runtime, World
  <2>2. PICK row : row = [task["create"] EXCEPT !.pc = "have", !.r = reg]
    OBVIOUS
  <2>3. CalmTask("create", row)
    BY <1>1, <2>1, <2>2 DEF CalmTask, IsTask, TaskFields
  <2>4. task' = Create("pop") \/ task' = [task EXCEPT !["create"] = row]
    BY <1>8, <2>2 DEF create_runtime
  <2>5. CalmTasks(task')
    BY <1>1, <2>1, <2>3, <2>4, SameCalm, TaskSet, TaskTo DEF Create
  <2>. QED
    BY <2>1, <2>5, SameCalm, CalmKeeps
<1>9. CASE create_attach
  <2>1. UNCHANGED <<b, sdk, creates, threads>> /\ intent.thread
    BY <1>1, <1>9 DEF create_attach, World
  <2>2. CASE rt[task["create"].r].st = "detached"
    <3>1. PICK uncertain : uncertain = (intent.st \in {"creating", "attached", "unknown"})
      OBVIOUS
    <3>2. PICK at : at = IF uncertain THEN "resume" ELSE "enter"
      OBVIOUS
    <3>3. PICK row : row = [task["create"] EXCEPT !.x = uncertain, !.pc = at]
      OBVIOUS
    <3>4. IsTask(row) /\ row.pc = at /\ row.x = uncertain
      BY <1>1, <3>3 DEF IsTask, TaskFields
    <3>5. task' = [task EXCEPT !["create"] = row] /\ intent' = [intent EXCEPT !.st = "creating"] /\ rt' = rt
      BY <1>9, <2>2, <3>1, <3>2, <3>3 DEF create_attach, Marked
    <3>6. intent'.st = "creating" /\ intent'.thread = intent.thread /\ intent' = [f \in {"st", "thread"} |-> intent'[f]]
      BY <1>1, <3>5
    <3>7. task'["create"] = row
      BY <1>3, <3>4, <3>5
    <3>8. ~Unasked' /\ (WillAsk' => Unasked)
      BY <3>1, <3>4, <3>6, <3>7 DEF Unasked, WillAsk
    <3>9. row.pc \in {"resume", "enter"} /\ (row.pc = "resume" => row.x)
      BY <3>2, <3>4
    <3>10. CalmRuntimes(rt')
      BY <3>5, SameCalm
    <3>. QED
      BY <1>1, <2>1, <3>4, <3>5, <3>6, <3>8, <3>9, <3>10, IntentKeeps
  <2>3. CASE rt[task["create"].r].st # "detached"
    <3>1. intent' = [intent EXCEPT !.st = "attached"] /\ Finish("create")
      BY <1>9, <2>3 DEF create_attach, Marked
    <3>2. intent'.st = "attached" /\ intent'.thread = intent.thread /\ intent' = [f \in {"st", "thread"} |-> intent'[f]]
      BY <1>1, <3>1
    <3>3. CalmRuntimes(rt') /\ task' = [task EXCEPT !["create"] = Idle] /\ IsTask(Idle) /\ Idle.pc = "idle"
      BY <1>1, <3>1, FinishCalm, FreeIsRow DEF Finish, Idle
    <3>4. task'["create"] = Idle
      BY <1>3, <3>3
    <3>5. ~Unasked' /\ ~WillAsk'
      BY <2>1, <3>2, <3>3, <3>4 DEF Unasked, WillAsk
    <3>. QED
      BY <1>1, <2>1, <3>2, <3>3, <3>5, IntentKeeps
  <2>. QED
    BY <2>2, <2>3
<1>10. CASE create_ends
  <2>1. UNCHANGED <<b, sdk, creates, threads>> /\ intent.thread /\ Finish("create")
    BY <1>1, <1>10 DEF create_ends, World
  <2>2. CalmRuntimes(rt') /\ task' = [task EXCEPT !["create"] = Idle] /\ IsTask(Idle) /\ Idle.pc = "idle"
    BY <1>1, <2>1, FinishCalm, FreeIsRow DEF Finish, Idle
  <2>3. task'["create"] = Idle
    BY <1>3, <2>2
  <2>4. ~WillAsk'
    BY <2>2, <2>3 DEF WillAsk
  <2>5. ASSUME NEW status \in {"attached", "unknown"}, intent' = [intent EXCEPT !.st = status]
        PROVE  CreationInv'
    <3>1. intent'.st = status /\ intent'.thread = intent.thread /\ intent' = [f \in {"st", "thread"} |-> intent'[f]]
      BY <1>1, <2>5
    <3>2. ~Unasked'
      BY <2>1, <3>1 DEF Unasked
    <3>. QED
      BY <1>1, <2>1, <2>2, <2>4, <3>1, <3>2, IntentKeeps
  <2>6. CASE intent' = intent
    <3>1. Unasked' <=> Unasked
      BY <2>6 DEF Unasked
    <3>. QED
      BY <1>1, <2>1, <2>2, <2>4, <2>6, <3>1, IntentKeeps
  <2>. QED
    BY <1>10, <2>5, <2>6 DEF create_ends, Marked
<1>. QED
  BY <1>4, <1>5, <1>6, <1>7, <1>8, <1>9, <1>10

\* A scheduled run attaches a closed session and closes it again.
LEMMA ScheduledRunKeeps ==
  ASSUME CreationInv, schedule \/ unschedule \/ prepare_binding \/ prepare_attach \/ release_temporary_target
  PROVE  CreationInv'
<1>1. "sched" \in Tasks
  BY TaskNames
<1>2. CASE schedule \/ unschedule
  BY <1>2, SameCalm, CalmKeeps DEF schedule, unschedule
<1>3. CASE prepare_binding
  <2>1. PICK one, two : one = [Idle EXCEPT !.pc = "pop"] /\ two = [Idle EXCEPT !.pc = "have", !.r = reg]
    OBVIOUS
  <2>2. CalmTask("sched", one) /\ CalmTask("sched", two)
    BY <2>1, FreeIsRow DEF CalmTask, IsTask, TaskFields
  <2>3. task' = [task EXCEPT !["sched"] = one] \/ task' = [task EXCEPT !["sched"] = two]
    BY <1>3, <2>1 DEF prepare_binding
  <2>4. CalmTasks(task')
    BY <1>1, <2>2, <2>3, SameCalm, TaskSet
  <2>5. CalmBinding(b') /\ UNCHANGED <<intent, sdk, threads, creates, rt>>
    BY <1>3, BindingMoves DEF prepare_binding, World
  <2>. QED
    BY <2>4, <2>5, SameCalm, CalmKeeps
<1>4. CASE prepare_attach
  <2>1. CalmBinding(b') /\ UNCHANGED <<intent, sdk, threads, creates>>
    BY <1>4, SameCalm DEF prepare_attach, World
  <2>2. ASSUME NEW at, task' = To("sched", at), rt' = rt
        PROVE  CreationInv'
    BY <1>1, <2>1, <2>2, SameCalm, TaskTo, CalmKeeps DEF To
  <2>3. CASE Finish("sched")
    BY <1>1, <2>1, <2>3, FinishCalm, CalmKeeps
  <2>. QED
    BY <1>4, <2>2, <2>3 DEF prepare_attach
<1>5. CASE release_temporary_target
  <2>1. CASE close_begin(reg, "sched")
    BY <2>1, CloseBeginKeeps
  <2>2. CASE ~close_begin(reg, "sched")
    <3>1. Finish("sched") /\ UNCHANGED <<intent, sdk, threads, creates>>
      BY <1>5, <2>2 DEF release_temporary_target, World
    <3>2. CalmBinding(b')
      BY <1>5, <2>2, SameCalm, BindingMoves DEF release_temporary_target
    <3>. QED
      BY <1>1, <3>1, <3>2, FinishCalm, CalmKeeps
  <2>. QED
    BY <2>1, <2>2
<1>. QED
  BY <1>2, <1>3, <1>4, <1>5

\* The deletion, up to and after the call of the SDK.
LEMMA DeletionKeeps ==
  ASSUME CreationInv,
         \/ delete \/ teardown_attach \/ teardown_have \/ teardown_close \/ teardown_closed \/ teardown_fails
         \/ reconcile_missing \/ delete_check \/ begin_attempt \/ delete_mark \/ retire \/ finish_cleanup
  PROVE  CreationInv'
<1>1. /\ "delete" \in Tasks /\ "attach" \in Tasks /\ IsTask(task["delete"]) /\ IsTask(Idle)
      /\ task["delete"].pc \in {"reconcile", "rpc", "deleted"} => creates # 0
      /\ task["delete"].pc = "deleted" => sdk # "open"
      /\ b.intent \in {"closed", "deleting", "delete_unknown", "deleted"} => creates # 0
  BY TaskNames, FreeIsRow DEF CreationInv, Shapes, GoneInv, Sprung
<1>2. ASSUME NEW at, (at \in {"reconcile", "rpc", "deleted"} => creates # 0) /\ (at = "deleted" => sdk # "open")
      PROVE  CalmTasks(Delete(at))
  BY <1>1, <1>2, TaskTo DEF Delete
<1>3. UNCHANGED <<intent, sdk, threads, creates>>
  BY DEF delete, teardown_attach, teardown_have, teardown_close, teardown_closed, teardown_fails, reconcile_missing,
         delete_check, begin_attempt, delete_mark, retire, finish_cleanup, close_begin, World
<1>4. CASE delete
  <2>1. CalmBinding(b') /\ rt' = rt
    BY <1>4, SameCalm, BindingMoves DEF delete
  <2>2. PICK at \in {"retire", "reconcile", "attaching", "check", "pop", "held"} :
          task' = Delete(at) /\ (at = "reconcile" => b.intent \in {"deleting", "delete_unknown"})
    <3>1. PICK projected \in BOOLEAN :
            task' = Delete(CASE b.intent = "deleted" -> "retire"
                             [] b.intent \in {"deleting", "delete_unknown"} -> "reconcile"
                             [] b.intent = "active" -> "attaching"
                             [] b.intent = "closed" /\ ~(b.att # "absent" \/ projected) -> "check"
                             [] OTHER -> IF for_thread \in Replaceable THEN "pop" ELSE "held")
      BY <1>4 DEF delete
    <3>2. CASE b.intent = "deleted"
      BY <3>1, <3>2
    <3>3. CASE b.intent \in {"deleting", "delete_unknown"}
      BY <3>1, <3>3
    <3>4. CASE b.intent = "active"
      BY <3>1, <3>4
    <3>5. CASE b.intent = "closed" /\ ~(b.att # "absent" \/ projected)
      BY <3>1, <3>5
    <3>6. CASE /\ b.intent \notin {"deleted", "deleting", "delete_unknown", "active"}
               /\ ~(b.intent = "closed" /\ ~(b.att # "absent" \/ projected))
      <4>1. task' = Delete("pop") \/ task' = Delete("held")
        BY <3>1, <3>6
      <4>. QED
        BY <4>1
    <3>. QED
      BY <3>2, <3>3, <3>4, <3>5, <3>6
  <2>3. CalmTasks(task')
    BY <1>1, <1>2, <2>2
  <2>. QED
    BY <1>3, <2>1, <2>3, SameCalm, CalmKeeps
<1>5. CASE teardown_attach
  <2>1. CalmBinding(b') /\ rt' = rt
    BY <1>5, SameCalm DEF teardown_attach
  <2>2. PICK one, two : one = [task["delete"] EXCEPT !.pc = "close", !.r = reg] /\ two = [Idle EXCEPT !.pc = "look"]
    OBVIOUS
  <2>3. CalmTask("delete", one) /\ CalmTask("attach", two)
    BY <1>1, <2>2 DEF CalmTask, IsTask, TaskFields
  <2>4. \/ task' = [task EXCEPT !["delete"] = one]
        \/ task' = [task EXCEPT !["attach"] = two]
        \/ task' = Delete("bad")
    BY <1>5, <2>2 DEF teardown_attach
  <2>5. CalmTasks(task')
    BY <1>1, <1>2, <2>3, <2>4, SameCalm, TaskSet
  <2>. QED
    BY <1>3, <2>1, <2>5, SameCalm, CalmKeeps
<1>6. CASE teardown_have
  <2>1. CalmBinding(b') /\ rt' = rt
    BY <1>6, SameCalm DEF teardown_have
  <2>2. PICK r : r = IF task["delete"].pc = "held" THEN reg ELSE task["delete"].r
    OBVIOUS
  <2>3. PICK at : at = IF rt[r].st = "detached" THEN "resume" ELSE "close"
    OBVIOUS
  <2>4. PICK row : row = [task["delete"] EXCEPT !.r = r, !.pc = at]
    OBVIOUS
  <2>5. CalmTask("delete", row)
    BY <1>1, <2>3, <2>4 DEF CalmTask, IsTask, TaskFields
  <2>6. task' = [task EXCEPT !["delete"] = row] \/ task' = Delete("bad")
    BY <1>6, <2>2, <2>3, <2>4 DEF teardown_have
  <2>7. CalmTasks(task')
    BY <1>1, <1>2, <2>5, <2>6, SameCalm, TaskSet
  <2>. QED
    BY <1>3, <2>1, <2>7, SameCalm, CalmKeeps
<1>7. CASE teardown_close
  BY <1>7, CloseBeginKeeps DEF teardown_close
<1>8. CASE teardown_closed
  <2>1. CalmBinding(b')
    BY <1>8, SameCalm, BindingMoves DEF teardown_closed
  <2>2. PICK row : row = IF task["delete"].pc = "unclosed" /\ b.intent # "closed" THEN Idle ELSE [Idle EXCEPT !.pc = "check"]
    OBVIOUS
  <2>3. CalmTask("delete", row)
    <3>1. Idle.pc = "idle"
      BY DEF Idle
    <3>2. IsTask([Idle EXCEPT !.pc = "check"]) /\ [Idle EXCEPT !.pc = "check"].pc = "check"
      BY <1>1 DEF IsTask, TaskFields
    <3>. QED
      BY <1>1, <2>2, <3>1, <3>2 DEF CalmTask
  <2>4. task' = [task EXCEPT !["delete"] = row] /\ rt' = Swept(rt, task', reg)
    BY <1>8, <2>2 DEF teardown_closed
  <2>5. CalmTasks(task') /\ CalmRuntimes(rt')
    BY <1>1, <2>3, <2>4, SameCalm, TaskSet, SweptCalm
  <2>. QED
    BY <1>3, <2>1, <2>5, CalmKeeps
<1>9. CASE teardown_fails
  <2>1. CalmBinding(b') /\ Finish("delete")
    BY <1>9, SameCalm DEF teardown_fails
  <2>. QED
    BY <1>1, <1>3, <2>1, FinishCalm, CalmKeeps
<1>10. CASE reconcile_missing
  <2>1. creates # 0 /\ rt' = rt
    BY <1>1, <1>10 DEF reconcile_missing
  <2>2. CalmBinding(b')
    <3>1. CalmBinding([b EXCEPT !.intent = "delete_unknown"])
      BY <2>1, SameCalm DEF CalmBinding, IsBinding, BindingFields
    <3>. QED
      BY <1>10, <3>1, SameCalm DEF reconcile_missing
  <2>3. CASE sdk # "open" /\ task' = Delete("deleted")
    BY <1>2, <1>3, <2>1, <2>2, <2>3, SameCalm, CalmKeeps
  <2>4. CASE task' = Delete("check") \/ task' = Delete("idle")
    BY <1>2, <1>3, <2>1, <2>2, <2>4, SameCalm, CalmKeeps
  <2>. QED
    BY <1>10, <2>3, <2>4 DEF reconcile_missing
<1>11. CASE delete_check
  <2>1. CalmBinding(b') /\ rt' = rt /\ (task' = Delete("begin") \/ task' = Delete("idle"))
    BY <1>11, SameCalm DEF delete_check
  <2>. QED
    BY <1>2, <1>3, <2>1, SameCalm, CalmKeeps
<1>12. CASE begin_attempt
  <2>1. rt' = rt
    BY <1>12 DEF begin_attempt
  <2>2. CASE b.intent \in {"closed", "deleting", "delete_unknown"}
    <3>1. creates # 0 /\ b' = [b EXCEPT !.intent = "deleting"] /\ task' = Delete("rpc")
      BY <1>1, <1>12, <2>2 DEF begin_attempt
    <3>2. CalmBinding(b')
      BY <3>1, SameCalm DEF CalmBinding, IsBinding, BindingFields
    <3>. QED
      BY <1>2, <1>3, <2>1, <3>1, <3>2, SameCalm, CalmKeeps
  <2>3. CASE b.intent \notin {"closed", "deleting", "delete_unknown"}
    <3>1. b' = b /\ task' = Delete("idle")
      BY <1>12, <2>3 DEF begin_attempt
    <3>2. CalmBinding(b')
      BY <3>1, SameCalm
    <3>. QED
      BY <1>2, <1>3, <2>1, <3>1, <3>2, SameCalm, CalmKeeps
  <2>. QED
    BY <2>2, <2>3
<1>13. CASE delete_mark
  <2>1. rt' = rt /\ (task' = Delete("retire") \/ task' = Delete("idle"))
    BY <1>13 DEF delete_mark
  <2>2. CalmTasks(task')
    BY <1>2, <2>1
  <2>3. CalmBinding(b')
    <3>1. CASE b.intent \notin {"deleting", "delete_unknown"}
      BY <1>13, <3>1, SameCalm DEF delete_mark
    <3>2. CASE b.intent \in {"deleting", "delete_unknown"} /\ task["delete"].pc = "deleted"
      <4>1. b' = [b EXCEPT !.intent = "deleted", !.att = "absent", !.reason = "none"]
        BY <1>13, <3>2 DEF delete_mark
      <4>. QED
        BY <1>1, <3>2, <4>1, SameCalm DEF CalmBinding, IsBinding, BindingFields
    <3>3. CASE b.intent \in {"deleting", "delete_unknown"} /\ task["delete"].pc # "deleted"
      <4>1. b' = [b EXCEPT !.intent = "delete_unknown"]
        BY <1>13, <3>3 DEF delete_mark
      <4>. QED
        BY <1>1, <3>3, <4>1, SameCalm DEF CalmBinding, IsBinding, BindingFields
    <3>. QED
      BY <3>1, <3>2, <3>3
  <2>. QED
    BY <1>3, <2>1, <2>2, <2>3, SameCalm, CalmKeeps
<1>14. CASE retire
  <2>1. CalmBinding(b')
    BY <1>14, SameCalm DEF retire
  <2>2. PICK old : old = IF RegState \in {"none", "closed", "ru", "terminal"} THEN 0 ELSE reg
    OBVIOUS
  <2>3. PICK row : row = [task["delete"] EXCEPT !.pc = "cleanup", !.old = old]
    OBVIOUS
  <2>4. CalmTask("delete", row)
    BY <1>1, <2>3 DEF CalmTask, IsTask, TaskFields
  <2>5. task' = [task EXCEPT !["delete"] = row]
    BY <1>14, <2>2, <2>3 DEF retire
  <2>6. CalmTasks(task')
    BY <1>1, <2>4, <2>5, SameCalm, TaskSet
  <2>7. CalmRuntimes(rt')
    BY <1>14, SameCalm, DoomCalm, SweptCalm DEF retire
  <2>. QED
    BY <1>3, <2>1, <2>6, <2>7, CalmKeeps
<1>15. CASE finish_cleanup
  <2>1. CalmBinding(b') /\ Finish("delete")
    BY <1>15, SameCalm DEF finish_cleanup
  <2>. QED
    BY <1>1, <1>3, <2>1, FinishCalm, CalmKeeps
<1>. QED
  BY <1>4, <1>5, <1>6, <1>7, <1>8, <1>9, <1>10, <1>11, <1>12, <1>13, <1>14, <1>15

\* The SDK forgets the session, or is asked to and does not say.
LEMMA DeleteRpcKeeps ==
  ASSUME CreationInv, delete_rpc
  PROVE  CreationInv'
<1>1. task["delete"].pc = "rpc" /\ UNCHANGED <<b, intent, threads, creates, rt>>
  BY DEF delete_rpc
<1>2. creates # 0
  BY <1>1 DEF CreationInv, GoneInv, Sprung
<1>3. (sdk' = "open" => sdk = "open") /\ (task' = Delete("deleted") => sdk' # "open")
  <2>1. Delete("deleted") # Delete("unknown_outcome")
    <3>1. IsTask(task["delete"]) /\ "delete" \in Tasks
      BY TaskNames DEF CreationInv, Shapes
    <3>2. Delete("deleted")["delete"].pc = "deleted" /\ Delete("unknown_outcome")["delete"].pc = "unknown_outcome"
      BY <3>1 DEF Delete, CreationInv, Shapes, IsTask, TaskFields
    <3>. QED
      BY <3>2
  <2>. QED
    BY <2>1 DEF delete_rpc
<1>4. PICK at \in {"deleted", "unknown_outcome"} : task' = Delete(at)
  BY DEF delete_rpc
<1>5. /\ task' = [t \in Tasks |-> task'[t]] /\ \A t \in Tasks : IsTask(task'[t])
      /\ task'["create"] = task["create"] /\ task'["delete"].pc = at
  BY <1>4, TaskNames DEF CreationInv, Shapes, Delete, IsTask, TaskFields
<1>6. Shapes' /\ StepInv'
  BY <1>1, <1>5 DEF CreationInv, Shapes, StepInv, Unasked
<1>7. AskInv'
  BY <1>1, <1>5 DEF CreationInv, AskInv, Unasked, WillAsk
<1>8. GoneInv'
  BY <1>1, <1>2, <1>3, <1>4, <1>5 DEF CreationInv, GoneInv, DeletedForGood
<1>. QED
  BY <1>6, <1>7, <1>8 DEF CreationInv

\* The first states: the session is yet to be made, or it was made by an earlier process.
LEMMA CreationInit ==
  ASSUME LifecycleInit
  PROVE  CreationInv
<1>1. /\ rt = [r \in Runtimes |-> Free] /\ task = [t \in Tasks |-> Idle]
      /\ "create" \in Tasks /\ "delete" \in Tasks /\ IsTask(Idle) /\ Idle.pc = "idle"
  BY FreeIsRow, TaskNames DEF LifecycleInit, Idle
<1>2. IsRuntime(Free) /\ ~Asks(Free) /\ ~Free.handle /\ Free.job = "none" /\ Free.by = "none"
  BY FreeIsRow DEF CalmRow, Free, Asks
<1>3. CASE /\ b = NoBinding /\ intent = [st |-> "none", thread |-> FALSE] /\ sdk = "none"
           /\ threads = 0 /\ creates = 0
  <2>1. IsBinding(b) /\ b.intent = "none" /\ b.att = "absent"
    BY <1>3 DEF NoBinding, IsBinding, BindingFields
  <2>2. intent = [f \in {"st", "thread"} |-> intent[f]] /\ intent.st = "none" /\ ~intent.thread
    BY <1>3
  <2>3. Shapes
    BY <1>1, <1>2, <1>3, <2>1, <2>2 DEF Shapes
  <2>4. Unasked /\ ~WillAsk
    BY <1>1, <2>2 DEF Unasked, WillAsk
  <2>5. AskInv
    BY <1>1, <1>2, <1>3, <2>4 DEF AskInv
  <2>6. StepInv
    BY <1>1, <1>2, <2>4 DEF StepInv
  <2>7. GoneInv
    BY <1>1, <1>2, <1>3, <2>1 DEF GoneInv, Sprung, DeletedForGood
  <2>. QED
    BY <2>3, <2>5, <2>6, <2>7 DEF CreationInv
<1>4. CASE /\ b = [NoBinding EXCEPT !.intent = "active"] /\ intent = [st |-> "attached", thread |-> TRUE] /\ sdk = "open"
           /\ threads = 1 /\ creates = 1
  <2>1. IsBinding(b) /\ b.intent = "active" /\ b.att = "absent"
    BY <1>4 DEF NoBinding, IsBinding, BindingFields
  <2>2. intent = [f \in {"st", "thread"} |-> intent[f]] /\ intent.st = "attached" /\ intent.thread
    BY <1>4
  <2>3. Shapes
    BY <1>1, <1>2, <1>4, <2>1, <2>2 DEF Shapes
  <2>4. ~Unasked /\ ~WillAsk
    BY <1>1, <2>2 DEF Unasked, WillAsk
  <2>5. AskInv
    BY <1>1, <1>2, <1>4, <2>4 DEF AskInv
  <2>6. StepInv
    BY <1>1, <1>2, <2>2, <2>4 DEF StepInv
  <2>7. GoneInv
    BY <1>1, <1>2, <1>4, <2>1 DEF GoneInv, Sprung, DeletedForGood
  <2>. QED
    BY <2>3, <2>5, <2>6, <2>7 DEF CreationInv
<1>. QED
  BY <1>3, <1>4 DEF LifecycleInit

\* Every step of a runtime keeps the invariant ...
LEMMA RuntimeStepKeeps ==
  ASSUME CreationInv, NEW r \in Runtimes,
         \/ shutdown_mark(r) \/ shutdown_stop(r) \/ attach_acquire(r) \/ begin_attachment(r) \/ attach_probe(r)
         \/ attach_rpc(r) \/ attach_unwind(r) \/ attach_mark(r) \/ attach_ready(r) \/ cleanup_failed_attach(r)
         \/ stop_components(r) \/ renewal_fails(r) \/ shutdown_event(r) \/ resume_event(r) \/ finalize_handle_shutdown(r)
         \/ cancel_attach(r) \/ overflow(r) \/ close(r) \/ begin_close(r) \/ finish_close(r)
  PROVE  CreationInv'
<1>1. CASE close(r)
  BY <1>1, CloseBeginKeeps DEF close
<1>. QED
  BY <1>1, ShutdownMarkKeeps, ShutdownStopKeeps, AcquireKeeps, BeginKeeps, ProbeKeeps, RpcKeeps, UnwindKeeps, MarkKeeps,
     ReadyKeeps, CleanupKeeps, StopComponentsKeeps, RenewalKeeps, ShutdownEventKeeps, ResumeEventKeeps, FinalizeKeeps,
     CancelKeeps, OverflowKeeps, BeginCloseKeeps, FinishCloseKeeps

\* ... and so does every step.
LEMMA CreationNext ==
  ASSUME CreationInv, [LifecycleNext]_lifecycleVars
  PROVE  CreationInv'
<1>1. CASE LifecycleNext
  BY <1>1, ProcessKeeps, ReplaceKeeps, ResumeKeeps, EnterKeeps, RuntimeStepKeeps, EnsureKeeps, CreationStepKeeps,
     ScheduledRunKeeps, DeletionKeeps, DeleteRpcKeeps DEF LifecycleNext
<1>2. CASE UNCHANGED lifecycleVars
  BY <1>2, SameCalm, CalmKeeps DEF lifecycleVars
<1>. QED
  BY <1>1, <1>2

\* The SDK is asked for the session at most once, by one runtime, and only while the intent says CREATING.
THEOREM CreationInvariant == LifecycleSpec => []CreationInv
<1>1. LifecycleInit => CreationInv
  BY CreationInit
<1>2. CreationInv /\ [LifecycleNext]_lifecycleVars => CreationInv'
  BY CreationNext
<1>. QED
  BY <1>1, <1>2, PTL DEF LifecycleSpec

\* However often the source is delivered and whatever tasks run, for every number of runtimes, restarts and
\* faults: one thread and one SDK session (_create_from_source_locked marks before it acts).
THEOREM SessionIsMadeOnce == LifecycleSpec => []OneSession
<1>1. CreationInv => OneSession
  BY DEF CreationInv, AskInv, OneSession
<1>. QED
  BY <1>1, CreationInvariant, PTL

\* A session recorded as deleted is gone at the SDK and its row stays absent: no late attach, close, recovery
\* or restart brings it back.
THEOREM DeletedStaysDeleted == LifecycleSpec => []DeletedForGood
<1>1. CreationInv => DeletedForGood
  BY DEF CreationInv, GoneInv
<1>. QED
  BY <1>1, CreationInvariant, PTL
=============================================================================
