------------------------------ MODULE Clients -------------------------------
(***************************************************************************)
(* Clients and connections: hive_client_new and hive_client_connect        *)
(* (src/src/hive_client.c) with the directories they make                  *)
(* (src/src/mkdirs.c), and the command interpreter hivecmd                 *)
(* (src/apps/cmd/cmd.c), as processes on one machine that use the same     *)
(* data location.                                                          *)
(*                                                                         *)
(* The path of the keystore is a chain of directories, number 1 next to    *)
(* the root; the data location is one of them and .data the one below it.  *)
(* mkdirs goes along the chain with a stat() and, where there is nothing,  *)
(* a mkdir(): two steps, between which others do the same.  Processes may  *)
(* be killed anywhere and started again, and somebody may remove           *)
(* directories or put files in their place.  An application is taken to     *)
(* hold one connection at a time, as hivecmd does.                         *)
(***************************************************************************)
EXTENDS Naturals

CONSTANTS
    Procs,          \* processes
    Tools,          \* those that run hivecmd; the others use the library
    DataLocation    \* the number of the data location

ASSUME ToolsAssumption    == Tools \subseteq Procs
ASSUME LocationAssumption == DataLocation \in Nat \ {0}

VARIABLES
    fs,             \* what is at each place of the chain
    pc,             \* what each process does next
    at, goal,       \* the directories mkdirs looks at, and is to make
    client,         \* it has a HiveClient
    connect,        \* the backend of ctx->connect; "none" for NULL
    ops,            \* the table ctx->ops points to
    open,           \* connection objects allocated
    outcome,        \* what became of the last command
    failed,         \* the last hive_client_new or hive_client_connect failed
    hindered        \* history: somebody removed a directory or put a file there,
                    \* or a call of the system was refused, or no
                    \* node answered

call == <<at, goal>>
ctx  == <<client, connect, ops, open>>
vars == <<fs, pc, call, ctx, outcome, failed, hindered>>

KeyDir == DataLocation + 1
Places == 1..KeyDir

Init ==
    /\ fs \in [Places -> {"none", "dir", "file"}]
    /\ \A i \in 2..KeyDir : fs[i] # "none" => fs[i - 1] = "dir"
    /\ pc       = [p \in Procs |-> "start"]
    /\ at       = [p \in Procs |-> 1]
    /\ goal     = [p \in Procs |-> DataLocation]
    /\ client   = [p \in Procs |-> FALSE]
    /\ connect  = [p \in Procs |-> "none"]
    /\ ops      = [p \in Procs |-> "none"]
    /\ open     = [p \in Procs |-> 0]
    /\ outcome  = [p \in Procs |-> "none"]
    /\ failed   = [p \in Procs |-> FALSE]
    /\ hindered = FALSE

Goto(p, s) == pc' = [pc EXCEPT ![p] = s]

-----------------------------------------------------------------------------
(* stat() and mkdir().                                                     *)

Reached(i) == \A j \in 1..i - 1 : fs[j] = "dir"
IsDir(i)   == Reached(i) /\ fs[i] = "dir"
IsFile(i)  == Reached(i) /\ fs[i] = "file"

\* stat() says ENOENT.
Missing(i) == \E j \in 1..i : fs[j] = "none" /\ Reached(j)

\* mkdir() makes the directory, or says EEXIST, which counts as success.
Makes(i) == Reached(i) /\ fs[i] = "none"

\* Mutated form: EEXIST is a failure.
TolerantOfNothing(i) == Makes(i)

Tolerant(i) == Reached(i)

\* Mutated form: the way out of a keystore that cannot be read lacks its deref.
KeepOpen(p) ==
    IF client[p] /\ pc[p] # "keystore" THEN [open EXCEPT ![p] = @ - 1] ELSE open

\* A failure releases the connection object that was being set up.
Released(p) == IF client[p] THEN [open EXCEPT ![p] = @ - 1] ELSE open

\* The call fails: hivecmd ends without a client, and goes on without a connection.
Fail(p) ==
    /\ Goto(p, IF client[p] THEN "ready" ELSE "exited")
    /\ open'   = Released(p)
    /\ failed' = [failed EXCEPT ![p] = TRUE]
    /\ UNCHANGED <<client, connect, ops>>

-----------------------------------------------------------------------------
(* hive_client_new.                                                        *)

\* A process starts; hivecmd makes its data location first, and only that.
Start(p) ==
    /\ pc[p] = "start"
    /\ IF p \notin Tools
       THEN Goto(p, "new") /\ UNCHANGED <<fs, ctx, failed>>
       ELSE /\ fs' = IF Makes(DataLocation)
                     THEN [fs EXCEPT ![DataLocation] = "dir"] ELSE fs
            /\ IF Tolerant(DataLocation)
               THEN Goto(p, "new") /\ UNCHANGED <<ctx, failed>>
               ELSE Fail(p)
    /\ UNCHANGED <<call, outcome, hindered>>

\* The stat() of hive_client_new.
New(p) ==
    /\ pc[p] = "new"
    /\ \/ /\ IsDir(DataLocation)
          /\ Goto(p, "ready")
          /\ client' = [client EXCEPT ![p] = TRUE]
          /\ UNCHANGED <<call, connect, ops, open, failed>>
       \/ /\ Missing(DataLocation)
          /\ Goto(p, "stat")
          /\ at'   = [at EXCEPT ![p] = 1]
          /\ goal' = [goal EXCEPT ![p] = DataLocation]
          /\ UNCHANGED <<ctx, failed>>
       \/ /\ ~IsDir(DataLocation) /\ ~Missing(DataLocation)
          /\ Fail(p)
          /\ UNCHANGED call
    /\ UNCHANGED <<fs, outcome, hindered>>

-----------------------------------------------------------------------------
(* mkdirs.                                                                 *)

\* Mutated form: the directory before the last is the last.
AtLast(p) == at[p] + 1 >= goal[p]

\* The path itself follows its components.
Last(p) == at[p] = goal[p]

\* Mutated form: the loop stays where it is.
Stay(p) == at[p]

\* The component after this one.
After(p) == at[p] + 1

\* This one is there: mkdirs goes on, or returns to its caller.
Advance(p) ==
    IF ~Last(p)
    THEN Goto(p, "stat") /\ at' = [at EXCEPT ![p] = After(p)] /\ UNCHANGED client
    ELSE /\ Goto(p, IF goal[p] = DataLocation THEN "ready" ELSE "keystore")
         /\ client' = [client EXCEPT ![p] = TRUE]
         /\ UNCHANGED at

\* The stat() of mkdir_internal.
Stat(p) ==
    /\ pc[p] = "stat"
    /\ \/ /\ IsDir(at[p])
          /\ Advance(p)
          /\ UNCHANGED <<connect, ops, open, failed>>
       \/ IsFile(at[p]) /\ Fail(p) /\ UNCHANGED at
       \/ /\ ~IsDir(at[p]) /\ ~IsFile(at[p])
          /\ Goto(p, "mkdir")
          /\ UNCHANGED <<at, ctx, failed>>
    /\ UNCHANGED <<fs, goal, outcome, hindered>>

\* Its mkdir().
Mkdir(p) ==
    /\ pc[p] = "mkdir"
    /\ fs' = IF Makes(at[p]) THEN [fs EXCEPT ![at[p]] = "dir"] ELSE fs
    /\ IF Tolerant(at[p])
       THEN Advance(p) /\ UNCHANGED <<connect, ops, open, failed>>
       ELSE Fail(p) /\ UNCHANGED at
    /\ UNCHANGED <<goal, outcome, hindered>>

-----------------------------------------------------------------------------
(* hive_client_connect, and the command that calls it.                     *)

\* Mutated form: hivecmd connects again.
NeverBusy(p) == FALSE

\* hivecmd holds a connection.
Busy(p) == connect[p] # "none"

\* ipfs_client_connect finds no node that answers, and releases what it allocated.
Unserved(p) ==
    /\ pc[p] = "ready" /\ ~Busy(p)
    /\ failed'  = [failed EXCEPT ![p] = TRUE]
    /\ hindered' = TRUE
    /\ UNCHANGED <<fs, pc, call, ctx, outcome>>

\* onedrive_client_connect up to mkdirs; ipfs_client_connect if a node answers.
Connect(p, backend) ==
    /\ pc[p] = "ready" /\ ~Busy(p)
    /\ open' = [open EXCEPT ![p] = @ + 1]
    /\ failed' = [failed EXCEPT ![p] = FALSE]
    /\ \/ /\ backend = "onedrive"
          /\ Goto(p, "stat")
          /\ at'   = [at EXCEPT ![p] = 1]
          /\ goal' = [goal EXCEPT ![p] = KeyDir]
          /\ UNCHANGED <<connect, ops>>
       \/ /\ backend = "ipfs"
          /\ connect' = [connect EXCEPT ![p] = "ipfs"]
          /\ ops'     = [ops EXCEPT ![p] = "ipfs"]
          /\ UNCHANGED <<pc, call>>
    /\ UNCHANGED <<fs, client, outcome, hindered>>

\* The keystore is not there, or is read.
Keystore(p) ==
    /\ pc[p] = "keystore"
    /\ Goto(p, "token")
    /\ UNCHANGED <<fs, call, ctx, outcome, failed, hindered>>

\* The user authorizes, or the keystore had tokens.
Token(p) ==
    /\ pc[p] = "token"
    /\ Goto(p, "ready")
    /\ connect' = [connect EXCEPT ![p] = "onedrive"]
    /\ ops'     = [ops EXCEPT ![p] = "onedrive"]
    /\ UNCHANGED <<fs, call, client, open, outcome, failed, hindered>>

\* hive_client_disconnect; ctx->ops stays.
Disconnect(p) ==
    /\ pc[p] = "ready" /\ connect[p] # "none"
    /\ connect' = [connect EXCEPT ![p] = "none"]
    /\ open'    = [open EXCEPT ![p] = @ - 1]
    /\ UNCHANGED <<fs, pc, call, client, ops, outcome, failed, hindered>>

-----------------------------------------------------------------------------
(* The other commands of hivecmd.                                          *)

\* Commands that call through the table at once.
FileCalls ==
    {"put_file", "put_file_from_buffer", "get_file_length", "get_file",
     "get_file_to_buffer"}

\* Commands that look whether the table has the call.
OtherCalls ==
    {"list_files", "delete_file", "put_value", "set_value", "get_values",
     "delete_key"}

\* general_ops and ipfs_ops; no table has been set in "none".
Table(backend) ==
    IF backend = "onedrive" THEN FileCalls \cup OtherCalls
    ELSE IF backend = "ipfs" THEN FileCalls ELSE {}

\* The entry is called, which must not be NULL.
Dispatch(p, f) ==
    outcome' = [outcome EXCEPT ![p] = IF f \in Table(ops[p]) THEN "called" ELSE "null"]

Refuse(p) == outcome' = [outcome EXCEPT ![p] = "refused"]

FileCommand(p, f) ==
    /\ pc[p] = "ready"
    /\ IF connect[p] = "none" THEN Refuse(p) ELSE Dispatch(p, f)
    /\ UNCHANGED <<fs, pc, call, ctx, failed, hindered>>

\* Mutated form: no look at the table.
HasAnything(p, f) == TRUE

Has(p, f) == f \in Table(ops[p])

OtherCommand(p, f) ==
    /\ pc[p] = "ready"
    /\ IF connect[p] = "none" \/ ~Has(p, f) THEN Refuse(p) ELSE Dispatch(p, f)
    /\ UNCHANGED <<fs, pc, call, ctx, failed, hindered>>

\* The end of the process: exit and deinit, or a signal, which no destructor
\* sees but which leaves nothing of the process.
Leave(p) ==
    /\ pc[p] # "exited"
    /\ Goto(p, "exited")
    /\ client'  = [client EXCEPT ![p] = FALSE]
    /\ connect' = [connect EXCEPT ![p] = "none"]
    /\ ops'     = [ops EXCEPT ![p] = "none"]
    /\ open'    = [open EXCEPT ![p] = 0]
    /\ UNCHANGED <<fs, call, outcome, failed, hindered>>

\* The program is started again.
Restart(p) ==
    /\ pc[p] = "exited"
    /\ Goto(p, "start")
    /\ outcome' = [outcome EXCEPT ![p] = "none"]
    /\ failed'  = [failed EXCEPT ![p] = FALSE]
    /\ UNCHANGED <<fs, call, ctx, hindered>>

-----------------------------------------------------------------------------
(* The world around.                                                       *)

\* A call of the system, the keystore or the authorization fails.
Denied(p) ==
    /\ pc[p] \in {"start", "new", "stat", "mkdir", "keystore", "token"}
    /\ Fail(p)
    /\ hindered' = TRUE
    /\ UNCHANGED <<fs, call, outcome>>

\* Somebody removes what is at a place, with all below it.
Remove(i) ==
    /\ fs[i] # "none"
    /\ fs' = [j \in Places |-> IF j >= i THEN "none" ELSE fs[j]]
    /\ hindered' = TRUE
    /\ UNCHANGED <<pc, call, ctx, outcome, failed>>

\* Somebody creates a file.
MakeFile(i) ==
    /\ Makes(i)
    /\ fs' = [fs EXCEPT ![i] = "file"]
    /\ hindered' = TRUE
    /\ UNCHANGED <<pc, call, ctx, outcome, failed>>

\* What a process does without waiting for anybody.
Step(p) == Start(p) \/ New(p) \/ Stat(p) \/ Mkdir(p) \/ Keystore(p)

Next ==
    \/ \E p \in Procs :
         \/ Step(p)
         \/ \E backend \in {"onedrive", "ipfs"} : Connect(p, backend)
         \/ Unserved(p)
         \/ Token(p)
         \/ Disconnect(p)
         \/ \E f \in FileCalls : FileCommand(p, f)
         \/ \E f \in OtherCalls : OtherCommand(p, f)
         \/ Leave(p) \/ Restart(p) \/ Denied(p)
    \/ \E i \in Places : Remove(i) \/ MakeFile(i)

Spec     == Init /\ [][Next]_vars
FairSpec == Spec /\ \A p \in Procs : WF_vars(Step(p))

-----------------------------------------------------------------------------
(* Properties.                                                             *)

\* Every variable stays in its type, the chain has no gap, the table is that of
\* the connection, whatever was connected before, and no command calls through an
\* entry that the table lacks ("null" is no outcome).
TypeOK ==
    /\ fs       \in [Places -> {"none", "dir", "file"}]
    /\ pc       \in [Procs -> {"start", "new", "stat", "mkdir", "ready", "keystore",
                               "token", "exited"}]
    /\ at       \in [Procs -> Places]
    /\ goal     \in [Procs -> {DataLocation, KeyDir}]
    /\ client   \in [Procs -> BOOLEAN]
    /\ connect  \in [Procs -> {"none", "onedrive", "ipfs"}]
    /\ ops      \in [Procs -> {"none", "onedrive", "ipfs"}]
    /\ open     \in [Procs -> Nat]
    /\ outcome  \in [Procs -> {"none", "refused", "called"}]
    /\ failed   \in [Procs -> BOOLEAN]
    /\ hindered \in BOOLEAN
    /\ \A i \in 2..KeyDir : fs[i] # "none" => fs[i - 1] = "dir"
    /\ \A p \in Procs : connect[p] # "none" => ops[p] = connect[p]

\* As long as nobody removes directories or puts files in their place, a client
\* has its data location, and a connection to OneDrive the directory of its
\* keystore, although others make the same directories and processes are killed
\* half way (mkdirs, which trusts EEXIST).
DirectoriesThere ==
    ~hindered =>
      \A p \in Procs :
        /\ client[p] => fs[DataLocation] = "dir"
        /\ pc[p] \in {"keystore", "token"} \/ connect[p] = "onedrive"
             => fs[KeyDir] = "dir"

\* Processes that make the same directories do not make each other fail: what
\* fails is stopped by a file in the way, or is hivecmd where the parent of its
\* data location is missing (EEXIST in mkdir_internal and in main).
NoNeedlessFailure ==
    [][\A p \in Procs :
         failed'[p] /\ ~failed[p] /\ ~hindered'
           => \/ \E i \in Places : fs[i] = "file"
              \/ pc[p] = "start" /\ p \in Tools /\ ~Reached(DataLocation)]_vars

\* A process has no connection object but the one it can reach and the one it
\* is setting up, whatever fails on the way (deref on every error path, and the
\* check for a connection in client_connect).
NoConnectionLost ==
    \A p \in Procs :
        open[p] = (IF connect[p] # "none" THEN 1 ELSE 0)
                    + (IF /\ client[p]
                          /\ pc[p] \in {"stat", "mkdir", "keystore", "token"}
                       THEN 1 ELSE 0)

\* hive_client_new and hive_client_connect return, or wait for the user.
CallsReturn ==
    \A p \in Procs :
        pc[p] \in {"start", "new", "stat", "mkdir", "keystore"}
          ~> pc[p] \in {"ready", "token", "exited"}
=============================================================================
