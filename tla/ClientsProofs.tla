--------------------------- MODULE ClientsProofs ----------------------------
(***************************************************************************)
(* Proofs about Clients, for any processes and any depth of the data       *)
(* location.                                                               *)
(*                                                                         *)
(* The inductive invariant adds to TypeOK which phases have a client, which *)
(* directory mkdirs is to make in each of them (Phases), and that the      *)
(* components behind mkdirs are directories as long as nobody hinders it   *)
(* (Behind).                                                               *)
(***************************************************************************)
EXTENDS Clients, WellFoundedInduction, TLAPS

\* With and without a client; where mkdirs is, and how far it may go.
Phases ==
    \A p \in Procs :
        /\ pc[p] \in {"start", "new", "exited"} => ~client[p]
        /\ pc[p] \in {"ready", "keystore", "token"} => client[p]
        /\ connect[p] # "none" => pc[p] = "ready"
        /\ pc[p] \in {"stat", "mkdir"} =>
             /\ goal[p] = IF client[p] THEN KeyDir ELSE DataLocation
             /\ at[p] <= goal[p]

\* What mkdirs has passed is there, and no file is where it makes a directory.
Behind ==
    ~hindered =>
      \A p \in Procs :
        /\ pc[p] \in {"stat", "mkdir"} => \A j \in 1..at[p] - 1 : fs[j] = "dir"
        /\ pc[p] = "mkdir" => fs[at[p]] # "file"

IInv == TypeOK /\ Phases /\ Behind /\ DirectoriesThere /\ NoConnectionLost

\* All that the invariant says of one process.
Typed(p) ==
    /\ pc[p]      \in {"start", "new", "stat", "mkdir", "ready", "keystore", "token",
                       "exited"}
    /\ at[p]      \in Places
    /\ goal[p]    \in {DataLocation, KeyDir}
    /\ client[p]  \in BOOLEAN
    /\ connect[p] \in {"none", "onedrive", "ipfs"}
    /\ ops[p]     \in {"none", "onedrive", "ipfs"}
    /\ open[p]    \in Nat
    /\ outcome[p] \in {"none", "refused", "called"}
    /\ failed[p]  \in BOOLEAN

Phase(p) ==
    /\ pc[p] \in {"start", "new", "exited"} => ~client[p]
    /\ pc[p] \in {"ready", "keystore", "token"} => client[p]
    /\ connect[p] # "none" => pc[p] = "ready" /\ ops[p] = connect[p]
    /\ pc[p] \in {"stat", "mkdir"} =>
         /\ goal[p] = IF client[p] THEN KeyDir ELSE DataLocation
         /\ at[p] <= goal[p]

Walk(p) ==
    ~hindered =>
      /\ pc[p] \in {"stat", "mkdir"} => \A j \in 1..at[p] - 1 : fs[j] = "dir"
      /\ pc[p] = "mkdir" => fs[at[p]] # "file"

Present(p) ==
    ~hindered =>
      /\ client[p] => fs[DataLocation] = "dir"
      /\ pc[p] \in {"keystore", "token"} \/ connect[p] = "onedrive"
           => fs[KeyDir] = "dir"

Held(p) ==
    open[p] = (IF connect[p] # "none" THEN 1 ELSE 0)
                + (IF /\ client[p]
                      /\ pc[p] \in {"stat", "mkdir", "keystore", "token"}
                   THEN 1 ELSE 0)

Sound(p) == Typed(p) /\ Phase(p) /\ Walk(p) /\ Present(p) /\ Held(p)

\* The variables that belong to processes are functions of them.
Functions ==
    /\ pc      = [p \in Procs |-> pc[p]]
    /\ at      = [p \in Procs |-> at[p]]
    /\ goal    = [p \in Procs |-> goal[p]]
    /\ client  = [p \in Procs |-> client[p]]
    /\ connect = [p \in Procs |-> connect[p]]
    /\ ops     = [p \in Procs |-> ops[p]]
    /\ open    = [p \in Procs |-> open[p]]
    /\ outcome = [p \in Procs |-> outcome[p]]
    /\ failed  = [p \in Procs |-> failed[p]]

\* The chain of directories.
Chain ==
    /\ fs \in [Places -> {"none", "dir", "file"}]
    /\ hindered \in BOOLEAN
    /\ \A i \in 2..KeyDir : fs[i] # "none" => fs[i - 1] = "dir"

All == Chain /\ Functions /\ \A p \in Procs : Sound(p)

LEMMA Parts == IInv <=> All
  <1>1. ASSUME IInv PROVE All
    <2>1. Chain
      BY <1>1 DEF IInv, TypeOK, Chain
    <2>2. Functions
      BY <1>1 DEF IInv, TypeOK, Functions
    <2>3. ASSUME NEW p \in Procs PROVE Sound(p)
      BY <1>1, <2>3 DEF IInv, TypeOK, Phases, Behind, DirectoriesThere,
                        NoConnectionLost, Sound, Typed, Phase, Walk, Present, Held
    <2> QED BY <2>1, <2>2, <2>3 DEF All
  <1>2. ASSUME All PROVE IInv
    <2>1. TypeOK
      BY <1>2 DEF All, Chain, Functions, Sound, Typed, Phase, Walk, Present, Held, TypeOK
    <2>2. Phases /\ Behind /\ DirectoriesThere
      BY <1>2 DEF All, Chain, Sound, Typed, Phase, Walk, Present, Held, Phases, Behind, DirectoriesThere
    <2>3. NoConnectionLost
      BY <1>2 DEF All, Sound, Typed, Phase, Walk, Present, Held, NoConnectionLost
    <2> QED BY <2>1, <2>2, <2>3 DEF IInv
  <1> QED BY <1>1, <1>2

-----------------------------------------------------------------------------
(* Steps.                                                                  *)

\* Directories stay and no file comes, unless somebody hinders.
Kept ==
    ~hindered' => /\ ~hindered
                  /\ \A i \in Places : fs[i] = "dir" => fs'[i] = "dir"
                  /\ \A i \in Places : fs[i] # "file" => fs'[i] # "file"

\* Nothing of process q changes.
Same(q) ==
    /\ pc'[q] = pc[q] /\ at'[q] = at[q] /\ goal'[q] = goal[q]
    /\ client'[q] = client[q] /\ connect'[q] = connect[q]
    /\ ops'[q] = ops[q] /\ open'[q] = open[q]
    /\ outcome'[q] = outcome[q] /\ failed'[q] = failed[q]

LEMMA SamePlaces ==
  /\ Places' = Places /\ KeyDir' = KeyDir /\ KeyDir \in Places
  /\ DataLocation \in Places /\ KeyDir # DataLocation /\ 1 \in Places
  /\ \A i \in Places : i \in Nat /\ i >= 1 /\ i <= DataLocation + 1
  /\ \A i \in Nat : i >= 1 /\ i <= DataLocation + 1 => i \in Places
  BY LocationAssumption DEF Places, KeyDir

LEMMA Others ==
  ASSUME NEW q \in Procs, Sound(q), Same(q), Kept
  PROVE  Sound(q)'
  <1>1. ASSUME ~hindered', pc[q] \in {"stat", "mkdir"}
        PROVE  \A j \in 1..at[q] - 1 : fs'[j] = "dir"
    <2>1. \A j \in 1..at[q] - 1 : j \in Places /\ fs[j] = "dir"
      BY <1>1, SamePlaces DEF Sound, Typed, Phase, Walk, Present, Held, Kept
    <2> QED BY <2>1, <1>1 DEF Kept
  <1>2. ~hindered' => (client[q] => fs'[DataLocation] = "dir")
    BY SamePlaces DEF Sound, Typed, Phase, Walk, Present, Held, Kept
  <1>3. ~hindered' => ((pc[q] \in {"keystore", "token"} \/ connect[q] = "onedrive")
                        => fs'[KeyDir] = "dir")
    BY SamePlaces DEF Sound, Typed, Phase, Walk, Present, Held, Kept
  <1>4. ~hindered' /\ pc[q] = "mkdir" => fs'[at[q]] # "file"
    BY DEF Sound, Typed, Phase, Walk, Present, Held, Kept
  <1> QED BY <1>1, <1>2, <1>3, <1>4, SamePlaces DEF Sound, Typed, Phase, Walk, Present, Held, Same

\* A directory made where the path was reached.
LEMMA MadeChain ==
  ASSUME Chain, NEW i \in Places, UNCHANGED hindered,
         fs' = IF Makes(i) THEN [fs EXCEPT ![i] = "dir"] ELSE fs
  PROVE  Chain' /\ Kept /\ (Tolerant(i) /\ fs[i] # "file" => fs'[i] = "dir")
  <1>1. fs' \in [Places -> {"none", "dir", "file"}]
    BY DEF Chain
  <1>2. \A k \in 2..KeyDir : fs'[k] # "none" => fs'[k - 1] = "dir"
    <2> SUFFICES ASSUME NEW k \in 2..KeyDir, fs'[k] # "none" PROVE fs'[k - 1] = "dir"
      OBVIOUS
    <2>1. k \in Places /\ k - 1 \in Places /\ k - 1 \in 1..k - 1
      BY LocationAssumption DEF Places, KeyDir
    <2>2. CASE k = i /\ Makes(i)
      BY <2>1, <2>2 DEF Chain, Makes, Reached
    <2>3. CASE ~(k = i /\ Makes(i))
      BY <2>1, <2>3 DEF Chain
    <2> QED BY <2>2, <2>3
  <1>3. Kept
    BY DEF Kept, Chain
  <1>4. Tolerant(i) /\ fs[i] # "file" => fs'[i] = "dir"
    BY DEF Tolerant, Makes, Chain
  <1> QED BY <1>1, <1>2, <1>3, <1>4, SamePlaces DEF Chain

\* A step of one process.
LEMMA OneStep ==
  ASSUME All, NEW p \in Procs, Chain', Functions', Kept, Sound(p)',
         \A q \in Procs : q # p => Same(q)
  PROVE  All'
  BY Others DEF All

-----------------------------------------------------------------------------
(* The actions.                                                            *)

LEMMA StayChain ==
  ASSUME Chain, UNCHANGED <<fs, hindered>>
  PROVE  Chain' /\ Kept
  BY SamePlaces DEF Chain, Kept

LEMMA StartStep ==
  ASSUME All, NEW p \in Procs, Start(p)
  PROVE  All'
  <1> USE DEF Start, Goto, Fail, Released, call, ctx
  <1>1. Sound(p) /\ Chain /\ Functions
    BY DEF All
  <1>2. Chain' /\ Kept
    <2>1. CASE p \notin Tools
      BY <1>1, <2>1, StayChain
    <2>2. CASE p \in Tools
      BY <1>1, <2>2, MadeChain, SamePlaces
    <2> QED BY <2>1, <2>2
  <1>3. Functions'
    BY <1>1 DEF Functions
  <1>4. Sound(p)'
    BY <1>1, <1>2, SamePlaces DEF Sound, Typed, Phase, Walk, Present, Held, Kept, Functions
  <1>5. \A q \in Procs : q # p => Same(q)
    BY <1>1 DEF Same, Functions
  <1> QED BY <1>2, <1>3, <1>4, <1>5, OneStep

LEMMA NewStep ==
  ASSUME All, NEW p \in Procs, New(p)
  PROVE  All'
  <1> USE DEF New, Goto, Fail, Released, call, ctx
  <1>1. Sound(p) /\ Chain /\ Functions
    BY DEF All
  <1>2. Chain' /\ Kept
    BY <1>1, StayChain
  <1>3. Functions'
    BY <1>1 DEF Functions
  <1>4. Sound(p)'
    <2>1. CASE IsDir(DataLocation)
      <3>a. ~Missing(DataLocation)
        BY <2>1, LocationAssumption DEF Missing, IsDir, Reached
      <3>1. /\ pc'[p] = "ready" /\ client'[p]
            /\ UNCHANGED <<at, goal, connect, ops, open, outcome, failed, fs, hindered>>
        BY <1>1, <2>1, <3>a DEF Functions
      <3> QED BY <1>1, <2>1, <3>1, SamePlaces DEF Sound, Typed, Phase, Walk, Present, Held, IsDir
    <2>2. CASE ~IsDir(DataLocation) /\ Missing(DataLocation)
      <3>1. /\ pc'[p] = "stat" /\ at'[p] = 1 /\ goal'[p] = DataLocation
            /\ UNCHANGED <<fs, ctx, failed, outcome, hindered>>
        BY <1>1, <2>2 DEF Functions
      <3>2. \A j \in 1..at'[p] - 1 : fs'[j] = "dir"
        BY <3>1
      <3> QED BY <1>1, <3>1, <3>2, SamePlaces, LocationAssumption DEF Sound, Typed, Phase, Walk, Present, Held
    <2>3. CASE ~IsDir(DataLocation) /\ ~Missing(DataLocation)
      BY <1>1, <2>3, SamePlaces DEF Sound, Typed, Phase, Walk, Present, Held, Functions
    <2> QED BY <2>1, <2>2, <2>3
  <1>5. \A q \in Procs : q # p => Same(q)
    BY <1>1 DEF Same, Functions
  <1> QED BY <1>2, <1>3, <1>4, <1>5, OneStep

\* mkdirs has dealt with one component, which is there.
LEMMA AdvanceStep ==
  ASSUME All, NEW p \in Procs, pc[p] \in {"stat", "mkdir"}, Advance(p), Kept,
         ~hindered' => fs'[at[p]] = "dir",
         UNCHANGED <<connect, ops, open, failed, goal, outcome>>
  PROVE  Functions' /\ Sound(p)' /\ \A q \in Procs : q # p => Same(q)
  <1> USE DEF Advance, Goto
  <1>1. Sound(p) /\ Functions
    BY DEF All
  <1>2. Functions' /\ \A q \in Procs : q # p => Same(q)
    BY <1>1 DEF Functions, Same, After
  <1>3. ~hindered' => \A j \in 1..at[p] : fs'[j] = "dir"
    <2> SUFFICES ASSUME ~hindered', NEW j \in 1..at[p] PROVE fs'[j] = "dir"
      OBVIOUS
    <2>1. CASE j = at[p]
      BY <2>1
    <2>2. CASE j # at[p]
      BY <2>2, <1>1, SamePlaces DEF Sound, Typed, Phase, Walk, Present, Held, Kept
    <2> QED BY <2>1, <2>2
  <1>4. CASE ~Last(p)
    <2>1. /\ pc'[p] = "stat" /\ at'[p] = at[p] + 1
          /\ UNCHANGED <<client, goal, connect, ops, open, failed, outcome>>
      BY <1>1, <1>4 DEF Functions, After
    <2>2. at'[p] \in Places /\ at'[p] <= goal'[p]
      BY <2>1, <1>1, <1>4, SamePlaces DEF Sound, Typed, Phase, Walk, Present, Held, Last, KeyDir
    <2>3. ~hindered' => \A j \in 1..at'[p] - 1 : fs'[j] = "dir"
      BY <2>1, <1>3, <1>1, SamePlaces DEF Sound, Typed, Phase, Walk, Present, Held
    <2>4. Sound(p)'
      BY <1>1, <2>1, <2>2, <2>3, SamePlaces DEF Sound, Typed, Phase, Walk, Present, Held, Kept
    <2> QED BY <1>2, <2>4
  <1>5. CASE Last(p)
    <2>1. /\ pc'[p] = IF goal[p] = DataLocation THEN "ready" ELSE "keystore"
          /\ client'[p] = TRUE
          /\ UNCHANGED <<at, goal, connect, ops, open, failed, outcome>>
      BY <1>1, <1>5 DEF Functions
    <2>2. goal[p] = IF client[p] THEN KeyDir ELSE DataLocation
      BY <1>1 DEF Sound, Typed, Phase, Walk, Present, Held
    <2>3. ~hindered' => fs'[goal[p]] = "dir"
      BY <1>5 DEF Last
    <2>4. ~hindered' => fs'[DataLocation] = "dir"
      BY <2>2, <2>3, <1>1, SamePlaces DEF Sound, Typed, Phase, Walk, Present, Held, Kept
    <2>5. Sound(p)'
      BY <1>1, <2>1, <2>2, <2>3, <2>4, SamePlaces DEF Sound, Typed, Phase, Walk, Present, Held
    <2> QED BY <1>2, <2>5
  <1> QED BY <1>4, <1>5

\* A call fails on the way.
LEMMA FailStep ==
  ASSUME All, NEW p \in Procs, Fail(p), Kept, UNCHANGED <<at, goal, outcome>>,
         pc[p] \in {"start", "new", "stat", "mkdir", "keystore", "token"}
  PROVE  Functions' /\ Sound(p)' /\ \A q \in Procs : q # p => Same(q)
  <1>1. Sound(p) /\ Functions
    BY DEF All
  <1>2. Functions' /\ \A q \in Procs : q # p => Same(q)
    BY <1>1 DEF Functions, Same, Fail, Goto, Released
  <1>3. /\ pc'[p] = IF client[p] THEN "ready" ELSE "exited"
        /\ open'[p] = IF client[p] THEN open[p] - 1 ELSE open[p]
        /\ failed'[p] = TRUE /\ UNCHANGED <<client, connect, ops, at, goal, outcome>>
    BY <1>1 DEF Functions, Fail, Goto, Released
  <1>4. ~hindered' /\ client[p] => fs'[DataLocation] = "dir"
    BY <1>1, SamePlaces DEF Sound, Typed, Phase, Walk, Present, Held, Kept
  <1>5. connect[p] = "none" /\ open[p] \in Nat /\ (pc'[p] = "ready" => client[p])
    BY <1>1, <1>3 DEF Sound, Typed, Phase, Walk, Present, Held
  <1>6. CASE client[p]
    <2>1. pc'[p] = "ready" /\ open[p] = 1 /\ open'[p] = 0
      BY <1>1, <1>3, <1>5, <1>6 DEF Sound, Phase, Held
    <2>2. client'[p] = TRUE /\ connect'[p] = "none" /\ failed'[p] = TRUE
      BY <1>1, <1>3, <1>5, <1>6 DEF Sound, Typed
    <2>3. Typed(p)'
      <3>1. UNCHANGED <<client, connect, ops, at, goal, outcome>>
        BY <1>3
      <3>2. Typed(p)
        BY <1>1 DEF Sound
      <3>3. failed'[p] \in BOOLEAN
        BY <1>3
      <3> QED BY <2>1, <3>1, <3>2, <3>3 DEF Typed
    <2>4. Phase(p)' /\ Walk(p)'
      BY <2>1, <2>2 DEF Phase, Walk
    <2>5. Present(p)'
      BY <1>4, <1>6, <2>1, <2>2 DEF Present
    <2>6. Held(p)'
      BY <2>1, <2>2 DEF Held
    <2> QED BY <1>2, <2>3, <2>4, <2>5, <2>6 DEF Sound
  <1>7. CASE ~client[p]
    <2>1. pc'[p] = "exited" /\ open[p] = 0 /\ open'[p] = 0
      BY <1>1, <1>3, <1>5, <1>7 DEF Sound, Typed, Phase, Walk, Present, Held
    <2>2. Sound(p)'
      BY <1>1, <1>3, <1>5, <1>7, <2>1, SamePlaces DEF Sound, Typed, Phase, Walk, Present, Held
    <2> QED BY <1>2, <2>2
  <1> QED BY <1>6, <1>7

LEMMA StatStep ==
  ASSUME All, NEW p \in Procs, Stat(p)
  PROVE  All'
  <1> USE DEF Stat
  <1>1. Sound(p) /\ Chain /\ Functions
    BY DEF All
  <1>2. Chain' /\ Kept
    BY <1>1, StayChain
  <1>3. CASE IsDir(at[p])
    <2>1. Advance(p)
      BY <1>3 DEF IsFile, IsDir
    <2> QED BY <2>1, <1>2, <1>3, AdvanceStep, OneStep DEF IsDir, IsFile
  <1>4. CASE IsFile(at[p])
    BY <1>2, <1>4, FailStep, OneStep DEF IsDir, IsFile
  <1>5. CASE ~IsDir(at[p]) /\ ~IsFile(at[p])
    <2>1. pc'[p] = "mkdir" /\ UNCHANGED <<fs, call, ctx, failed, outcome, hindered>>
      BY <1>1, <1>5 DEF Goto, Functions, call
    <2>2. Functions' /\ \A q \in Procs : q # p => Same(q)
      BY <1>1, <1>5 DEF Functions, Same, Goto, call, ctx
    <2>3. ~hindered => fs[at[p]] # "file"
      BY <1>1, <1>5 DEF Sound, Typed, Phase, Walk, Present, Held, IsFile, Reached
    <2>4. Sound(p)'
      BY <1>1, <2>1, <2>3, SamePlaces DEF Sound, Typed, Phase, Walk, Present, Held, call, ctx
    <2> QED BY <1>2, <2>2, <2>4, OneStep
  <1> QED BY <1>3, <1>4, <1>5

LEMMA MkdirStep ==
  ASSUME All, NEW p \in Procs, Mkdir(p)
  PROVE  All'
  <1> USE DEF Mkdir
  <1>1. Sound(p) /\ Chain /\ Functions /\ at[p] \in Places
    BY DEF All, Sound, Typed, Phase, Walk, Present, Held
  <1>2. Chain' /\ Kept /\ (Tolerant(at[p]) /\ fs[at[p]] # "file" => fs'[at[p]] = "dir")
    BY <1>1, MadeChain
  <1>3. CASE Tolerant(at[p])
    <2>1. ~hindered' => fs'[at[p]] = "dir"
      BY <1>1, <1>2, <1>3 DEF Sound, Typed, Phase, Walk, Present, Held
    <2> QED BY <2>1, <1>2, <1>3, AdvanceStep, OneStep
  <1>4. CASE ~Tolerant(at[p])
    BY <1>2, <1>4, FailStep, OneStep
  <1> QED BY <1>3, <1>4

LEMMA KeystoreStep ==
  ASSUME All, NEW p \in Procs, Keystore(p)
  PROVE  All'
  <1> USE DEF Keystore, Goto, call, ctx
  <1>1. Sound(p) /\ Chain /\ Functions
    BY DEF All
  <1>2. Chain' /\ Kept
    BY <1>1, StayChain
  <1>3. Functions' /\ \A q \in Procs : q # p => Same(q)
    BY <1>1 DEF Functions, Same
  <1>4. Sound(p)'
    <2>1. pc'[p] = "token" /\ UNCHANGED <<fs, call, ctx, outcome, failed, hindered>>
      BY <1>1 DEF Functions
    <2> QED BY <1>1, <2>1 DEF Sound, Typed, Phase, Walk, Present, Held
  <1> QED BY <1>2, <1>3, <1>4, OneStep

LEMMA TokenStep ==
  ASSUME All, NEW p \in Procs, Token(p)
  PROVE  All'
  <1> USE DEF Token, Goto, call, ctx
  <1>1. Sound(p) /\ Chain /\ Functions
    BY DEF All
  <1>2. Chain' /\ Kept
    BY <1>1, StayChain
  <1>3. Functions' /\ \A q \in Procs : q # p => Same(q)
    BY <1>1 DEF Functions, Same
  <1>4. Sound(p)'
    <2>1. /\ pc'[p] = "ready" /\ connect'[p] = "onedrive" /\ ops'[p] = "onedrive"
          /\ UNCHANGED <<fs, call, client, open, outcome, failed, hindered>>
      BY <1>1 DEF Functions
    <2> QED BY <1>1, <2>1 DEF Sound, Typed, Phase, Walk, Present, Held
  <1> QED BY <1>2, <1>3, <1>4, OneStep

LEMMA DisconnectStep ==
  ASSUME All, NEW p \in Procs, Disconnect(p)
  PROVE  All'
  <1> USE DEF Disconnect, Goto, call, ctx
  <1>1. Sound(p) /\ Chain /\ Functions
    BY DEF All
  <1>2. Chain' /\ Kept
    BY <1>1, StayChain
  <1>3. Functions' /\ \A q \in Procs : q # p => Same(q)
    BY <1>1 DEF Functions, Same
  <1>4. Sound(p)'
    <2>1. /\ connect'[p] = "none" /\ open'[p] = open[p] - 1
          /\ UNCHANGED <<fs, pc, call, client, ops, outcome, failed, hindered>>
      BY <1>1 DEF Functions
    <2>2. open[p] = 1 /\ open'[p] = 0
      BY <1>1, <2>1 DEF Sound, Typed, Phase, Walk, Present, Held
    <2> QED BY <1>1, <2>1, <2>2 DEF Sound, Typed, Phase, Walk, Present, Held
  <1> QED BY <1>2, <1>3, <1>4, OneStep

LEMMA ConnectStep ==
  ASSUME All, NEW p \in Procs, NEW backend \in {"onedrive", "ipfs"}, Connect(p, backend)
  PROVE  All'
  <1>1. Sound(p) /\ Chain /\ Functions
    BY DEF All
  <1>2. Chain' /\ Kept
    BY <1>1, StayChain DEF Connect
  <1>3. Functions' /\ \A q \in Procs : q # p => Same(q)
    BY <1>1 DEF Functions, Same, Connect, Busy, Goto, call, ctx
  <1>4. Sound(p)'
    <2>1. connect[p] = "none" /\ pc[p] = "ready" /\ open[p] = 0 /\ open'[p] = 1
      BY <1>1 DEF Sound, Typed, Phase, Walk, Present, Held, Functions, Connect, Busy, Goto, call, ctx
    <2>2. failed'[p] \in BOOLEAN /\ UNCHANGED <<fs, client, outcome, hindered>>
      BY <1>1 DEF Functions, Connect, Busy, Goto, call, ctx
    <2>3. CASE backend = "onedrive"
      <3>1. /\ pc'[p] = "stat" /\ at'[p] = 1 /\ goal'[p] = KeyDir
            /\ UNCHANGED <<connect, ops>>
        BY <1>1, <2>3 DEF Functions, Connect, Busy, Goto, call, ctx
      <3>2. at'[p] \in Places /\ at'[p] <= goal'[p]
        BY <3>1, SamePlaces, LocationAssumption DEF KeyDir
      <3>3. \A j \in 1..at'[p] - 1 : fs'[j] = "dir"
        BY <3>1
      <3>0. Typed(p)
        BY <1>1 DEF Sound
      <3>a. Typed(p)'
        BY <3>0, <2>1, <2>2, <3>1, <3>2, <3>3 DEF Typed, call
      <3>b. Phase(p)'
        BY <1>1, <2>1, <2>2, <3>1, <3>2, <3>3 DEF Sound, Typed, Phase, call
      <3>c. Walk(p)'
        BY <1>1, <2>1, <2>2, <3>1, <3>2, <3>3 DEF Sound, Phase, Walk, call
      <3>d. Present(p)'
        BY <1>1, <2>1, <2>2, <3>1, <3>2, <3>3 DEF Sound, Phase, Present
      <3>e. Held(p)'
        BY <1>1, <2>1, <2>2, <3>1, <3>2, <3>3 DEF Sound, Phase, Held, call
      <3> QED BY <3>a, <3>b, <3>c, <3>d, <3>e DEF Sound
    <2>4. CASE backend = "ipfs"
      <3>1. connect'[p] = "ipfs" /\ ops'[p] = "ipfs" /\ UNCHANGED <<pc, call>>
        BY <1>1, <2>4 DEF Functions, Connect, Busy, Goto, call, ctx
      <3>0. Typed(p)
        BY <1>1 DEF Sound
      <3>a. Typed(p)'
        BY <3>0, <2>1, <2>2, <3>1 DEF Typed, call
      <3>b. Phase(p)'
        BY <1>1, <2>1, <2>2, <3>1 DEF Sound, Typed, Phase, call
      <3>c. Walk(p)'
        BY <1>1, <2>1, <2>2, <3>1 DEF Sound, Phase, Walk, call
      <3>d. Present(p)'
        BY <1>1, <2>1, <2>2, <3>1 DEF Sound, Phase, Present
      <3>e. Held(p)'
        BY <1>1, <2>1, <2>2, <3>1 DEF Sound, Phase, Held, call
      <3> QED BY <3>a, <3>b, <3>c, <3>d, <3>e DEF Sound
    <2> QED BY <2>3, <2>4
  <1> QED BY <1>2, <1>3, <1>4, OneStep

LEMMA FileCommandStep ==
  ASSUME All, NEW p \in Procs, NEW f \in FileCalls, FileCommand(p, f)
  PROVE  All'
  <1> USE DEF FileCommand, Dispatch, Refuse, Goto, call, ctx
  <1>1. Sound(p) /\ Chain /\ Functions
    BY DEF All
  <1>2. Chain' /\ Kept
    BY <1>1, StayChain
  <1>3. Functions' /\ \A q \in Procs : q # p => Same(q)
    BY <1>1 DEF Functions, Same
  <1>4. Sound(p)'
    <2>1. outcome'[p] \in {"refused", "called"}
      BY <1>1 DEF Sound, Typed, Phase, Walk, Present, Held, Functions, Has, Table
    <2>2. UNCHANGED <<fs, pc, at, goal, client, connect, ops, open, failed, hindered>>
      OBVIOUS
    <2> QED BY <1>1, <2>1, <2>2 DEF Sound, Typed, Phase, Walk, Present, Held
  <1> QED BY <1>2, <1>3, <1>4, OneStep

LEMMA OtherCommandStep ==
  ASSUME All, NEW p \in Procs, NEW f \in OtherCalls, OtherCommand(p, f)
  PROVE  All'
  <1> USE DEF OtherCommand, Dispatch, Refuse, Goto, call, ctx
  <1>1. Sound(p) /\ Chain /\ Functions
    BY DEF All
  <1>2. Chain' /\ Kept
    BY <1>1, StayChain
  <1>3. Functions' /\ \A q \in Procs : q # p => Same(q)
    BY <1>1 DEF Functions, Same
  <1>4. Sound(p)'
    <2>1. outcome'[p] \in {"refused", "called"}
      BY <1>1 DEF Sound, Typed, Phase, Walk, Present, Held, Functions, Has, Table
    <2>2. UNCHANGED <<fs, pc, at, goal, client, connect, ops, open, failed, hindered>>
      OBVIOUS
    <2> QED BY <1>1, <2>1, <2>2 DEF Sound, Typed, Phase, Walk, Present, Held
  <1> QED BY <1>2, <1>3, <1>4, OneStep

LEMMA LeaveStep ==
  ASSUME All, NEW p \in Procs, Leave(p)
  PROVE  All'
  <1>1. Sound(p) /\ Chain /\ Functions
    BY DEF All
  <1>2. Chain' /\ Kept
    BY <1>1, StayChain DEF Leave
  <1>3. Functions' /\ \A q \in Procs : q # p => Same(q)
    BY <1>1 DEF Functions, Same, Leave, Goto, call, ctx
  <1>4. Sound(p)'
    <2>1. /\ pc'[p] = "exited" /\ ~client'[p] /\ client'[p] \in BOOLEAN
          /\ connect'[p] = "none"
          /\ ops'[p] = "none" /\ open'[p] = 0
          /\ UNCHANGED <<fs, at, goal, outcome, failed, hindered>>
      BY <1>1 DEF Functions, Leave, Goto, call, ctx
    <2>0. Typed(p)
      BY <1>1 DEF Sound
    <2>a. Typed(p)'
      BY <2>0, <2>1 DEF Typed, call
    <2>b. Phase(p)'
      BY <1>1, <2>1 DEF Sound, Typed, Phase, call
    <2>c. Walk(p)'
      BY <1>1, <2>1 DEF Sound, Phase, Walk, call
    <2>d. Present(p)'
      BY <1>1, <2>1 DEF Sound, Phase, Present
    <2>e. Held(p)'
      BY <1>1, <2>1 DEF Sound, Phase, Held, call
    <2> QED BY <2>a, <2>b, <2>c, <2>d, <2>e DEF Sound
  <1> QED BY <1>2, <1>3, <1>4, OneStep

LEMMA RestartStep ==
  ASSUME All, NEW p \in Procs, Restart(p)
  PROVE  All'
  <1> USE DEF Restart, Goto, call, ctx
  <1>1. Sound(p) /\ Chain /\ Functions
    BY DEF All
  <1>2. Chain' /\ Kept
    BY <1>1, StayChain
  <1>3. Functions' /\ \A q \in Procs : q # p => Same(q)
    BY <1>1 DEF Functions, Same
  <1>4. Sound(p)'
    <2>1. /\ pc'[p] = "start" /\ outcome'[p] = "none" /\ failed'[p] \in BOOLEAN
          /\ UNCHANGED <<fs, at, goal, client, connect, ops, open, hindered>>
      BY <1>1 DEF Functions
    <2>2. ~client[p] /\ connect[p] = "none"
      BY <1>1 DEF Sound, Typed, Phase, Walk, Present, Held
    <2> QED BY <1>1, <2>1, <2>2 DEF Sound, Typed, Phase, Walk, Present, Held
  <1> QED BY <1>2, <1>3, <1>4, OneStep

LEMMA DeniedStep ==
  ASSUME All, NEW p \in Procs, Denied(p)
  PROVE  All'
  <1>1. Chain /\ hindered' = TRUE /\ UNCHANGED <<fs, call, outcome>>
    BY DEF All, Denied
  <1>2. Chain' /\ Kept
    BY <1>1 DEF Chain, Kept
  <1> QED BY <1>1, <1>2, FailStep, OneStep DEF Denied, call

LEMMA UnservedStep ==
  ASSUME All, NEW p \in Procs, Unserved(p)
  PROVE  All'
  <1> USE DEF Unserved, call, ctx
  <1>1. Sound(p) /\ Chain /\ Functions
    BY DEF All
  <1>2. Chain' /\ Kept
    BY <1>1 DEF Chain, Kept
  <1>3. Functions' /\ \A q \in Procs : q # p => Same(q)
    BY <1>1 DEF Functions, Same
  <1>4. Sound(p)'
    <2>1. failed'[p] \in BOOLEAN /\ hindered'
      BY <1>1 DEF Functions
    <2> QED BY <1>1, <2>1 DEF Sound, Typed, Phase, Walk, Present, Held
  <1> QED BY <1>2, <1>3, <1>4, OneStep

\* Somebody changes the chain.
LEMMA WorldStep ==
  ASSUME All, Chain', hindered' = TRUE, UNCHANGED <<pc, call, ctx, outcome, failed>>
  PROVE  All'
  <1>1. Functions' /\ Kept /\ \A q \in Procs : Same(q)
    BY DEF All, Functions, Kept, Same, call, ctx
  <1> QED BY <1>1, Others DEF All

LEMMA RemoveStep ==
  ASSUME All, NEW i \in Places, Remove(i)
  PROVE  All'
  <1>1. Chain'
    <2>1. \A k \in 2..KeyDir : fs'[k] # "none" => fs'[k - 1] = "dir"
      BY SamePlaces, LocationAssumption DEF Remove, All, Chain, Places, KeyDir
    <2> QED BY <2>1 DEF Remove, All, Chain
  <1> QED BY <1>1, WorldStep DEF Remove

LEMMA MakeFileStep ==
  ASSUME All, NEW i \in Places, MakeFile(i)
  PROVE  All'
  <1>1. Chain'
    <2>1. \A k \in 2..KeyDir : fs'[k] # "none" => fs'[k - 1] = "dir"
      <3> SUFFICES ASSUME NEW k \in 2..KeyDir, fs'[k] # "none" PROVE fs'[k - 1] = "dir"
        OBVIOUS
      <3>1. k \in Places /\ k - 1 \in Places /\ k - 1 \in 1..k - 1
        BY LocationAssumption DEF Places, KeyDir
      <3>2. fs[k - 1] = "dir"
        BY <3>1 DEF MakeFile, Makes, Reached, All, Chain
      <3>3. k - 1 # i
        BY <3>2 DEF MakeFile, Makes
      <3> QED BY <3>1, <3>2, <3>3 DEF MakeFile, All, Chain
    <2> QED BY <2>1 DEF MakeFile, All, Chain
  <1> QED BY <1>1, WorldStep DEF MakeFile

-----------------------------------------------------------------------------
(* Theorems.                                                               *)

LEMMA InitAll == Init => All
  <1> SUFFICES ASSUME Init PROVE All
    OBVIOUS
  <1>1. Chain /\ Functions
    BY DEF Init, Chain, Functions
  <1>2. ASSUME NEW p \in Procs PROVE Sound(p)
    BY SamePlaces DEF Init, Sound, Typed, Phase, Walk, Present, Held
  <1> QED BY <1>1, <1>2 DEF All

LEMMA NextAll == All /\ [Next]_vars => All'
  <1> SUFFICES ASSUME All, [Next]_vars PROVE All'
    OBVIOUS
  <1>1. ASSUME NEW p \in Procs, Step(p) PROVE All'
    BY <1>1, StartStep, NewStep, StatStep, MkdirStep, KeystoreStep DEF Step
  <1>2. ASSUME NEW p \in Procs, Token(p) \/ Disconnect(p) \/ Leave(p) \/ Restart(p)
                                  \/ Denied(p) \/ Unserved(p)
        PROVE  All'
    BY <1>2, TokenStep, DisconnectStep, LeaveStep, RestartStep, DeniedStep,
       UnservedStep
  <1>3. ASSUME NEW p \in Procs, NEW backend \in {"onedrive", "ipfs"}, Connect(p, backend)
        PROVE  All'
    BY <1>3, ConnectStep
  <1>4. ASSUME NEW p \in Procs, NEW f \in FileCalls, FileCommand(p, f) PROVE All'
    BY <1>4, FileCommandStep
  <1>5. ASSUME NEW p \in Procs, NEW f \in OtherCalls, OtherCommand(p, f) PROVE All'
    BY <1>5, OtherCommandStep
  <1>6. ASSUME NEW i \in Places, Remove(i) \/ MakeFile(i) PROVE All'
    BY <1>6, RemoveStep, MakeFileStep
  <1>7. CASE UNCHANGED vars
    <2>1. Chain' /\ Kept
      BY <1>7, StayChain DEF All, vars
    <2>2. Functions' /\ \A q \in Procs : Same(q)
      BY <1>7 DEF All, Functions, Same, vars, call, ctx
    <2> QED BY <2>1, <2>2, Others DEF All
  <1> QED BY <1>1, <1>2, <1>3, <1>4, <1>5, <1>6, <1>7 DEF Next

\* The invariant holds in every behaviour.
THEOREM Invariance == Spec => []IInv
  <1>1. Init => IInv
    BY InitAll, Parts
  <1>2. IInv /\ [Next]_vars => IInv'
    <2>1. All' => IInv'
      BY Parts, PTL
    <2> QED BY <2>1, NextAll, Parts
  <1> QED BY <1>1, <1>2, PTL DEF Spec

\* TypeOK: the directories on the way to the keystore form a chain, and every
\* variable has its type.
THEOREM TypeCorrect == Spec => []TypeOK
  <1>1. IInv => TypeOK
    BY DEF IInv
  <1> QED BY <1>1, Invariance, PTL

\* The directories a client relies on are there, however many processes made
\* them at the same time.
THEOREM AlwaysThere == Spec => []DirectoriesThere
  <1>1. IInv => DirectoriesThere
    BY DEF IInv
  <1> QED BY <1>1, Invariance, PTL

\* No connection object is lost on any path of connect, disconnect and failure.
THEOREM NeverLost == Spec => []NoConnectionLost
  <1>1. IInv => NoConnectionLost
    BY DEF IInv
  <1> QED BY <1>1, Invariance, PTL

-----------------------------------------------------------------------------
(* Failures.                                                               *)

\* A path is a directory, or there is nothing at its first gap, or a file.
LEMMA PathCases ==
  ASSUME Chain
  PROVE  IsDir(DataLocation) \/ Missing(DataLocation) \/ \E i \in Places : fs[i] = "file"
  <1> SUFFICES ASSUME ~IsDir(DataLocation) PROVE Missing(DataLocation) \/ \E i \in Places : fs[i] = "file"
    OBVIOUS
  <1> DEFINE T == {j \in Nat : j >= 1 /\ j <= DataLocation /\ fs[j] # "dir"}
  <1>1. T \subseteq Nat /\ T # {}
    BY LocationAssumption DEF IsDir, Reached
  <1>2. PICK x \in T : \A y \in T : ~(<<y, x>> \in OpToRel(<, Nat))
    BY <1>1, WFMin, NatLessThanWellFounded
  <1>3. \A y \in 1..x - 1 : fs[y] = "dir"
    <2> SUFFICES ASSUME NEW y \in 1..x - 1, fs[y] # "dir" PROVE FALSE
      OBVIOUS
    <2>1. x \in Nat /\ x <= DataLocation
      BY <1>1
    <2>2. y < x /\ y \in Nat /\ y >= 1 /\ y <= DataLocation
      BY <2>1, LocationAssumption
    <2>3. y \in T
      BY <2>2
    <2> QED BY <2>1, <2>2, <2>3, <1>2 DEF OpToRel
  <1>4. Reached(x) /\ x \in 1..DataLocation /\ x \in Places /\ fs[x] # "dir"
    BY <1>3, LocationAssumption DEF Reached, Places, KeyDir
  <1> QED BY <1>4 DEF Missing, Chain

\* What NoNeedlessFailure says of one process.
Justified(p) ==
    failed'[p] /\ ~failed[p] /\ ~hindered'
      => \/ \E i \in Places : fs[i] = "file"
         \/ pc[p] = "start" /\ p \in Tools /\ ~Reached(DataLocation)

LEMMA StepJustified ==
  ASSUME All, NEW p \in Procs, Step(p), failed'[p], ~failed[p], ~hindered'
  PROVE  Justified(p)
  <1>1. Sound(p) /\ Chain /\ Functions
    BY DEF All
  <1>2. CASE Start(p)
    BY <1>1, <1>2 DEF Start, Justified, Tolerant, ctx
  <1>3. CASE New(p)
    BY <1>1, <1>3, PathCases DEF New, Justified, ctx
  <1>4. CASE Stat(p)
    BY <1>1, <1>4, SamePlaces DEF Stat, Justified, ctx, IsFile, Sound, Typed
  <1>5. CASE Mkdir(p)
    <2>1. ~hindered /\ pc[p] = "mkdir"
      BY <1>5 DEF Mkdir
    <2>2. \A j \in 1..at[p] - 1 : fs[j] = "dir"
      BY <1>1, <2>1 DEF Sound, Walk
    <2>3. Tolerant(at[p])
      BY <2>2 DEF Tolerant, Reached
    <2> QED BY <1>5, <2>3 DEF Mkdir
  <1>6. CASE Keystore(p)
    BY <1>6 DEF Keystore
  <1> QED BY <1>2, <1>3, <1>4, <1>5, <1>6 DEF Step

LEMMA NextJustified ==
  ASSUME All, [Next]_vars, NEW p \in Procs
  PROVE  Justified(p)
  <1> SUFFICES ASSUME failed'[p], ~failed[p], ~hindered' PROVE Justified(p)
    BY DEF Justified
  <1>0. Functions /\ failed' # failed
    BY DEF All
  <1>1. ASSUME NEW q \in Procs, Step(q) PROVE Justified(p)
    <2>1. CASE q = p
      BY <1>1, <2>1, StepJustified
    <2>2. CASE q # p
      <3>1. failed'[p] = failed[p]
        BY <1>0, <1>1, <2>2 DEF Functions, Step, Start, New, Stat, Mkdir, Keystore,
                                Fail, ctx
      <3> QED BY <3>1
    <2> QED BY <2>1, <2>2
  <1>2. ASSUME NEW q \in Procs, NEW backend \in {"onedrive", "ipfs"}, Connect(q, backend)
        PROVE  FALSE
    BY <1>0, <1>2 DEF Connect, Functions
  <1>3. ASSUME NEW q \in Procs, Restart(q) PROVE FALSE
    BY <1>0, <1>3 DEF Restart, Functions
  <1>4. ASSUME NEW q \in Procs, Denied(q) \/ Unserved(q) PROVE FALSE
    BY <1>4 DEF Denied, Unserved
  <1>5. ASSUME NEW q \in Procs, Token(q) \/ Disconnect(q) \/ Leave(q) PROVE FALSE
    BY <1>0, <1>5 DEF Token, Disconnect, Leave
  <1>6. ASSUME NEW q \in Procs, NEW f, FileCommand(q, f) \/ OtherCommand(q, f)
        PROVE  FALSE
    BY <1>0, <1>6 DEF FileCommand, OtherCommand
  <1>7. ASSUME NEW i \in Places, Remove(i) \/ MakeFile(i) PROVE FALSE
    BY <1>0, <1>7 DEF Remove, MakeFile
  <1>8. CASE UNCHANGED vars
    BY <1>0, <1>8 DEF vars
  <1> QED BY <1>1, <1>2, <1>3, <1>4, <1>5, <1>6, <1>7, <1>8 DEF Next

\* Processes that make the same directories never make each other fail.
THEOREM AlwaysJustified == Spec => NoNeedlessFailure
  <1>1. IInv /\ [Next]_vars =>
          [\A p \in Procs :
             failed'[p] /\ ~failed[p] /\ ~hindered'
               => \/ \E i \in Places : fs[i] = "file"
                  \/ pc[p] = "start" /\ p \in Tools /\ ~Reached(DataLocation)]_vars
    BY NextJustified, Parts DEF Justified
  <1> QED BY <1>1, Invariance, PTL DEF Spec, NoNeedlessFailure
=============================================================================
