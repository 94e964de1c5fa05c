-------------------------- MODULE OAuthTokenProofs --------------------------
(***************************************************************************)
(* Proofs about OAuthToken, for every set of connections, client ids and   *)
(* grants, every number of requests per call and every number of faults.   *)
(***************************************************************************)
EXTENDS OAuthToken, TLAPS

USE NoGrantAssumption, NoClientAssumption,
    NoConnAssumption, MaxRequestsAssumption, MaxFaultsAssumption
    DEF opened

-----------------------------------------------------------------------------
(* The inductive invariant.  A token answered with 401 has a zeroed expiry *)
(* until it is replaced, nothing zeroes the expiry between the check and   *)
(* the request, and a new grant is one that nobody was refused before.     *)

\* What connection c holds.
Held(c) ==
    /\ mem[c].acc = mem[c].ref
    /\ mem[c].acc # NoGrant => owner[mem[c].acc] \in ClientIds
    /\ mem[c].exp = "issued" => mem[c].acc # NoGrant
    /\ pc[c] \in {"open", "write", "request"} => mem[c].exp = "issued"
    /\ pc[c] \in {"closed", "load", "authorize", "redeem"} =>
         mem[c].acc = NoGrant /\ rejected[c] = {}
    /\ \A g \in rejected[c] : owner[g] # NoClient
    /\ mem[c].acc \in rejected[c] => mem[c].exp = "zero"

\* What the keystore holds.
Kept ==
    /\ keystore.token.acc = keystore.token.ref
    /\ keystore.token.exp = "issued" => keystore.token.acc # NoGrant
    /\ keystore.token.acc # NoGrant =>
         keystore.client \in ClientIds /\ owner[keystore.token.acc] = keystore.client

\* An open connection has a client_id, and its token belongs to it.
Named(c) ==
    /\ pc[c] # "closed" => app[c] \in ClientIds
    /\ mem[c].acc # NoGrant => owner[mem[c].acc] = app[c]

IInv == TypeOK /\ Kept /\ \A c \in Conns : Held(c) /\ Named(c)

-----------------------------------------------------------------------------
(* Type correctness.                                                       *)

\* The tokens and files that the actions build are tokens and files.
LEMMA TokenTypes ==
  /\ NoToken \in Tokens
  /\ \A g \in Grants : TokenOf(g) \in Tokens
  /\ \A t \in Tokens : [t EXCEPT !.exp = "zero"] \in Tokens
  /\ \A t \in Tokens : t.acc \in Grants \cup {NoGrant} /\ t.ref \in Grants \cup {NoGrant}
  BY DEF Tokens, NoToken, TokenOf

LEMMA FileTypes ==
  /\ Absent \in Files /\ Empty \in Files /\ Torn \in Files
  /\ \A k \in Files : k.token \in Tokens
  /\ \A c \in Conns : mem[c] \in Tokens /\ app[c] \in ClientIds \cup {NoClient}
                        => Record(c) \in Files
  BY TokenTypes DEF Files, Absent, Empty, Torn, Record

\* The parts that most actions are built from preserve the types.
LEMMA GotoType ==
  ASSUME TypeOK, NEW c \in Conns, NEW s \in States, Goto(c, s)
  PROVE  pc' \in [Conns -> States]
  BY DEF TypeOK, Goto

LEMMA FaultType ==
  ASSUME TypeOK, Fault \/ NoFault
  PROVE  faults' \in 0..MaxFaults
  BY DEF TypeOK, Fault, NoFault

LEMMA GrantType ==
  ASSUME TypeOK, NEW g \in Grants, NEW client \in ClientIds \cup {NoClient},
         Grant(g, client)
  PROVE  /\ owner' \in [Grants -> ClientIds \cup {NoClient}]
         /\ accepted' \subseteq Grants
         /\ refreshable' \subseteq Grants
         /\ lapsed' \subseteq Grants
  BY DEF TypeOK, Grant

LEMMA ReturnType ==
  ASSUME TypeOK, NEW c \in Conns, NEW r \in {"none", "ok", "again", "error"},
         Return(c, r)
  PROVE  /\ pc' \in [Conns -> States]
         /\ result' \in [Conns -> {"none", "ok", "again", "error"}]
         /\ lastError' \in [Conns -> BOOLEAN]
         /\ left' \in [Conns -> 0..MaxRequests]
<1>1. pc' \in [Conns -> States]
  BY GotoType DEF Return, States
<1>2. result' \in [Conns -> {"none", "ok", "again", "error"}]
  BY DEF TypeOK, Return
<1>3. lastError' \in [Conns -> BOOLEAN]
  BY DEF TypeOK, Return
<1>4. left' \in [Conns -> 0..MaxRequests]
  BY DEF TypeOK, Return
<1> QED BY <1>1, <1>2, <1>3, <1>4

LEMMA GoneType ==
  ASSUME TypeOK, NEW c \in Conns, Gone(c)
  PROVE  /\ pc' \in [Conns -> States]
         /\ app' \in [Conns -> ClientIds \cup {NoClient}]
         /\ seen' \in [Conns -> Files]
         /\ mem' \in [Conns -> Tokens]
         /\ left' \in [Conns -> 0..MaxRequests]
         /\ result' \in [Conns -> {"none", "ok", "again", "error"}]
         /\ rejected' \in [Conns -> SUBSET Grants]
         /\ unsaved' \in [Conns -> BOOLEAN]
<1>1. pc' \in [Conns -> States]
  BY GotoType DEF Gone, States
<1>2. mem' \in [Conns -> Tokens]
  BY TokenTypes DEF TypeOK, Gone
<1>3. left' \in [Conns -> 0..MaxRequests]
  BY DEF TypeOK, Gone
<1>4. result' \in [Conns -> {"none", "ok", "again", "error"}]
  BY DEF TypeOK, Gone
<1>5. rejected' \in [Conns -> SUBSET Grants] /\ unsaved' \in [Conns -> BOOLEAN]
  BY DEF TypeOK, Gone
<1>6. app' \in [Conns -> ClientIds \cup {NoClient}] /\ seen' \in [Conns -> Files]
  BY FileTypes DEF TypeOK, Gone
<1> QED BY <1>1, <1>2, <1>3, <1>4, <1>5, <1>6

LEMMA TypeInit == Init => TypeOK
<1> SUFFICES ASSUME Init PROVE TypeOK
  OBVIOUS
<1>1. pc \in [Conns -> States]
  BY DEF Init, States
<1>2. mem \in [Conns -> Tokens]
  BY TokenTypes DEF Init
<1>3. seen \in [Conns -> Files] /\ keystore \in Files
  BY FileTypes DEF Init
<1>4. left \in [Conns -> 0..MaxRequests] /\ faults \in 0..MaxFaults
  BY DEF Init
<1> QED BY <1>1, <1>2, <1>3, <1>4 DEF Init, TypeOK

LEMMA TypeConnecting ==
  ASSUME TypeOK, NEW c \in Conns, Connecting(c)
  PROVE  TypeOK'
<1> USE DEF TypeOK, serverVars, fileVars, historyVars
<1>1. CASE StatKeystore(c)
  <2>1. pc' \in [Conns -> States] /\ faults' \in 0..MaxFaults
    BY <1>1, GotoType, FaultType DEF StatKeystore, States
  <2>2. lastError' \in [Conns -> BOOLEAN]
    BY <1>1 DEF StatKeystore
  <2>3. seen' \in [Conns -> Files]
    BY <1>1 DEF StatKeystore
  <2>4. app' \in [Conns -> ClientIds \cup {NoClient}]
    BY <1>1 DEF StatKeystore
  <2> QED BY <1>1, <2>1, <2>2, <2>3, <2>4 DEF StatKeystore
<1>2. CASE LoadKeystore(c)
  <2>1. faults' \in 0..MaxFaults
    BY <1>2, FaultType DEF LoadKeystore
  <2>2. CASE Loadable(keystore) /\ mem' = [mem EXCEPT ![c] = Restored(c, keystore)]
             /\ Goto(c, IF Restored(c, keystore).acc = NoGrant
                        THEN "authorize" ELSE "idle")
             /\ seen' = [seen EXCEPT ![c] = Absent]
             /\ UNCHANGED <<cont, left, result, lastError, app, serverVars,
                            fileVars, historyVars>>
    <3>1. pc' \in [Conns -> States]
      BY <2>2, GotoType DEF States
    <3>2. mem' \in [Conns -> Tokens]
      BY <2>2, TokenTypes, FileTypes DEF Restored
    <3>3. seen' \in [Conns -> Files]
      BY <2>2, FileTypes
    <3> QED BY <2>1, <2>2, <3>1, <3>2, <3>3
  <2>3. CASE /\ lastError' = [lastError EXCEPT ![c] = TRUE]
             /\ ConnectFails(c)
    BY <2>1, <2>3, GoneType DEF ConnectFails
  <2> QED BY <1>2, <2>2, <2>3 DEF LoadKeystore
<1>3. CASE Authorize(c)
  <2>1. faults' \in 0..MaxFaults
    BY <1>3, FaultType DEF Authorize
  <2>2. CASE /\ Goto(c, "redeem")
             /\ UNCHANGED <<mem, cont, left, result, lastError, opened,
                            serverVars, fileVars, historyVars>>
    BY <2>1, <2>2, GotoType DEF States
  <2>3. ASSUME NEW set \in BOOLEAN,
               lastError' = [lastError EXCEPT ![c] = @ \/ set],
               \/ ConnectFails(c)
               \/ /\ Goto(c, "idle")
                  /\ UNCHANGED <<mem, cont, left, result, opened, serverVars,
                                 fileVars, historyVars>>
        PROVE  TypeOK'
    <3>1. lastError' \in [Conns -> BOOLEAN]
      BY <2>3
    <3>2. CASE ConnectFails(c)
      BY <2>1, <3>1, <3>2, GoneType DEF ConnectFails
    <3>3. CASE /\ Goto(c, "idle")
               /\ UNCHANGED <<mem, cont, left, result, opened, serverVars,
                              fileVars, historyVars>>
      BY <2>1, <3>1, <3>3, GotoType DEF States
    <3> QED BY <2>3, <3>2, <3>3
  <2> QED BY <1>3, <2>2, <2>3 DEF Authorize
<1>4. CASE RedeemToken(c)
  <2>1. faults' \in 0..MaxFaults
    BY <1>4, FaultType DEF RedeemToken
  <2>2. ASSUME NEW g \in Grants, Grant(g, app[c]), Decode(c, g),
               SaveThen(c, "idle"), UNCHANGED lastError,
               UNCHANGED <<left, result, opened, fileVars, historyVars>>
        PROVE  TypeOK'
    <3>1. pc' \in [Conns -> States] /\ cont' \in [Conns -> {"idle", "request"}]
      BY <2>2, GotoType DEF SaveThen, States
    <3>2. mem' \in [Conns -> Tokens]
      BY <2>2, TokenTypes DEF Decode
    <3> QED BY <2>1, <2>2, <3>1, <3>2, GrantType
  <2>3. ASSUME NEW g \in Grants, Grant(g, app[c]), Gone(c),
               UNCHANGED lastError, UNCHANGED <<cont, fileVars>>
        PROVE  TypeOK'
    BY <2>1, <2>3, GrantType, GoneType
  <2>4. CASE ConnectFails(c) /\ UNCHANGED lastError
    BY <2>1, <2>4, GoneType DEF ConnectFails
  <2> QED BY <1>4, <2>2, <2>3, <2>4 DEF RedeemToken
<1> QED BY <1>1, <1>2, <1>3, <1>4 DEF Connecting

LEMMA TypeSaving ==
  ASSUME TypeOK, NEW c \in Conns, Saving(c)
  PROVE  TypeOK'
<1> USE DEF TypeOK, serverVars
<1>1. cont[c] \in States /\ "write" \in States
  BY DEF States
<1>2. CASE OpenKeystore(c)
  <2>1. faults' \in 0..MaxFaults
    BY <1>2, FaultType DEF OpenKeystore
  <2>2. pc' \in [Conns -> States]
    BY <1>1, <1>2, GotoType DEF OpenKeystore, GiveUp
  <2>3. keystore' \in Files
    BY <1>2, FileTypes DEF OpenKeystore, GiveUp
  <2>4. unsaved' \in [Conns -> BOOLEAN] /\ saver' \in Conns \cup {NoConn}
    BY <1>2 DEF OpenKeystore, GiveUp
  <2> QED BY <1>2, <2>1, <2>2, <2>3, <2>4 DEF OpenKeystore
<1>3. CASE WriteKeystore(c)
  <2>1. faults' \in 0..MaxFaults
    BY <1>3, FaultType DEF WriteKeystore
  <2>2. pc' \in [Conns -> States]
    BY <1>1, <1>3, GotoType DEF WriteKeystore
  <2>3. keystore' \in Files
    BY <1>3, FileTypes DEF WriteKeystore
  <2>4. unsaved' \in [Conns -> BOOLEAN] /\ damaged' \in BOOLEAN
    BY <1>3 DEF WriteKeystore
  <2> QED BY <1>3, <2>1, <2>2, <2>3, <2>4 DEF WriteKeystore
<1> QED BY <1>2, <1>3 DEF Saving

LEMMA TypeWorking ==
  ASSUME TypeOK, NEW c \in Conns, Held(c), Working(c)
  PROVE  TypeOK'
<1> USE DEF TypeOK, serverVars, fileVars, historyVars
<1>1. CASE CheckExpire(c)
  <2>1. faults' \in 0..MaxFaults
    BY <1>1, FaultType DEF CheckExpire
  <2>2. CASE /\ Goto(c, "request") \/ Goto(c, "refresh")
             /\ UNCHANGED <<mem, cont, left, result, lastError, opened,
                            serverVars, fileVars, historyVars>>
    BY <2>1, <2>2, GotoType DEF States
  <2>3. CASE lastError' = [lastError EXCEPT ![c] = FALSE] /\ ConnectFails(c)
    BY <2>1, <2>3, GoneType DEF ConnectFails
  <2> QED BY <1>1, <2>2, <2>3 DEF CheckExpire
<1>2. CASE RefreshToken(c)
  <2>1. faults' \in 0..MaxFaults
    BY <1>2, FaultType DEF RefreshToken
  <2>2. UNCHANGED <<opened, fileVars, historyVars>>
    BY <1>2 DEF RefreshToken
  <2>3. ASSUME NEW g \in Grants, mem[c].ref \in refreshable,
               Grant(g, owner[mem[c].ref]), Decode(c, g),
               SaveThen(c, "request"), UNCHANGED <<left, result, lastError>>
        PROVE  TypeOK'
    <3>1. pc' \in [Conns -> States] /\ cont' \in [Conns -> {"idle", "request"}]
      BY <2>3, GotoType DEF SaveThen, States
    <3>2. mem' \in [Conns -> Tokens]
      BY <2>3, TokenTypes DEF Decode
    <3>3. owner[mem[c].ref] \in ClientIds \cup {NoClient}
      BY <2>3
    <3> QED BY <2>1, <2>2, <2>3, <3>1, <3>2, <3>3, GrantType
  <2>4. ASSUME NEW g \in Grants, mem[c].ref \in refreshable,
               Grant(g, owner[mem[c].ref]), Return(c, "error"),
               UNCHANGED <<mem, cont>>
        PROVE  TypeOK'
    <3>1. owner[mem[c].ref] \in ClientIds \cup {NoClient}
      BY <2>4
    <3> QED BY <2>1, <2>2, <2>4, <3>1, GrantType, ReturnType
  <2>5. CASE Return(c, "error") /\ UNCHANGED <<mem, cont, serverVars>>
    BY <2>1, <2>2, <2>5, ReturnType
  <2> QED BY <1>2, <2>3, <2>4, <2>5 DEF RefreshToken
<1>3. CASE SendRequest(c)
  <2>1. faults' \in 0..MaxFaults
    BY <1>3, FaultType DEF SendRequest
  <2>2. UNCHANGED <<cont, opened, serverVars, fileVars, unsaved>>
    BY <1>3 DEF SendRequest
  <2>3. ASSUME MoreRequests(c), left' = [left EXCEPT ![c] = @ - 1],
               NEW s \in {"request", "check"}, Goto(c, s),
               UNCHANGED <<result, lastError, mem, rejected>>
        PROVE  TypeOK'
    <3>1. left' \in [Conns -> 0..MaxRequests]
      BY <2>3 DEF MoreRequests
    <3>2. pc' \in [Conns -> States]
      BY <2>3, GotoType DEF States
    <3> QED BY <2>1, <2>2, <2>3, <3>1, <3>2
  <2>4. ASSUME NEW r \in {"ok", "error"}, Return(c, r), UNCHANGED <<mem, rejected>>
        PROVE  TypeOK'
    BY <2>1, <2>2, <2>4, ReturnType
  <2>5. CASE Unauthorized(c) /\ mem[c].acc \in Grants
    <3>1. mem' \in [Conns -> Tokens]
      BY <2>5, TokenTypes DEF Unauthorized
    <3>2. rejected' \in [Conns -> SUBSET Grants]
      BY <2>5 DEF Unauthorized
    <3> QED BY <2>1, <2>2, <2>5, <3>1, <3>2, ReturnType DEF Unauthorized
  <2>6. pc[c] = "request" => mem[c].acc \in Grants
    BY TokenTypes DEF Held
  <2> QED BY <1>3, <2>3, <2>4, <2>5, <2>6 DEF SendRequest
<1> QED BY <1>1, <1>2, <1>3 DEF Working

\* Application calls and the end of a connection.
Calling(c) == Call(c) \/ ExpireToken(c) \/ Disconnect(c) \/ Crash(c)

LEMMA TypeCalling ==
  ASSUME TypeOK, NEW c \in Conns, Calling(c)
  PROVE  TypeOK'
<1> USE DEF TypeOK, connVars, serverVars, fileVars, historyVars
<1>0. faults' \in 0..MaxFaults
  BY FaultType DEF Calling, Call, ExpireToken, Disconnect, Crash
<1>1. CASE Call(c)
  <2>1. pc' \in [Conns -> States]
    BY <1>1, GotoType DEF Call, States
  <2>2. left' \in [Conns -> 0..MaxRequests]
    BY <1>1 DEF Call
  <2> QED BY <1>0, <1>1, <2>1, <2>2 DEF Call
<1>2. CASE ExpireToken(c)
  <2>1. mem' \in [Conns -> Tokens]
    BY <1>2, TokenTypes DEF ExpireToken
  <2> QED BY <1>0, <1>2, <2>1 DEF ExpireToken
<1>3. CASE Disconnect(c)
  BY <1>0, <1>3, GoneType DEF Disconnect
<1>4. CASE Crash(c)
  <2>1. lastError' \in [Conns -> BOOLEAN]
    BY <1>4 DEF Crash
  <2>2. damaged' \in BOOLEAN
    BY <1>4 DEF Crash
  <2> QED BY <1>0, <1>4, <2>1, <2>2, GoneType DEF Crash
<1> QED BY <1>1, <1>2, <1>3, <1>4 DEF Calling

LEMMA TypeServer ==
  ASSUME TypeOK, NEW g \in Grants, Server(g)
  PROVE  TypeOK'
<1>1. faults' \in 0..MaxFaults
  BY FaultType DEF Server, Lapse, RevokeAccess, RevokeRefresh
<1> QED
  BY <1>1 DEF TypeOK, Server, Lapse, RevokeAccess, RevokeRefresh, connVars,
     serverVars, fileVars, historyVars

-----------------------------------------------------------------------------
(* What a step leaves alone.                                               *)

\* A step of one connection touches no other; no grant changes hands.
LEMMA Frame ==
  ASSUME TypeOK, NEW c \in Conns,
         Connecting(c) \/ Saving(c) \/ Working(c) \/ Calling(c)
  PROVE  /\ \A d \in Conns \ {c} :
              /\ pc'[d] = pc[d] /\ mem'[d] = mem[d] /\ app'[d] = app[d]
              /\ rejected'[d] = rejected[d] /\ unsaved'[d] = unsaved[d]
         /\ \A g \in Grants : owner[g] # NoClient => owner'[g] = owner[g]
<1> USE DEF TypeOK, Goto, Gone, Return, ConnectFails, Grant, Decode, SaveThen,
        connVars, serverVars, fileVars, historyVars
<1>1. CASE Connecting(c)
  BY <1>1 DEF Connecting, StatKeystore, LoadKeystore, Authorize, RedeemToken
<1>2. CASE Saving(c)
  BY <1>2 DEF Saving, OpenKeystore, WriteKeystore, GiveUp
<1>3. CASE Working(c)
  BY <1>3 DEF Working, CheckExpire, RefreshToken, SendRequest, Unauthorized
<1>4. CASE Calling(c)
  BY <1>4 DEF Calling, Call, ExpireToken, Disconnect, Crash
<1> QED BY <1>1, <1>2, <1>3, <1>4
-----------------------------------------------------------------------------
(* The inductive invariant holds.                                          *)

LEMMA InvInit == Init => IInv
<1> SUFFICES ASSUME Init PROVE IInv
  OBVIOUS
<1>1. TypeOK
  BY TypeInit
<1>2. Kept
  BY DEF Init, Kept, Absent, NoToken
<1>3. \A c \in Conns : Held(c) /\ Named(c)
  BY DEF Init, Held, Named, NoToken
<1> QED BY <1>1, <1>2, <1>3 DEF IInv

\* What another connection holds survives a step that touches none of it.
LEMMA HeldFrame ==
  ASSUME TypeOK, NEW d \in Conns, Held(d), Named(d),
         pc'[d] = pc[d], mem'[d] = mem[d], app'[d] = app[d], rejected'[d] = rejected[d],
         \A g \in Grants : owner[g] # NoClient => owner'[g] = owner[g]
  PROVE  Held(d)' /\ Named(d)'
<1>1. mem[d].acc \in Grants \cup {NoGrant} /\ rejected[d] \subseteq Grants
  BY TokenTypes DEF TypeOK
<1>2. Held(d)'
  BY <1>1 DEF Held
<1>3. Named(d)'
  BY <1>1 DEF Held, Named
<1> QED BY <1>2, <1>3

LEMMA HeldConnecting ==
  ASSUME IInv, NEW c \in Conns, Connecting(c)
  PROVE  Held(c)'
<1> USE DEF IInv, TypeOK
<1>0. Held(c) /\ Kept
  OBVIOUS
<1>1. CASE StatKeystore(c)
  BY <1>0, <1>1 DEF StatKeystore, Held, Goto, serverVars, historyVars
<1>2. CASE LoadKeystore(c)
  <2>1. CASE Loadable(keystore) /\ mem' = [mem EXCEPT ![c] = Restored(c, keystore)]
             /\ Goto(c, IF Restored(c, keystore).acc = NoGrant
                        THEN "authorize" ELSE "idle")
             /\ UNCHANGED <<serverVars, historyVars>>
    <3>1. rejected'[c] = {} /\ mem'[c] = Restored(c, keystore)
      BY <1>0, <1>2, <2>1 DEF LoadKeystore, Held, historyVars
    <3>2. pc'[c] = IF mem'[c].acc = NoGrant THEN "authorize" ELSE "idle"
      BY <2>1, <3>1 DEF Goto
    <3>3. CASE keystore.client = app[c]
      BY <1>0, <2>1, <3>1, <3>2, <3>3 DEF Kept, Held, Restored, serverVars
    <3>4. CASE keystore.client # app[c]
      BY <1>0, <2>1, <3>1, <3>2, <3>4 DEF Held, Restored, NoToken, serverVars
    <3> QED BY <3>3, <3>4
  <2>2. CASE ConnectFails(c)
    BY <2>2 DEF ConnectFails, Gone, Goto, Held, NoToken
  <2> QED BY <1>2, <2>1, <2>2 DEF LoadKeystore
<1>3. CASE Authorize(c)
  <2>1. CASE ConnectFails(c)
    BY <2>1 DEF ConnectFails, Gone, Goto, Held, NoToken
  <2>2. CASE /\ Goto(c, "redeem") \/ Goto(c, "idle")
             /\ UNCHANGED <<mem, serverVars, historyVars>>
    BY <1>0, <1>3, <2>2 DEF Authorize, Held, Goto, serverVars, historyVars
  <2> QED BY <1>3, <2>1, <2>2 DEF Authorize
<1>4. CASE RedeemToken(c)
  <2>1. ASSUME NEW g \in Grants, Grant(g, app[c]), Decode(c, g),
               SaveThen(c, "idle"), UNCHANGED historyVars
        PROVE  Held(c)'
    BY <1>0, <1>4, <2>1 DEF RedeemToken, Held, Named, Grant, Decode, TokenOf, SaveThen,
       Goto, historyVars
  <2>2. CASE Gone(c)
    BY <2>2 DEF Gone, Goto, Held, NoToken
  <2> QED BY <1>4, <2>1, <2>2 DEF RedeemToken, ConnectFails
<1> QED BY <1>1, <1>2, <1>3, <1>4 DEF Connecting

LEMMA HeldSaving ==
  ASSUME IInv, NEW c \in Conns, Saving(c)
  PROVE  Held(c)'
<1>1. pc'[c] \in {"write", "idle", "request"} /\ mem' = mem /\ rejected' = rejected
  BY DEF IInv, TypeOK, Saving, OpenKeystore, WriteKeystore, GiveUp, Goto
<1>2. owner' = owner
  BY DEF Saving, OpenKeystore, WriteKeystore, serverVars
<1>3. Held(c) /\ pc[c] \in {"open", "write"}
  BY DEF IInv, Saving, OpenKeystore, WriteKeystore
<1> QED BY <1>1, <1>2, <1>3 DEF Held

LEMMA HeldWorking ==
  ASSUME IInv, NEW c \in Conns, Working(c)
  PROVE  Held(c)'
<1> USE DEF IInv, TypeOK
<1>0. Held(c)
  OBVIOUS
<1>1. CASE CheckExpire(c)
  <2>1. CASE ConnectFails(c)
    BY <2>1 DEF ConnectFails, Gone, Goto, Held, NoToken
  <2>2. CASE ~Expired(mem[c]) /\ Goto(c, "request")
             /\ UNCHANGED <<mem, serverVars, historyVars>>
    <3>1. mem[c].exp = "issued"
      BY <2>2 DEF Expired, Tokens
    <3> QED BY <1>0, <1>1, <2>2, <3>1 DEF CheckExpire, Held, Goto, serverVars,
            historyVars
  <2>3. CASE Goto(c, "refresh") /\ UNCHANGED <<mem, serverVars, historyVars>>
    BY <1>0, <1>1, <2>3 DEF CheckExpire, Held, Goto, serverVars, historyVars
  <2> QED BY <1>1, <2>1, <2>2, <2>3 DEF CheckExpire
<1>2. CASE RefreshToken(c)
  <2>1. ASSUME NEW g \in Grants, mem[c].ref \in refreshable,
               Grant(g, owner[mem[c].ref]), Decode(c, g), SaveThen(c, "request"),
               UNCHANGED historyVars
        PROVE  Held(c)'
    <3>1. mem'[c] = TokenOf(g) /\ pc'[c] = "open" /\ rejected'[c] = rejected[c]
      BY <2>1 DEF Decode, SaveThen, Goto, historyVars
    <3>2. owner'[g] \in ClientIds /\ g \notin rejected[c]
      BY <1>0, <2>1 DEF Held, Grant
    <3>3. \A h \in rejected[c] : owner'[h] # NoClient
      BY <1>0, <2>1 DEF Held, Grant
    <3> QED BY <3>1, <3>2, <3>3 DEF Held, TokenOf
  <2>2. ASSUME NEW g \in Grants, Grant(g, owner[mem[c].ref]), Return(c, "error"),
               UNCHANGED <<mem, historyVars>>
        PROVE  Held(c)'
    <3>1. mem[c].acc \in Grants \cup {NoGrant} /\ rejected[c] \subseteq Grants
      BY TokenTypes
    <3>2. \A h \in Grants : owner[h] # NoClient => owner'[h] = owner[h]
      BY <2>2 DEF Grant
    <3>3. pc'[c] = "idle"
      BY <2>2 DEF Return, Goto
    <3> QED BY <1>0, <2>2, <3>1, <3>2, <3>3 DEF Held, historyVars
  <2>3. CASE Return(c, "error") /\ UNCHANGED <<mem, serverVars, historyVars>>
    BY <1>0, <2>3 DEF Return, Goto, Held, serverVars, historyVars
  <2> QED BY <1>2, <2>1, <2>2, <2>3 DEF RefreshToken
<1>3. CASE SendRequest(c)
  <2>1. owner' = owner
    BY <1>3 DEF SendRequest, serverVars
  <2>2. CASE Unauthorized(c)
    <3>1. mem[c].acc \in Grants /\ owner[mem[c].acc] # NoClient
      BY <1>0, <1>3, TokenTypes DEF SendRequest, Held
    <3>2. /\ mem'[c] = [mem[c] EXCEPT !.exp = "zero"]
          /\ rejected'[c] = rejected[c] \cup {mem[c].acc}
          /\ pc'[c] = "idle"
      BY <2>2 DEF Unauthorized, Return, Goto
    <3>3. mem'[c].acc = mem[c].acc /\ mem'[c].ref = mem[c].ref /\ mem'[c].exp = "zero"
      BY <3>2 DEF Tokens
    <3> QED BY <1>0, <2>1, <3>1, <3>2, <3>3 DEF Held
  <2>3. CASE /\ \/ \E s \in {"request", "check"} : Goto(c, s)
                \/ Return(c, "ok") \/ Return(c, "error")
             /\ UNCHANGED <<mem, rejected>>
    <3>1. pc'[c] \in {"request", "check", "idle"} /\ pc[c] = "request"
      BY <1>3, <2>3 DEF SendRequest, Return, Goto
    <3> QED BY <1>0, <2>1, <2>3, <3>1 DEF Held
  <2> QED BY <1>3, <2>2, <2>3 DEF SendRequest
<1> QED BY <1>1, <1>2, <1>3 DEF Working

LEMMA HeldCalling ==
  ASSUME IInv, NEW c \in Conns, Calling(c)
  PROVE  Held(c)'
<1> USE DEF IInv, TypeOK
<1>0. Held(c)
  OBVIOUS
<1>1. CASE Call(c)
  BY <1>0, <1>1 DEF Call, Goto, Held, serverVars, historyVars
<1>2. CASE ExpireToken(c)
  <2>1. mem'[c] = [mem[c] EXCEPT !.exp = "zero"]
    BY <1>2 DEF ExpireToken
  <2>2. mem'[c].acc = mem[c].acc /\ mem'[c].ref = mem[c].ref /\ mem'[c].exp = "zero"
    BY <2>1 DEF Tokens
  <2> QED BY <1>0, <1>2, <2>2 DEF ExpireToken, Held, serverVars, historyVars
<1>3. CASE Disconnect(c) \/ Crash(c)
  BY <1>3 DEF Disconnect, Crash, Gone, Goto, Held, NoToken
<1> QED BY <1>1, <1>2, <1>3 DEF Calling

\* No step gives a connection the token of another client_id.
LEMMA NamedStep ==
  ASSUME IInv, NEW c \in Conns,
         Connecting(c) \/ Saving(c) \/ Working(c) \/ Calling(c)
  PROVE  Named(c)'
<1> USE DEF IInv, TypeOK, serverVars
<1>0. Held(c) /\ Named(c) /\ Kept
  OBVIOUS
<1>1. CASE Gone(c)
  BY <1>1 DEF Gone, Goto, Named, NoToken
<1>2. CASE /\ mem'[c].acc = mem[c].acc /\ app' = app /\ pc[c] # "closed"
           /\ \A g \in Grants : owner[g] # NoClient => owner'[g] = owner[g]
  <2>1. mem[c].acc \in Grants \cup {NoGrant}
    BY TokenTypes
  <2> QED BY <1>0, <1>2, <2>1 DEF Held, Named
<1>3. \A g \in Grants : owner[g] # NoClient => owner'[g] = owner[g]
  BY Frame
<1>4. CASE StatKeystore(c)
  BY <1>0, <1>4 DEF StatKeystore, Goto, Held, Named
<1>5. CASE LoadKeystore(c)
  <2>1. CASE mem' = [mem EXCEPT ![c] = Restored(c, keystore)] /\ app' = app
    <3>1. mem'[c] = Restored(c, keystore) /\ app[c] \in ClientIds /\ owner' = owner
      BY <1>0, <1>5, <2>1 DEF LoadKeystore, ConnectFails, Named
    <3> QED BY <1>0, <2>1, <3>1 DEF Restored, Kept, Named, NoToken
  <2> QED BY <1>1, <1>5, <2>1 DEF LoadKeystore, ConnectFails
<1>6. CASE Authorize(c)
  BY <1>1, <1>2, <1>3, <1>6 DEF Authorize, ConnectFails
<1>7. CASE RedeemToken(c)
  <2>1. ASSUME NEW g \in Grants, Grant(g, app[c]), Decode(c, g), app' = app
        PROVE  Named(c)'
    BY <1>0, <1>7, <2>1 DEF RedeemToken, Named, Grant, Decode, TokenOf
  <2> QED BY <1>1, <1>7, <2>1 DEF RedeemToken, ConnectFails
<1>8. CASE Saving(c)
  BY <1>2, <1>3, <1>8 DEF Saving, OpenKeystore, WriteKeystore
<1>9. CASE CheckExpire(c)
  BY <1>1, <1>2, <1>3, <1>9 DEF CheckExpire, ConnectFails
<1>10. CASE RefreshToken(c)
  <2>1. ASSUME NEW g \in Grants, Grant(g, owner[mem[c].ref]), Decode(c, g),
               mem[c].ref \in refreshable
        PROVE  Named(c)'
    <3>1. mem'[c].acc = g /\ owner'[g] = owner[mem[c].ref]
      BY <2>1 DEF Grant, Decode, TokenOf
    <3>2. app' = app /\ pc[c] # "closed" /\ mem[c].acc # NoGrant
      BY <1>0, <1>10, <2>1 DEF RefreshToken, Held
    <3> QED BY <1>0, <3>1, <3>2 DEF Held, Named
  <2> QED BY <1>2, <1>3, <1>10, <2>1 DEF RefreshToken
<1>11. CASE SendRequest(c) \/ ExpireToken(c)
  <2>1. app' = app /\ pc[c] # "closed"
    BY <1>11 DEF SendRequest, ExpireToken
  <2>2. mem' = mem \/ mem' = [mem EXCEPT ![c].exp = "zero"]
    BY <1>11 DEF SendRequest, Unauthorized, ExpireToken
  <2>3. mem'[c].acc = mem[c].acc
    BY <2>2 DEF Tokens
  <2> QED BY <1>2, <1>3, <2>1, <2>3
<1>12. CASE Call(c)
  BY <1>2, <1>3, <1>12 DEF Call
<1>13. CASE Disconnect(c) \/ Crash(c)
  BY <1>1, <1>13 DEF Disconnect, Crash
<1> QED BY <1>4, <1>5, <1>6, <1>7, <1>8, <1>9, <1>10, <1>11, <1>12, <1>13
        DEF Connecting, Working, Calling

\* A step that leaves the file alone leaves what it holds.
LEMMA KeptFrame ==
  ASSUME TypeOK, Kept, keystore' = keystore,
         \A g \in Grants : owner[g] # NoClient => owner'[g] = owner[g]
  PROVE  Kept'
<1>1. keystore.token.acc \in Grants \cup {NoGrant}
  BY TokenTypes, FileTypes DEF TypeOK
<1> QED BY <1>1 DEF Kept

LEMMA KeptSaving ==
  ASSUME IInv, NEW c \in Conns, Saving(c)
  PROVE  Kept'
<1> USE DEF IInv, TypeOK
<1>0. Held(c) /\ Named(c) /\ Kept /\ owner' = owner
  BY DEF Saving, OpenKeystore, WriteKeystore, serverVars
<1>1. CASE keystore' = keystore
  BY <1>0, <1>1, KeptFrame
<1>2. CASE keystore' \in {Empty, Torn}
  BY <1>2 DEF Kept, Empty, Torn, NoToken
<1>3. CASE keystore' = Record(c) /\ pc[c] = "write"
  <2>1. /\ keystore'.token.acc = mem[c].acc /\ keystore'.token.ref = mem[c].ref
        /\ keystore'.token.exp = mem[c].exp /\ keystore'.client = app[c]
    BY <1>3 DEF Record
  <2> QED BY <1>0, <1>3, <2>1 DEF Kept, Held, Named
<1> QED
  BY <1>1, <1>2, <1>3 DEF Saving, OpenKeystore, WriteKeystore, GiveUp

LEMMA InvStep == IInv /\ [Next]_vars => IInv'
<1> SUFFICES ASSUME IInv, [Next]_vars PROVE IInv'
  OBVIOUS
<1>0. TypeOK /\ Kept /\ \A c \in Conns : Held(c) /\ Named(c)
  BY DEF IInv
<1>1. ASSUME NEW c \in Conns,
             Connecting(c) \/ Saving(c) \/ Working(c) \/ Calling(c)
      PROVE  IInv'
  <2>1. TypeOK'
    BY <1>0, <1>1, TypeConnecting, TypeSaving, TypeWorking, TypeCalling
  <2>2. \A g \in Grants : owner[g] # NoClient => owner'[g] = owner[g]
    BY <1>0, <1>1, Frame
  <2>3. Kept'
    <3>1. CASE Saving(c)
      BY <3>1, KeptSaving
    <3>2. CASE Connecting(c) \/ Working(c) \/ Calling(c)
      <4>1. keystore' = keystore
        BY <3>2 DEF Connecting, StatKeystore, LoadKeystore, Authorize, RedeemToken,
           Working, CheckExpire, RefreshToken, SendRequest, Calling, Call,
           ExpireToken, Disconnect, Crash, ConnectFails, fileVars
      <4> QED BY <1>0, <2>2, <4>1, KeptFrame
    <3> QED BY <1>1, <3>1, <3>2
  <2>4. Held(c)' /\ Named(c)'
    BY <1>1, HeldConnecting, HeldSaving, HeldWorking, HeldCalling, NamedStep
  <2>5. \A d \in Conns \ {c} : Held(d)' /\ Named(d)'
    BY <1>0, <1>1, <2>2, Frame, HeldFrame
  <2> QED BY <2>1, <2>3, <2>4, <2>5 DEF IInv
<1>2. ASSUME NEW g \in Grants, Server(g) PROVE IInv'
  <2>1. TypeOK'
    BY <1>0, <1>2, TypeServer
  <2>2. UNCHANGED <<pc, app, mem, rejected, owner, keystore>>
    BY <1>2 DEF Server, Lapse, RevokeAccess, RevokeRefresh, connVars, fileVars,
       historyVars
  <2> QED BY <1>0, <2>1, <2>2, HeldFrame, KeptFrame DEF IInv
<1>3. CASE UNCHANGED vars
  BY <1>0, <1>3 DEF IInv, TypeOK, Kept, Held, Named, vars, connVars, serverVars,
     fileVars, historyVars
<1> QED BY <1>1, <1>2, <1>3 DEF Next, Calling

-----------------------------------------------------------------------------
(* The theorems.                                                           *)

\* OAuthToken is type correct.
THEOREM TypeCorrect == Spec => []TypeOK
<1>1. IInv => TypeOK
  BY DEF IInv
<1> QED BY <1>1, InvInit, InvStep, PTL DEF Spec

\* No connection ever sends again an access token that was answered with 401:
\* oauth_token_set_expired in every handler and oauth_token_check_expire at the
\* start of every call suffice, however requests, refreshes, reconnects and
\* crashes of any number of connections interleave.
THEOREM NeverReused == Spec => []NoReuseAfter401
<1>1. IInv => NoReuseAfter401
  BY DEF IInv, Held, NoReuseAfter401
<1> QED BY <1>1, InvInit, InvStep, PTL DEF Spec

\* Connections of any number of applications may share the keystore, and none
\* ever holds a token that was issued to another client id.
THEOREM AlwaysOwnToken == Spec => []OwnToken
<1>1. IInv => OwnToken
  BY DEF IInv, Named, OwnToken
<1> QED BY <1>1, InvInit, InvStep, PTL DEF Spec

\* Access and refresh token always stem from one answer of the server.
THEOREM AlwaysPaired == Spec => []PairedTokens
<1>1. IInv => PairedTokens
  BY DEF IInv, Held, Kept, PairedTokens
<1> QED BY <1>1, InvInit, InvStep, PTL DEF Spec
-----------------------------------------------------------------------------
(* The keystore.                                                           *)

LEMMA FollowsStep ==
  ASSUME IInv, KeystoreFollowsMemory, [Next]_vars
  PROVE  KeystoreFollowsMemory'
<1> DEFINE Same(d) == /\ keystore.form = "token"
                      /\ keystore.client = app[d]
                      /\ keystore.token.acc = mem[d].acc
           Follows(d) == saver = d /\ mem[d].acc # NoGrant /\ ~unsaved[d]
                           /\ pc[d] \notin {"open", "write"} => Same(d)
<1>0. TypeOK /\ \A c \in Conns : Held(c)
  BY DEF IInv
<1>1. ASSUME NEW c \in Conns,
             Connecting(c) \/ Saving(c) \/ Working(c) \/ Calling(c)
      PROVE  KeystoreFollowsMemory'
  <2>1. ASSUME NEW d \in Conns \ {c} PROVE Follows(d)'
    <3>1. UNCHANGED <<keystore, saver>> \/ saver' = c
      BY <1>1 DEF Connecting, StatKeystore, LoadKeystore, Authorize, RedeemToken,
         Saving, OpenKeystore, WriteKeystore, GiveUp, Working, CheckExpire,
         RefreshToken, SendRequest, Calling, Call, ExpireToken, Disconnect,
         Crash, ConnectFails, fileVars
    <3>2. /\ pc'[d] = pc[d] /\ mem'[d] = mem[d] /\ unsaved'[d] = unsaved[d]
          /\ app'[d] = app[d]
      BY <1>0, <1>1, <2>1, Frame
    <3> QED BY <2>1, <3>1, <3>2 DEF KeystoreFollowsMemory
  <2>2. Follows(c)'
    <3> USE <1>0 DEF TypeOK
    <3>1. CASE mem'[c].acc = NoGrant
      BY <3>1
    <3>2. CASE pc'[c] \in {"open", "write"}
      BY <3>2
    <3>3. CASE UNCHANGED <<app, keystore, saver, unsaved>> /\ mem'[c].acc = mem[c].acc
               /\ pc[c] \notin {"open", "write"}
      BY <3>3 DEF KeystoreFollowsMemory
    <3>4. CASE unsaved'[c]
      BY <3>4
    <3>5. CASE LoadKeystore(c)
      <4>1. CASE ConnectFails(c)
        BY <3>1, <4>1 DEF ConnectFails, Gone, NoToken
      <4>2. CASE /\ mem' = [mem EXCEPT ![c] = Restored(c, keystore)]
                 /\ Loadable(keystore) /\ UNCHANGED <<app, keystore>>
        BY <3>1, <4>2 DEF Restored, Loadable, NoToken
      <4> QED BY <3>5, <4>1, <4>2 DEF LoadKeystore, fileVars
    <3>6. CASE WriteKeystore(c)
      <4>1. CASE keystore' = Record(c) /\ mem' = mem /\ app' = app
        BY <4>1 DEF Record
      <4>2. CASE unsaved' = [unsaved EXCEPT ![c] = TRUE]
        BY <3>4, <4>2
      <4> QED BY <3>6, <4>1, <4>2 DEF WriteKeystore
    <3>7. CASE OpenKeystore(c)
      BY <3>2, <3>4, <3>7 DEF OpenKeystore, GiveUp, Goto
    <3>8. CASE StatKeystore(c)
      <4>1. mem'[c].acc = NoGrant
        BY <3>8 DEF StatKeystore, Held
      <4> QED BY <3>1, <4>1
    <3>9. CASE Authorize(c) \/ RedeemToken(c)
      BY <3>1, <3>2, <3>3, <3>9 DEF Authorize, RedeemToken,
         ConnectFails, Gone, NoToken, SaveThen, Goto, fileVars, historyVars
    <3>10. CASE CheckExpire(c) \/ RefreshToken(c)
      BY <3>1, <3>2, <3>3, <3>10 DEF CheckExpire, RefreshToken, ConnectFails,
         Gone, NoToken, SaveThen, Return, Goto, fileVars, historyVars
    <3>11. CASE SendRequest(c)
      <4>1. UNCHANGED <<app, keystore, saver, unsaved>> /\ pc[c] = "request"
        BY <3>11 DEF SendRequest, fileVars
      <4>2. CASE mem' = mem
        BY <3>3, <4>1, <4>2
      <4>3. CASE Unauthorized(c)
        <5>1. mem'[c] = [mem[c] EXCEPT !.exp = "zero"]
          BY <4>3 DEF Unauthorized
        <5>2. mem'[c].acc = mem[c].acc
          BY <5>1 DEF Tokens
        <5> QED BY <3>3, <4>1, <5>2
      <4> QED BY <3>11, <4>2, <4>3 DEF SendRequest
    <3>12. CASE ExpireToken(c)
      <4>1. mem'[c] = [mem[c] EXCEPT !.exp = "zero"]
        BY <3>12 DEF ExpireToken
      <4>2. mem'[c].acc = mem[c].acc
        BY <4>1 DEF Tokens
      <4> QED BY <3>3, <3>12, <4>2 DEF ExpireToken, fileVars, historyVars
    <3>13. CASE Call(c)
      BY <3>3, <3>13 DEF Call, fileVars, historyVars
    <3>14. CASE Disconnect(c) \/ Crash(c)
      BY <3>1, <3>14 DEF Disconnect, Crash, Gone, NoToken
    <3> QED BY <1>1, <3>5, <3>6, <3>7, <3>8, <3>9, <3>10, <3>11, <3>12, <3>13,
            <3>14 DEF Connecting, Saving, Working, Calling
  <2> QED BY <2>1, <2>2 DEF KeystoreFollowsMemory
<1>2. ASSUME NEW g \in Grants, Server(g) PROVE KeystoreFollowsMemory'
  BY <1>2 DEF Server, Lapse, RevokeAccess, RevokeRefresh, connVars, fileVars,
     historyVars, KeystoreFollowsMemory
<1>3. CASE UNCHANGED vars
  BY <1>3 DEF KeystoreFollowsMemory, vars, connVars, fileVars, historyVars
<1> QED BY <1>1, <1>2, <1>3 DEF Next, Calling

LEMMA WholeStep ==
  ASSUME TypeOK, WholeWhenQuiet, [Next]_vars
  PROVE  WholeWhenQuiet'
<1> USE DEF TypeOK
<1>1. ASSUME NEW c \in Conns, OpenKeystore(c) PROVE WholeWhenQuiet'
  <2>1. CASE pc'[c] = "write"
    BY <2>1 DEF WholeWhenQuiet
  <2>2. CASE pc[c] = "open" /\ GiveUp(c) /\ damaged' = damaged
    BY <2>2 DEF WholeWhenQuiet, GiveUp, Goto
  <2> QED BY <1>1, <2>1, <2>2 DEF OpenKeystore, Goto
<1>2. ASSUME NEW c \in Conns, WriteKeystore(c) PROVE WholeWhenQuiet'
  BY <1>2 DEF WholeWhenQuiet, WriteKeystore, Record
<1>3. ASSUME NEW c \in Conns, keystore' = keystore, damaged' = damaged,
             pc[c] # "write", \A d \in Conns \ {c} : pc'[d] = pc[d]
      PROVE  WholeWhenQuiet'
  BY <1>3 DEF WholeWhenQuiet
<1>4. ASSUME NEW c \in Conns, Connecting(c) \/ Working(c) PROVE WholeWhenQuiet'
  <2>1. keystore' = keystore /\ damaged' = damaged /\ pc[c] # "write"
    BY <1>4 DEF Connecting, StatKeystore, LoadKeystore, Authorize, RedeemToken,
       Working, CheckExpire, RefreshToken, SendRequest, ConnectFails, fileVars
  <2> QED BY <1>3, <1>4, <2>1, Frame
<1>5. ASSUME NEW c \in Conns, Calling(c) PROVE WholeWhenQuiet'
  <2>1. CASE Crash(c)
    <3>1. CASE pc[c] = "write"
      BY <2>1, <3>1 DEF Crash, WholeWhenQuiet
    <3>2. CASE pc[c] # "write"
      BY <1>3, <1>5, <2>1, <3>2, Frame DEF Crash
    <3> QED BY <3>1, <3>2
  <2>2. CASE Call(c) \/ ExpireToken(c) \/ Disconnect(c)
    <3>1. keystore' = keystore /\ damaged' = damaged /\ pc[c] # "write"
      BY <2>2 DEF Call, ExpireToken, Disconnect, fileVars
    <3> QED BY <1>3, <1>5, <3>1, Frame
  <2> QED BY <1>5, <2>1, <2>2 DEF Calling
<1>6. ASSUME NEW g \in Grants, Server(g) PROVE WholeWhenQuiet'
  BY <1>6 DEF Server, Lapse, RevokeAccess, RevokeRefresh, connVars, fileVars,
     WholeWhenQuiet
<1>7. CASE UNCHANGED vars
  BY <1>7 DEF WholeWhenQuiet, vars, connVars, fileVars
<1> QED
  BY <1>1, <1>2, <1>4, <1>5, <1>6, <1>7 DEF Next, Saving, Calling

\* Whenever no other connection has written since, the keystore holds the token
\* in memory, unless writing it back failed: the writeback comes before the new
\* token is used, in every interleaving.
THEOREM AlwaysFollows == Spec => []KeystoreFollowsMemory
<1>1. Init => KeystoreFollowsMemory
  BY DEF Init, KeystoreFollowsMemory, NoToken
<1>2. IInv /\ KeystoreFollowsMemory /\ [Next]_vars => KeystoreFollowsMemory'
  BY FollowsStep
<1> QED BY <1>1, <1>2, InvInit, InvStep, PTL DEF Spec

\* With no writeback under way, the keystore is absent or whole, unless one was
\* cut short: overlapping writebacks of several connections do no harm.
THEOREM AlwaysWhole == Spec => []WholeWhenQuiet
<1>1. Init => WholeWhenQuiet
  BY DEF Init, WholeWhenQuiet, Absent
<1>2. TypeOK /\ WholeWhenQuiet /\ [Next]_vars => WholeWhenQuiet'
  BY WholeStep
<1> QED BY <1>1, <1>2, TypeCorrect, PTL DEF Spec

=============================================================================
