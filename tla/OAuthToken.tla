----------------------------- MODULE OAuthToken -----------------------------
(***************************************************************************)
(* The OAuth token of a OneDrive connection (src/src/oauth/oauth_token.c)  *)
(* and the keystore file that carries it from one connection to the next   *)
(* (src/src/vendors/onedrive/onedrive.c).                                  *)
(*                                                                         *)
(* A connection restores its token from the keystore or obtains one from   *)
(* the authorization server, sends it with every request, zeroes its       *)
(* expiry when the server answers 401, refreshes it before the next call   *)
(* and writes each new token back to the keystore.  The connections of     *)
(* several processes may share one data location, hence one keystore;      *)
(* nothing locks it.  Each connection is driven by one thread, in a        *)
(* process of its own.                                                     *)
(*                                                                         *)
(* One answer of the authorization server is a grant: it carries an access *)
(* token, a refresh token and an expiry, and the model names all three by  *)
(* the grant.  The clock is the set of grants whose expiry it has passed.  *)
(***************************************************************************)
EXTENDS Naturals

CONSTANTS
    Conns,          \* connections that share one keystore file
    ClientIds,      \* application ids registered with the server
    Grants,         \* answers the authorization server can still give
    Oversized,      \* grants whose JSON exceeds the 4096 bytes load reads
    NoGrant,        \* the NULL of access_token and refresh_token
    NoClient,       \* of a closed connection, a grant nobody was given yet, an
                    \* unreadable keystore
    NoConn,         \* no connection has touched the keystore
    MaxRequests,    \* bound: HTTP requests that one API call sends
    MaxFaults       \* bound: failures, expiries and revocations in a behaviour

ASSUME NoGrantAssumption     == NoGrant \notin Grants
ASSUME NoClientAssumption    == NoClient \notin ClientIds
ASSUME NoConnAssumption      == NoConn \notin Conns
ASSUME OversizedAssumption   == Oversized \subseteq Grants
ASSUME MaxRequestsAssumption == MaxRequests \in Nat \ {0}
ASSUME MaxFaultsAssumption   == MaxFaults \in Nat

VARIABLES
    pc,             \* what each connection does next
    mem,            \* its token: access_token, refresh_token, expires_at
    cont,           \* where the code goes on after a writeback
    left,           \* requests still to send in the current call
    result,         \* what the last API call returned
    lastError,      \* is the hive_error of the thread non-zero
    app,            \* the client_id it was opened with
    seen,           \* the keystore as stat() found it, until it is loaded
    keystore,       \* the file <data_location>/.data/onedrive.json
    owner,          \* whom each grant was given to
    accepted,       \* grants whose access token the server accepts
    refreshable,    \* grants whose refresh token the server accepts
    lapsed,         \* grants whose expires_at the clock has passed
    faults,         \* how many more faults may happen
    rejected,       \* history: access tokens answered with 401
    unsaved,        \* history: the last writeback of the token failed
    saver,          \* history: the last connection to change the keystore
    damaged         \* history: a writeback was cut short since the last whole one

opened      == <<app, seen>>
connVars    == <<pc, mem, cont, left, result, lastError, opened>>
serverVars  == <<owner, accepted, refreshable, lapsed>>
fileVars    == <<keystore, saver, damaged>>
historyVars == <<rejected, unsaved>>
vars        == <<connVars, serverVars, fileVars, historyVars, faults>>

-----------------------------------------------------------------------------
(* State.                                                                  *)

\* struct oauth_token: all three fields are NULL or zero until the first token.
Tokens  == [acc : Grants \cup {NoGrant}, ref : Grants \cup {NoGrant},
            exp : {"issued", "zero"}]
NoToken == [acc |-> NoGrant, ref |-> NoGrant, exp |-> "zero"]
TokenOf(g) == [acc |-> g, ref |-> g, exp |-> "issued"]

\* The file is absent, truncated, cut short in the middle, or a whole JSON object.
Files  == [form : {"absent", "empty", "torn", "token"},
           client : ClientIds \cup {NoClient}, token : Tokens]
Absent == [form |-> "absent", client |-> NoClient, token |-> NoToken]
Empty  == [form |-> "empty",  client |-> NoClient, token |-> NoToken]
Torn   == [form |-> "torn",   client |-> NoClient, token |-> NoToken]
Record(c) == [form |-> "token", client |-> app[c], token |-> mem[c]]

States == {"closed", "load", "authorize", "redeem", "open", "write",
           "idle", "check", "refresh", "request"}

Init ==
    /\ pc          = [c \in Conns |-> "closed"]
    /\ mem         = [c \in Conns |-> NoToken]
    /\ cont        = [c \in Conns |-> "idle"]
    /\ left        = [c \in Conns |-> 0]
    /\ result      = [c \in Conns |-> "none"]
    /\ lastError   = [c \in Conns |-> FALSE]
    /\ app         = [c \in Conns |-> NoClient]
    /\ seen        = [c \in Conns |-> Absent]
    /\ keystore    = Absent
    /\ owner       = [g \in Grants |-> NoClient]
    /\ accepted    = {}
    /\ refreshable = {}
    /\ lapsed      = {}
    /\ faults      = MaxFaults
    /\ rejected    = [c \in Conns |-> {}]
    /\ unsaved     = [c \in Conns |-> FALSE]
    /\ saver       = NoConn
    /\ damaged     = FALSE

Goto(c, s) == pc' = [pc EXCEPT ![c] = s]
Fault      == faults > 0 /\ faults' = faults - 1
NoFault    == UNCHANGED faults

\* The API layer stores a negative return code with hive_set_error.
Return(c, r) ==
    /\ Goto(c, "idle")
    /\ result'    = [result EXCEPT ![c] = r]
    /\ lastError' = [lastError EXCEPT ![c] = @ \/ r # "ok"]
    /\ left'      = [left EXCEPT ![c] = 0]

\* The connection object is gone: destroyed, or its process died.
Gone(c) ==
    /\ Goto(c, "closed")
    /\ app'      = [app EXCEPT ![c] = NoClient]
    /\ seen'     = [seen EXCEPT ![c] = Absent]
    /\ mem'      = [mem EXCEPT ![c] = NoToken]
    /\ left'     = [left EXCEPT ![c] = 0]
    /\ result'   = [result EXCEPT ![c] = "none"]
    /\ rejected' = [rejected EXCEPT ![c] = {}]
    /\ unsaved'  = [unsaved EXCEPT ![c] = FALSE]

ConnectFails(c) ==
    /\ Gone(c)
    /\ UNCHANGED <<cont, serverVars, fileVars>>

-----------------------------------------------------------------------------
(* onedrive_client_connect: the keystore.                                  *)

\* An existing keystore that is not a JSON object of at most 4096 bytes
\* cannot be loaded.
Loadable(k) == k.form = "token" /\ k.token.acc \notin Oversized

\* Mutated form: restore_access_token without its client_id check.
RestoredFromAny(c, k) == k.token

\* restore_access_token: the token of another client_id is left alone.
Restored(c, k) == IF k.client = app[c] THEN k.token ELSE NoToken

\* Connecting with a client_id, access() and stat(): without a keystore the user
\* must authorize; an empty or too large one fails the connect.
StatKeystore(c) ==
    /\ pc[c] = "closed"
    /\ \/ /\ keystore.form = "empty" \/ keystore.token.acc \in Oversized
          /\ lastError' = [lastError EXCEPT ![c] = TRUE]
          /\ UNCHANGED <<pc, opened>>
       \/ /\ keystore.form # "empty" /\ keystore.token.acc \notin Oversized
          /\ Goto(c, IF keystore.form = "absent" THEN "authorize" ELSE "load")
          /\ \E id \in ClientIds : app' = [app EXCEPT ![c] = id]
          /\ seen' = [seen EXCEPT ![c] = keystore]
          /\ UNCHANGED lastError
    /\ NoFault
    /\ UNCHANGED <<mem, cont, left, result, serverVars, fileVars, historyVars>>

\* open(), read() and cJSON_Parse().  A file rewritten since stat() loads only
\* if its size happens to be the one stat() reported.
LoadKeystore(c) ==
    /\ pc[c] = "load"
    /\ NoFault
    /\ \/ /\ Loadable(keystore)
          /\ mem' = [mem EXCEPT ![c] = Restored(c, keystore)]
          /\ Goto(c, IF Restored(c, keystore).acc = NoGrant
                     THEN "authorize" ELSE "idle")
          /\ seen' = [seen EXCEPT ![c] = Absent]
          /\ UNCHANGED <<cont, left, result, lastError, app, serverVars,
                         fileVars, historyVars>>
       \/ /\ ~Loadable(keystore) \/ keystore # seen[c]
          /\ lastError' = [lastError EXCEPT ![c] = TRUE]
          /\ ConnectFails(c)

-----------------------------------------------------------------------------
(* onedrive_client_connect: oauth_token_request.                           *)

\* get_authorize_code.  Without a code, oauth_token_request returns the last
\* error of the thread, which get_authorize_code may not have set: then the
\* connect succeeds with no token if no earlier call left an error there.
Authorize(c) ==
    /\ pc[c] = "authorize"
    /\ NoFault
    /\ \/ /\ Goto(c, "redeem")
          /\ UNCHANGED <<mem, cont, left, result, lastError, opened, serverVars,
                         fileVars, historyVars>>
       \/ \E set \in BOOLEAN :
            /\ lastError' = [lastError EXCEPT ![c] = @ \/ set]
            /\ IF lastError'[c]
               THEN ConnectFails(c)
               ELSE /\ Goto(c, "idle")
                    /\ UNCHANGED <<mem, cont, left, result, opened, serverVars,
                                   fileVars, historyVars>>

\* The server gives client its next grant.
Grant(g, client) ==
    /\ owner[g] = NoClient
    /\ owner'       = [owner EXCEPT ![g] = client]
    /\ accepted'    = accepted \cup {g}
    /\ refreshable' = refreshable \cup {g}
    /\ UNCHANGED lapsed

\* Mutated form: the old refresh_token survives.
DecodePartly(c, g) == mem' = [mem EXCEPT ![c].acc = g, ![c].exp = "issued"]

\* decode_access_token replaces the whole token, or nothing.
Decode(c, g) == mem' = [mem EXCEPT ![c] = TokenOf(g)]

\* Mutated form: a refreshed token is not written back.
SaveRedeemed(c, s) ==
    /\ Goto(c, IF s = "request" THEN s ELSE "open")
    /\ cont' = [cont EXCEPT ![c] = s]

\* A new token is written back before anything else happens.
SaveThen(c, s) == Goto(c, "open") /\ cont' = [cont EXCEPT ![c] = s]

\* redeem_access_token: the code buys a grant, or an answer that was lost or
\* malformed leaves the grant unknown, or the server refuses.
RedeemToken(c) ==
    /\ pc[c] = "redeem"
    /\ UNCHANGED lastError
    /\ \/ \E g \in Grants :
            /\ Grant(g, app[c])
            /\ Decode(c, g)
            /\ SaveThen(c, "idle")
            /\ NoFault
            /\ UNCHANGED <<left, result, opened, fileVars, historyVars>>
       \/ \E g \in Grants :
            /\ Fault
            /\ Grant(g, app[c])
            /\ Gone(c)
            /\ UNCHANGED <<cont, fileVars>>
       \/ NoFault /\ ConnectFails(c)

-----------------------------------------------------------------------------
(* writeback_tokens and oauth_writeback.                                   *)

\* Mutated form: the writeback is given up after the file was truncated.
GiveUpTruncated(c) ==
    /\ Goto(c, cont[c])
    /\ unsaved'  = [unsaved EXCEPT ![c] = TRUE]
    /\ keystore' = Empty
    /\ saver'    = c

\* The writeback is given up before the file was touched.
GiveUp(c) ==
    /\ Goto(c, cont[c])
    /\ unsaved' = [unsaved EXCEPT ![c] = TRUE]
    /\ UNCHANGED <<keystore, saver>>

\* open(O_TRUNC).  A failure is logged and forgotten.
OpenKeystore(c) ==
    /\ pc[c] = "open"
    /\ \/ /\ NoFault
          /\ keystore' = Empty
          /\ saver'    = c
          /\ Goto(c, "write")
          /\ UNCHANGED unsaved
       \/ Fault /\ GiveUp(c)
    /\ UNCHANGED <<mem, cont, left, result, lastError, opened, serverVars,
                   damaged, rejected>>

\* One write() of the JSON text and its NUL, so that a longer text already
\* there does no harm.  A failure or a short write is logged and forgotten.
WriteKeystore(c) ==
    /\ pc[c] = "write"
    /\ \/ /\ NoFault
          /\ keystore' = Record(c)
          /\ damaged'  = FALSE
          /\ unsaved'  = [unsaved EXCEPT ![c] = FALSE]
       \/ /\ Fault
          /\ keystore' \in {keystore, Torn}
          /\ damaged'  = TRUE
          /\ unsaved'  = [unsaved EXCEPT ![c] = TRUE]
    /\ saver' = c
    /\ Goto(c, cont[c])
    /\ UNCHANGED <<mem, cont, left, result, lastError, opened, serverVars, rejected>>

-----------------------------------------------------------------------------
(* An API call: one or more requests, each after oauth_token_check_expire  *)
(* (put_value) or all after the first one (list_files, large uploads).     *)

Call(c) ==
    /\ pc[c] = "idle"
    /\ Goto(c, "check")
    /\ left' \in {[left EXCEPT ![c] = n] : n \in 1..MaxRequests}
    /\ NoFault
    /\ UNCHANGED <<mem, cont, result, lastError, opened, serverVars, fileVars,
                   historyVars>>

\* Mutated form: a zeroed expires_at does not count as expired.
ExpiredByClock(t) == t.acc = NoGrant \/ t.acc \in lapsed

\* oauth_token_is_expired: now > expires_at.
Expired(t) == t.exp = "zero" \/ t.acc \in lapsed

\* oauth_token_check_expire.  Without a token expires_at is zero, and
\* refresh_access_token takes the strlen of a NULL refresh_token.
CheckExpire(c) ==
    /\ pc[c] = "check"
    /\ NoFault
    /\ \/ /\ ~Expired(mem[c])
          /\ Goto(c, "request")
          /\ UNCHANGED <<mem, cont, left, result, lastError, opened, serverVars,
                         fileVars, historyVars>>
       \/ /\ Expired(mem[c]) /\ mem[c].ref # NoGrant
          /\ Goto(c, "refresh")
          /\ UNCHANGED <<mem, cont, left, result, lastError, opened, serverVars,
                         fileVars, historyVars>>
       \/ /\ Expired(mem[c]) /\ mem[c].ref = NoGrant
          /\ lastError' = [lastError EXCEPT ![c] = FALSE]
          /\ ConnectFails(c)

\* refresh_access_token up to decode_access_token.  The server honours the
\* refresh token (the answer may be lost), or refuses it; a connection
\* failure reaches no server.
RefreshToken(c) ==
    /\ pc[c] = "refresh"
    /\ \/ \E g \in Grants :
            /\ mem[c].ref \in refreshable
            /\ Grant(g, owner[mem[c].ref])
            /\ \/ /\ NoFault
                  /\ Decode(c, g)
                  /\ SaveThen(c, "request")
                  /\ UNCHANGED <<left, result, lastError>>
               \/ /\ Fault
                  /\ Return(c, "error")
                  /\ UNCHANGED <<mem, cont>>
       \/ /\ \/ Fault
             \/ NoFault /\ mem[c].ref \notin refreshable
             \/ NoFault /\ \A g \in Grants : owner[g] # NoClient
          /\ Return(c, "error")
          /\ UNCHANGED <<mem, cont, serverVars>>
    /\ UNCHANGED <<opened, fileVars, historyVars>>

\* Mutated form: a handler forgets oauth_token_set_expired.
UnauthorizedIgnored(c) ==
    /\ rejected' = [rejected EXCEPT ![c] = @ \cup {mem[c].acc}]
    /\ Return(c, "again")
    /\ UNCHANGED mem

\* The answer 401: oauth_token_set_expired, and HIVEERR_TRY_AGAIN.
Unauthorized(c) ==
    /\ mem'      = [mem EXCEPT ![c].exp = "zero"]
    /\ rejected' = [rejected EXCEPT ![c] = @ \cup {mem[c].acc}]
    /\ Return(c, "again")

\* Mutated form: the request sequence has no end.
EndlessRequests(c) == TRUE

\* Another page, folder, session or part follows.
MoreRequests(c) == left[c] > 1

\* A request with the access token in its Authorization header.
SendRequest(c) ==
    /\ pc[c] = "request"
    /\ \/ /\ mem[c].acc \in accepted
          /\ NoFault
          /\ \/ /\ MoreRequests(c)
                /\ left' = [left EXCEPT ![c] = @ - 1]
                /\ \E s \in {"request", "check"} : Goto(c, s)
                /\ UNCHANGED <<result, lastError>>
             \/ /\ ~MoreRequests(c)
                /\ Return(c, "ok")
          /\ UNCHANGED <<mem, rejected>>
       \/ /\ mem[c].acc \notin accepted
          /\ NoFault
          /\ Unauthorized(c)
       \/ /\ Fault
          /\ Return(c, "error")
          /\ UNCHANGED <<mem, rejected>>
    /\ UNCHANGED <<cont, opened, serverVars, fileVars, unsaved>>

\* hive_set_access_token_expired.
ExpireToken(c) ==
    /\ pc[c] = "idle"
    /\ Fault
    /\ mem' = [mem EXCEPT ![c].exp = "zero"]
    /\ UNCHANGED <<pc, cont, left, result, lastError, opened, serverVars,
                   fileVars, historyVars>>

\* hive_client_disconnect.
Disconnect(c) ==
    /\ pc[c] = "idle"
    /\ NoFault
    /\ Gone(c)
    /\ UNCHANGED <<cont, lastError, serverVars, fileVars>>

\* The process dies, possibly between the open and the write of a writeback.
Crash(c) ==
    /\ pc[c] # "closed"
    /\ Fault
    /\ Gone(c)
    /\ lastError' = [lastError EXCEPT ![c] = FALSE]
    /\ damaged'   = (damaged \/ pc[c] = "write")
    /\ UNCHANGED <<cont, serverVars, keystore, saver>>

-----------------------------------------------------------------------------
(* The authorization server and the clock.                                 *)

Lapse(g) ==
    /\ owner[g] # NoClient /\ g \notin lapsed
    /\ Fault
    /\ lapsed' = lapsed \cup {g}
    /\ UNCHANGED <<connVars, owner, accepted, refreshable, fileVars, historyVars>>

RevokeAccess(g) ==
    /\ g \in accepted
    /\ Fault
    /\ accepted' = accepted \ {g}
    /\ UNCHANGED <<connVars, owner, refreshable, lapsed, fileVars, historyVars>>

RevokeRefresh(g) ==
    /\ g \in refreshable
    /\ Fault
    /\ refreshable' = refreshable \ {g}
    /\ UNCHANGED <<connVars, owner, accepted, lapsed, fileVars, historyVars>>

-----------------------------------------------------------------------------

Connecting(c) ==
    StatKeystore(c) \/ LoadKeystore(c) \/ Authorize(c) \/ RedeemToken(c)
Saving(c)  == OpenKeystore(c) \/ WriteKeystore(c)
Working(c) == CheckExpire(c) \/ RefreshToken(c) \/ SendRequest(c)
Server(g)  == Lapse(g) \/ RevokeAccess(g) \/ RevokeRefresh(g)

Next ==
    \/ \E c \in Conns :
         \/ Connecting(c) \/ Saving(c) \/ Working(c)
         \/ Call(c) \/ ExpireToken(c) \/ Disconnect(c) \/ Crash(c)
    \/ \E g \in Grants : Server(g)

Spec == Init /\ [][Next]_vars

\* A thread inside the library keeps running, every request is answered or
\* fails, and the application calls again after a failure, as the
\* documentation of HIVEERR_TRY_AGAIN asks it to.
Retry(c) == result[c] \in {"again", "error"} /\ Call(c)
Fairness == \A c \in Conns : WF_vars(Saving(c) \/ Working(c)) /\ WF_vars(Retry(c))

FairSpec == Spec /\ Fairness

-----------------------------------------------------------------------------
(* Properties.                                                             *)

\* Every variable stays in its type.
TypeOK ==
    /\ pc          \in [Conns -> States]
    /\ mem         \in [Conns -> Tokens]
    /\ cont        \in [Conns -> {"idle", "request"}]
    /\ left        \in [Conns -> 0..MaxRequests]
    /\ result      \in [Conns -> {"none", "ok", "again", "error"}]
    /\ lastError   \in [Conns -> BOOLEAN]
    /\ app         \in [Conns -> ClientIds \cup {NoClient}]
    /\ seen        \in [Conns -> Files]
    /\ keystore    \in Files
    /\ owner       \in [Grants -> ClientIds \cup {NoClient}]
    /\ accepted    \subseteq Grants
    /\ refreshable \subseteq Grants
    /\ lapsed      \subseteq Grants
    /\ faults      \in 0..MaxFaults
    /\ rejected    \in [Conns -> SUBSET Grants]
    /\ unsaved     \in [Conns -> BOOLEAN]
    /\ saver       \in Conns \cup {NoConn}
    /\ damaged     \in BOOLEAN

\* Connections of different client ids share the keystore, yet no connection
\* ever works with a token issued to another client id (the client_id check
\* of restore_access_token).
OwnToken ==
    \A c \in Conns : mem[c].acc # NoGrant => owner[mem[c].acc] = app[c]

\* Access and refresh token come from one grant, in memory and on disk: a
\* malformed answer, a failed writeback or a crash never mixes two
\* (decode_access_token replaces all fields or none).
PairedTokens ==
    /\ \A c \in Conns : mem[c].acc = mem[c].ref
    /\ keystore.token.acc = keystore.token.ref

\* A connection never again sends an access token that was answered with 401,
\* whatever requests, refreshes and failures lie in between
\* (oauth_token_set_expired and oauth_token_check_expire).
NoReuseAfter401 ==
    \A c \in Conns : pc[c] = "request" => mem[c].acc \notin rejected[c]

\* While no other connection has written since, the keystore holds the token
\* in memory unless its writeback failed (writeback_tokens after every redeem
\* and every refresh, before the token is used).
KeystoreFollowsMemory ==
    \A c \in Conns :
        saver = c /\ mem[c].acc # NoGrant /\ ~unsaved[c]
          /\ pc[c] \notin {"open", "write"}
        => /\ keystore.form = "token"
           /\ keystore.client = app[c]
           /\ keystore.token.acc = mem[c].acc

\* Between writebacks the keystore is absent or whole, although connections
\* truncate and write it without a lock, unless a writeback was cut short.
WholeWhenQuiet ==
    (\A c \in Conns : pc[c] # "write") /\ ~damaged
        => keystore.form \in {"absent", "token"}

\* A call that asked to be tried again eventually succeeds when the caller
\* keeps trying, unless the connection ends or its refresh token is revoked.
RetryRecovers ==
    \A c \in Conns :
        (pc[c] = "idle" /\ result[c] = "again")
          ~> (result[c] = "ok" \/ pc[c] = "closed" \/ mem[c].ref \notin refreshable)
=============================================================================
