---------------------------- MODULE AuthRedirect ----------------------------
(***************************************************************************)
(* The wait for the authorization code: get_authorize_code of              *)
(* src/src/oauth/oauth_token.c with the HTTP server it runs                *)
(* (src/src/sandbird/sandbird.c), the thread of the application's callback *)
(* and whoever connects to the redirect URL.                               *)
(*                                                                         *)
(* A browser connects with the request that carries the code, but also     *)
(* with requests for other paths, with connections it opens in advance and *)
(* never uses, and with requests that it breaks off.  The server is one    *)
(* loop: select, one turn for each stream, then the new connections.  The  *)
(* close of any stream ends the loop.                                      *)
(*                                                                         *)
(* Time is an arbitrary choice of the streams that have been idle for more *)
(* than 30 seconds; all of them have when select runs into its own limit   *)
(* of 300 seconds.  Memory and descriptors do not run out.                 *)
(***************************************************************************)
EXTENDS Naturals, Sequences

CONSTANTS
    Conns,          \* connections that may come in
    Codes,          \* authorization codes, none of them empty
    LongCodes,      \* those that fill the buffer they are copied to
    EmptyCode,      \* a variable "code" that is empty, or read as empty
    NoCode,         \* a request without the variable "code"
    NoConn          \* no connection

ASSUME LongAssumption   == LongCodes \subseteq Codes
ASSUME NoCodeAssumption == {EmptyCode, NoCode} \cap Codes = {} /\ EmptyCode # NoCode
ASSUME NoConnAssumption == NoConn \notin Conns

VARIABLES
    pc,             \* what the thread that called the library does next
    streams,        \* streams of the server, those to come in this turn excepted
    todo,           \* streams that this turn of the loop has still to look at
    ready,          \* streams that select reported
    incoming,       \* select reported a new connection
    late,           \* streams idle for too long
    st,             \* state of each stream
    stopped,        \* the flag that ends the loop
    code,           \* the buffer for the code
    error,          \* the error of the thread
    result,         \* what get_authorize_code returned
    callback,       \* the thread that opens the browser
    peer,           \* the other end of each connection
    arrived,        \* how much of its request has arrived
    unread,         \* some of it lies in the socket
    request,        \* the request
    handled,        \* history: streams whose request the handler was given
    answered,       \* history: streams whose answer was sent
    closes,         \* history: how often each socket was closed
    stopper         \* history: the stream whose close ended the loop

loop   == <<streams, todo, ready, incoming, late>>
events == <<stopped, code, error, handled>>
ends   == <<answered, closes, stopper>>
net    == <<peer, arrived, unread, request>>
vars   == <<pc, loop, st, events, ends, result, callback, net>>

-----------------------------------------------------------------------------
(* Requests and the buffer.                                                *)

\* What a request line and its query come to: no HTTP at all, or a path and
\* perhaps the variable "code", which may be there and empty ("code=", and
\* "code=%00" with whatever follows the zero).  One that starts with a zero and
\* is too long does what a missing one does.
NotHttp  == [path |-> "none", code |-> NoCode]
Requests == {NotHttp} \cup [path : {"redirect", "other"},
                            code : Codes \cup {EmptyCode, NoCode}]

\* The buffer holds the empty text, a code, or the beginning of one.
Empty   == [code |-> NoCode, whole |-> FALSE]
Buffers == {Empty} \cup [code : Codes, whole : BOOLEAN]

\* The text that sb_get_var and url_decode leave in the buffer, and whether they
\* report success: the variable is there and all of it fits.
Copied(r) ==
    IF r.code \in Codes THEN [code |-> r.code, whole |-> r.code \notin LongCodes]
    ELSE Empty
Found(r) == r.code \in (Codes \ LongCodes) \cup {EmptyCode}

Elements(s) == {s[i] : i \in DOMAIN s}

Init ==
    /\ pc       = "new"
    /\ streams  = <<>> /\ todo = <<>>
    /\ ready    = {} /\ late = {}
    /\ incoming = FALSE
    /\ st       = [c \in Conns |-> "none"]
    /\ stopped  = FALSE
    /\ code     = Empty
    /\ error    \in {"none", "earlier"}
    /\ result   = "none"
    /\ callback = "none"
    /\ peer     = [c \in Conns |-> "none"]
    /\ arrived  = [c \in Conns |-> "nothing"]
    /\ unread   = [c \in Conns |-> FALSE]
    /\ request  = [c \in Conns |-> NotHttp]
    /\ handled  = {}
    /\ answered = {}
    /\ closes   = [c \in Conns |-> 0]
    /\ stopper  = NoConn

-----------------------------------------------------------------------------
(* Before the loop.                                                        *)

\* The URLs cannot be taken apart, or the callback's thread cannot be created.
SetupFails ==
    /\ pc = "new"
    /\ error' = "setup"
    /\ result' = "null" /\ pc' = "done"
    /\ UNCHANGED <<loop, st, stopped, code, handled, ends, callback, net>>

\* sb_new_server fails, for example in bind(), and nothing sets an error.
ServerFails ==
    /\ pc = "new"
    /\ result' = "null" /\ pc' = "done"
    /\ UNCHANGED <<loop, st, events, ends, callback, net>>

StartServer ==
    /\ pc = "new"
    /\ pc' = "poll" /\ callback' = "running"
    /\ UNCHANGED <<loop, st, events, ends, result, net>>

\* The application's callback returns.
CallbackReturns ==
    /\ callback = "running"
    /\ callback' = "returned"
    /\ UNCHANGED <<pc, loop, st, events, ends, result, net>>

-----------------------------------------------------------------------------
(* sb_poll_server.                                                         *)

Receiving(c) == st[c] = "header"
Sending(c)   == st[c] \in {"status", "answer", "sent"}
Backlog      == {c \in Conns : peer[c] # "none" /\ st[c] = "none"}

Ready == {c \in Elements(streams) :
            Sending(c) \/ (Receiving(c) /\ (unread[c] \/ peer[c] = "closed"))}

\* Without anything to report select waits until its limit.
Select ==
    /\ pc = "poll"
    /\ streams # <<>> \/ Backlog # {}
    /\ ready' = Ready
    /\ incoming' = (Backlog # {})
    /\ late' \in SUBSET Elements(streams)
    /\ Ready = {} /\ Backlog = {} => late' = Elements(streams)
    /\ todo' = streams /\ streams' = <<>>
    /\ pc' = "serve"
    /\ UNCHANGED <<st, events, ends, result, callback, net>>

\* The close of a stream: the close event stops the loop.
Destroy(c) ==
    /\ st' = [st EXCEPT ![c] = "gone"]
    /\ closes' = [closes EXCEPT ![c] = @ + 1]
    /\ stopped' = TRUE
    /\ stopper' = IF stopped THEN stopper ELSE c
    /\ UNCHANGED answered

Keep(c, s) ==
    /\ streams' = Append(streams, c)
    /\ st' = [st EXCEPT ![c] = s]
    /\ answered' = IF s = "sent" THEN answered \cup {c} ELSE answered
    /\ UNCHANGED <<stopped, closes, stopper>>

\* Mutated form: the buffer is cleared with each request.
CodeOrNothing(r)  == IF r.path = "redirect" THEN Copied(r) ELSE Empty

\* Mutated form: a missing code is only logged.
ErrorOfPath(r) == IF r.path = "redirect" THEN error ELSE "bad_address"

\* Mutated form: the handler forgets sb_send_status.
NoAnswer(r) == "status"

\* handle_auth_redirect: what the request leaves in the buffer, as the error of
\* the thread, and to be sent.
CodeAfter(r)  == IF r.path = "redirect" THEN Copied(r) ELSE code
ErrorAfter(r) == IF r.path # "redirect" THEN "bad_address"
                 ELSE IF Found(r) THEN error ELSE "invalid_credential"
StateAfter(r) == IF r.path = "redirect" /\ Found(r) THEN "answer" ELSE "status"

\* The request event.
Handle(c) ==
    LET r == request[c] IN
    /\ handled' = handled \cup {c}
    /\ code'  = CodeAfter(r)
    /\ error' = ErrorAfter(r)
    /\ Keep(c, StateAfter(r))

\* sb_stream_recv: a whole request, an invalid one, a part of one, or the end.
Receive(c) ==
    /\ Receiving(c) /\ c \in ready
    /\ unread' = [unread EXCEPT ![c] = FALSE]
    /\ \/ /\ unread[c] /\ arrived[c] = "all" /\ request[c] # NotHttp
          /\ Handle(c)
       \/ /\ unread[c] /\ arrived[c] = "all" /\ request[c] = NotHttp
          /\ Destroy(c)
          /\ UNCHANGED <<streams, code, error, handled>>
       \/ /\ unread[c] /\ arrived[c] = "part" /\ peer[c] = "open"
          /\ Keep(c, "header")
          /\ UNCHANGED <<code, error, handled>>
       \/ /\ arrived[c] # "all" /\ peer[c] = "closed"
          /\ Destroy(c)
          /\ UNCHANGED <<streams, code, error, handled>>

\* sb_stream_send: the answer, which a browser that has gone may not take; with
\* nothing to send the stream is closed.
Send(c) ==
    /\ Sending(c) /\ c \in ready
    /\ \/ st[c] = "answer" /\ Keep(c, "sent")
       \/ /\ st[c] = "answer" => peer[c] = "closed"
          /\ Destroy(c)
          /\ UNCHANGED streams
    /\ UNCHANGED <<unread, code, error, handled>>

\* Mutated forms: no time limit; a stream that is freed but stays in the list.
NeverIdle(c) ==
    /\ c \notin ready
    /\ Keep(c, st[c])
    /\ UNCHANGED <<unread, code, error, handled>>
IdleStaysListed(c) ==
    /\ c \notin ready
    /\ IF c \in late
       THEN Destroy(c) /\ streams' = Append(streams, c)
       ELSE Keep(c, st[c])
    /\ UNCHANGED <<unread, code, error, handled>>

\* Nothing happened on the stream; it may have been idle for too long.
Idle(c) ==
    /\ c \notin ready
    /\ IF c \in late
       THEN Destroy(c) /\ UNCHANGED streams
       ELSE Keep(c, st[c])
    /\ UNCHANGED <<unread, code, error, handled>>

\* One turn for the next stream.
Serve ==
    /\ pc = "serve" /\ todo # <<>>
    /\ LET c == Head(todo) IN Receive(c) \/ Send(c) \/ Idle(c)
    /\ todo' = Tail(todo)
    /\ UNCHANGED <<pc, ready, incoming, late, result, callback,
                   peer, arrived, request>>

\* The streams are done with: on to the new connections.
ServeEnds ==
    /\ pc = "serve" /\ todo = <<>>
    /\ pc' = "accept"
    /\ UNCHANGED <<loop, st, events, ends, result, callback, net>>

\* Mutated form: the state of a new stream is left as malloc returned it.
AcceptUnset(c) ==
    /\ pc = "accept" /\ incoming
    /\ c \in Backlog
    /\ streams' = <<c>> \o streams
    /\ st' = [st EXCEPT ![c] = "unset"]
    /\ UNCHANGED <<pc, todo, ready, incoming, late, events, ends, result,
                   callback, net>>

Accept(c) ==
    /\ pc = "accept" /\ incoming
    /\ c \in Backlog
    /\ streams' = <<c>> \o streams
    /\ st' = [st EXCEPT ![c] = "header"]
    /\ UNCHANGED <<pc, todo, ready, incoming, late, events, ends, result,
                   callback, net>>

\* The call returns and the loop looks at its flag.
PollEnds ==
    /\ pc = "accept"
    /\ incoming => Backlog = {}
    /\ pc' = IF stopped THEN "join" ELSE "poll"
    /\ ready' = {} /\ late' = {} /\ incoming' = FALSE
    /\ UNCHANGED <<streams, todo, st, events, ends, result, callback, net>>

-----------------------------------------------------------------------------
(* After the loop.                                                         *)

Join ==
    /\ pc = "join" /\ callback = "returned"
    /\ pc' = "close"
    /\ UNCHANGED <<loop, st, events, ends, result, callback, net>>

\* sb_close_server, one stream at a time.
CloseServer ==
    /\ pc = "close" /\ streams # <<>>
    /\ Destroy(Head(streams))
    /\ streams' = Tail(streams)
    /\ UNCHANGED <<pc, todo, ready, incoming, late, code, error, handled, result,
                   callback, net>>

Return ==
    /\ pc = "close" /\ streams = <<>>
    /\ pc' = "done"
    /\ result' = IF code = Empty THEN "null" ELSE "code"
    /\ UNCHANGED <<loop, st, events, ends, callback, net>>

-----------------------------------------------------------------------------
(* The other end.                                                          *)

Listening == pc \notin {"new", "done"}

Connect(c) ==
    /\ Listening /\ peer[c] = "none"
    /\ peer' = [peer EXCEPT ![c] = "open"]
    /\ UNCHANGED <<pc, loop, st, events, ends, result, callback, arrived, unread,
                   request>>

\* A part of a request arrives, or what was missing.
Arrive(c, r, how) ==
    /\ peer[c] = "open" /\ arrived[c] # "all" /\ st[c] # "gone"
    /\ how = "part" => arrived[c] = "nothing" /\ r = NotHttp
    /\ arrived' = [arrived EXCEPT ![c] = how]
    /\ unread'  = [unread EXCEPT ![c] = TRUE]
    /\ request' = [request EXCEPT ![c] = r]
    /\ UNCHANGED <<pc, loop, st, events, ends, result, callback, peer>>

Leave(c) ==
    /\ peer[c] = "open" /\ st[c] # "gone"
    /\ peer' = [peer EXCEPT ![c] = "closed"]
    /\ UNCHANGED <<pc, loop, st, events, ends, result, callback, arrived, unread,
                   request>>

Browser(c) ==
    \/ Connect(c)
    \/ \E r \in Requests, how \in {"part", "all"} : Arrive(c, r, how)
    \/ Leave(c)

Server ==
    \/ Select \/ Serve \/ ServeEnds \/ PollEnds
    \/ \E c \in Conns : Accept(c)
    \/ Join \/ CloseServer \/ Return

Setup == SetupFails \/ ServerFails \/ StartServer

Next ==
    \/ Setup \/ Server \/ CallbackReturns
    \/ \E c \in Conns : Browser(c)

Spec == Init /\ [][Next]_vars

\* The calling thread runs on, select returns after 300 seconds at the latest,
\* and the callback, which only opens a browser, returns.  Nothing is assumed of
\* the browser.
FairSpec == Spec /\ WF_vars(Server) /\ WF_vars(CallbackReturns)

-----------------------------------------------------------------------------
(* Properties.                                                             *)

\* Every variable stays in its type.
TypeOK ==
    /\ pc       \in {"new", "poll", "serve", "accept", "join", "close", "done"}
    /\ streams  \in Seq(Conns)
    /\ todo     \in Seq(Conns)
    /\ ready    \subseteq Conns
    /\ incoming \in BOOLEAN
    /\ late     \subseteq Conns
    /\ st       \in [Conns -> {"none", "header", "status", "answer", "sent", "gone"}]
    /\ stopped  \in BOOLEAN
    /\ code     \in Buffers
    /\ error    \in {"none", "earlier", "setup", "bad_address", "invalid_credential"}
    /\ result   \in {"none", "null", "code"}
    /\ callback \in {"none", "running", "returned"}
    /\ peer     \in [Conns -> {"none", "open", "closed"}]
    /\ arrived  \in [Conns -> {"nothing", "part", "all"}]
    /\ unread   \in [Conns -> BOOLEAN]
    /\ request  \in [Conns -> Requests]
    /\ handled  \subseteq Conns
    /\ answered \subseteq Conns
    /\ closes   \in [Conns -> Nat]
    /\ stopper  \in Conns \cup {NoConn}

\* The server's list holds only open streams (a stream leaves it before its
\* memory is freed), and each connection that was accepted is closed once and,
\* when get_authorize_code returns, is closed, whether its turn in the loop or
\* sb_close_server came first.
ClosedOnce ==
    \A c \in Conns :
        /\ c \in Elements(streams) \cup Elements(todo) => closes[c] = 0
        /\ closes[c] <= 1
        /\ pc = "done" /\ st[c] # "none" => closes[c] = 1

\* The redirect requests that the handler was given.
Redirected == {c \in handled : request[c].path = "redirect"}

\* The error is one that the handler set, so that oauth_token_request returns it.
Told == error \in {"bad_address", "invalid_credential"}

\* When get_authorize_code returns no code, or the beginning of one, although the
\* handler was given requests, the thread's error is one of this call, but for one
\* case: every request that was handled went to the redirect path with the
\* variable in full, and in one of them it was empty.  Any other request, first
\* or last, leaves its error, which the ones after it do not clear.
NullIsTold ==
    pc = "done" /\ handled # {} /\ ~code.whole /\ ~Told =>
      /\ \A c \in handled : request[c].path = "redirect" /\ Found(request[c])
      /\ \E c \in handled : request[c].code = EmptyCode

\* If one request on the redirect path was handled and it had a code, then that
\* code is returned, whatever other connections do: what they ask for, how they
\* close and how late (they end the loop, but leave the buffer alone).  In any
\* case a code that is returned was carried by a request to the redirect path;
\* those for other paths contribute nothing.
OnlyCodeReturned ==
    /\ \A c \in Conns :
         pc = "done" /\ Redirected = {c} /\ request[c].code \in Codes
           => result = "code" /\ code.code = request[c].code
    /\ result = "code" => \E c \in Redirected : request[c].code = code.code

\* A browser that stays gets the answer to the request with its code (an empty one
\* is answered too), unless another connection was closed before and ended the loop.
AnsweredUnlessStopped ==
    \A c \in Redirected :
        closes[c] = 1 /\ Found(request[c]) /\ stopper = c
          => c \in answered \/ peer[c] = "closed"

\* Once anyone has connected, the wait for the code ends: the stream is served
\* or times out, and its close ends the loop.
WaitEnds == (\E c \in Conns : peer[c] # "none") ~> (pc = "done")
=============================================================================
