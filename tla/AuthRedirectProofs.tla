-------------------------- MODULE AuthRedirectProofs --------------------------
(***************************************************************************)
(* Proofs about AuthRedirect for any connections and any codes.            *)
(*                                                                         *)
(* Lists says how the lists of the server, the states of the streams and   *)
(* the number of closes go together; Heard what the buffer and the error   *)
(* have to do with the requests that were handled; Turn what one turn of   *)
(* the loop relies on.                                                     *)
(***************************************************************************)
EXTENDS AuthRedirect, TLAPS

Distinct(s) == \A i, j \in DOMAIN s : s[i] = s[j] => i = j

Listed == Elements(streams) \cup Elements(todo)

Lists ==
    /\ Distinct(streams) /\ Distinct(todo)
    /\ Elements(streams) \cap Elements(todo) = {}
    /\ \A c \in Conns : c \in Listed <=> st[c] \notin {"none", "gone"}
    /\ \A c \in Conns : closes[c] = IF st[c] = "gone" THEN 1 ELSE 0
    /\ pc # "serve" => todo = <<>>
    /\ pc \in {"new", "done"} => streams = <<>>

Heard ==
    /\ \A c \in handled : arrived[c] = "all" /\ st[c] \notin {"none", "header"}
    /\ pc = "new" => handled = {} /\ code = Empty
    /\ code # Empty => \E c \in Redirected : request[c].code = code.code
    /\ ~Told => \A c \in handled : request[c].path = "redirect" /\ Found(request[c])
    /\ handled # {} /\ ~code.whole /\ ~Told
         => \E c \in handled : request[c].code = EmptyCode
    /\ \A c \in Conns : Redirected = {c} /\ request[c].code \in Codes
                          => code # Empty /\ code.code = request[c].code
    /\ result = "none" <=> pc # "done"
    /\ result = "code" => code # Empty
    /\ result = "null" => code = Empty

Whole(c) == c \in Redirected /\ Found(request[c])

Turn ==
    /\ \A c \in Elements(todo) : Sending(c) => c \in ready
    /\ pc \in {"join", "close"} => stopped
    /\ \A c \in Conns : stopper = c => st[c] = "gone"
    /\ \A c \in Conns : Whole(c) =>
          /\ st[c] # "status"
          /\ st[c] = "sent" => c \in answered
          /\ stopper = c => c \in answered \/ peer[c] = "closed"

IInv == TypeOK /\ Lists /\ Heard /\ Turn

-----------------------------------------------------------------------------
(* Lists.                                                                  *)

LEMMA ElementsOfEmpty == Elements(<<>>) = {}
  BY DEF Elements

LEMMA HeadAndTail ==
  ASSUME NEW s \in Seq(Conns), s # <<>>
  PROVE  /\ Head(s) \in Conns
         /\ Tail(s) \in Seq(Conns)
         /\ Elements(s) = {Head(s)} \cup Elements(Tail(s))
         /\ Distinct(s) => Distinct(Tail(s)) /\ Head(s) \notin Elements(Tail(s))
  <1>1. Head(s) = s[1] /\ 1 \in DOMAIN s /\ DOMAIN s = 1..Len(s) /\ Len(s) \in Nat \ {0}
    OBVIOUS
  <1>2. /\ Tail(s) \in Seq(Conns)
        /\ DOMAIN Tail(s) = 1..(Len(s) - 1)
        /\ \A i \in 1..(Len(s) - 1) : Tail(s)[i] = s[i + 1]
    OBVIOUS
  <1>3. Elements(s) \subseteq {Head(s)} \cup Elements(Tail(s))
    <2> SUFFICES ASSUME NEW e \in Elements(s) PROVE e \in {Head(s)} \cup Elements(Tail(s))
      OBVIOUS
    <2>1. PICK i \in 1..Len(s) : e = s[i]
      BY <1>1 DEF Elements
    <2>2. CASE i = 1
      BY <1>1, <2>1, <2>2
    <2>3. CASE i # 1
      <3>1. i - 1 \in 1..(Len(s) - 1) /\ Tail(s)[i - 1] = s[i]
        BY <1>1, <1>2, <2>3
      <3> QED
        BY <1>2, <2>1, <3>1 DEF Elements
    <2> QED
      BY <2>2, <2>3
  <1>4. {Head(s)} \cup Elements(Tail(s)) \subseteq Elements(s)
    <2>1. Head(s) \in Elements(s)
      BY <1>1 DEF Elements
    <2>2. ASSUME NEW i \in DOMAIN Tail(s) PROVE Tail(s)[i] \in Elements(s)
      <3>1. i + 1 \in DOMAIN s /\ Tail(s)[i] = s[i + 1]
        BY <1>1, <1>2
      <3> QED
        BY <3>1 DEF Elements
    <2> QED
      BY <2>1, <2>2 DEF Elements
  <1>5. ASSUME Distinct(s) PROVE Distinct(Tail(s)) /\ Head(s) \notin Elements(Tail(s))
    <2>1. Distinct(Tail(s))
      <3> SUFFICES ASSUME NEW i \in DOMAIN Tail(s), NEW j \in DOMAIN Tail(s),
                          Tail(s)[i] = Tail(s)[j]
                   PROVE  i = j
        BY DEF Distinct
      <3>1. /\ i + 1 \in DOMAIN s /\ j + 1 \in DOMAIN s /\ s[i + 1] = s[j + 1]
            /\ i \in Nat /\ j \in Nat
        BY <1>1, <1>2
      <3>2. i + 1 = j + 1
        BY <1>5, <3>1 DEF Distinct
      <3> QED
        BY <3>1, <3>2
    <2>2. ASSUME NEW i \in DOMAIN Tail(s), Tail(s)[i] = Head(s) PROVE FALSE
      <3>1. i + 1 \in DOMAIN s /\ s[i + 1] = s[1] /\ i \in Nat \ {0}
        BY <1>1, <1>2, <2>2
      <3>2. i + 1 = 1
        BY <1>1, <1>5, <3>1 DEF Distinct
      <3> QED
        BY <3>1, <3>2
    <2> QED
      BY <2>1, <2>2 DEF Elements
  <1> QED
    BY <1>1, <1>2, <1>3, <1>4, <1>5

LEMMA AppendOne ==
  ASSUME NEW s \in Seq(Conns), NEW c \in Conns
  PROVE  /\ Append(s, c) \in Seq(Conns)
         /\ Elements(Append(s, c)) = Elements(s) \cup {c}
         /\ Distinct(s) /\ c \notin Elements(s) => Distinct(Append(s, c))
  <1> DEFINE t == Append(s, c)
  <1>1. /\ t \in Seq(Conns) /\ Len(s) \in Nat
        /\ DOMAIN s = 1..Len(s) /\ DOMAIN t = 1..(Len(s) + 1)
        /\ t[Len(s) + 1] = c
        /\ \A i \in 1..Len(s) : t[i] = s[i]
    OBVIOUS
  <1> HIDE DEF t
  <1>2. Elements(t) = Elements(s) \cup {c}
    <2>1. Elements(t) \subseteq Elements(s) \cup {c}
      BY <1>1 DEF Elements
    <2>2. Elements(s) \subseteq Elements(t)
      BY <1>1 DEF Elements
    <2>3. c \in Elements(t)
      <3>1. Len(s) + 1 \in DOMAIN t
        BY <1>1
      <3> QED
        BY <1>1, <3>1 DEF Elements
    <2> QED
      BY <2>1, <2>2, <2>3
  <1>3. ASSUME Distinct(s), c \notin Elements(s) PROVE Distinct(t)
    <2>1. \A i \in 1..Len(s) : t[i] # c
      BY <1>1, <1>3 DEF Elements
    <2> QED
      BY <1>1, <1>3, <2>1 DEF Distinct
  <1> QED
    BY <1>1, <1>2, <1>3 DEF t

LEMMA PutFirst ==
  ASSUME NEW s \in Seq(Conns), NEW c \in Conns
  PROVE  /\ <<c>> \o s \in Seq(Conns)
         /\ Elements(<<c>> \o s) = Elements(s) \cup {c}
         /\ Distinct(s) /\ c \notin Elements(s) => Distinct(<<c>> \o s)
  <1> DEFINE t == <<c>> \o s
  <1>1. /\ t \in Seq(Conns) /\ Len(s) \in Nat
        /\ DOMAIN s = 1..Len(s) /\ DOMAIN t = 1..(Len(s) + 1)
        /\ t[1] = c
        /\ \A i \in 2..(Len(s) + 1) : t[i] = s[i - 1]
    OBVIOUS
  <1> HIDE DEF t
  <1>2. \A i \in 1..Len(s) : t[i + 1] = s[i]
    <2> TAKE i \in 1..Len(s)
    <2>1. i + 1 \in 2..(Len(s) + 1) /\ (i + 1) - 1 = i
      BY <1>1
    <2> QED
      BY <1>1, <2>1
  <1>3. Elements(t) = Elements(s) \cup {c}
    <2>1. ASSUME NEW i \in DOMAIN t PROVE t[i] \in Elements(s) \cup {c}
      <3>1. CASE i = 1
        BY <1>1, <3>1
      <3>2. CASE i # 1
        <4>1. i - 1 \in DOMAIN s /\ t[i] = s[i - 1]
          BY <1>1, <3>2
        <4> QED
          BY <4>1 DEF Elements
      <3> QED
        BY <3>1, <3>2
    <2>2. ASSUME NEW i \in DOMAIN s PROVE s[i] \in Elements(t)
      <3>1. i + 1 \in DOMAIN t
        BY <1>1
      <3> QED
        BY <1>1, <1>2, <3>1 DEF Elements
    <2>3. c \in Elements(t)
      <3>1. 1 \in DOMAIN t
        BY <1>1
      <3> QED
        BY <1>1, <3>1 DEF Elements
    <2> QED
      BY <2>1, <2>2, <2>3 DEF Elements
  <1>4. ASSUME Distinct(s), c \notin Elements(s) PROVE Distinct(t)
    <2> SUFFICES ASSUME NEW i \in DOMAIN t, NEW j \in DOMAIN t, t[i] = t[j] PROVE i = j
      BY DEF Distinct
    <2>1. \A k \in DOMAIN t : k # 1 => k - 1 \in DOMAIN s /\ t[k] = s[k - 1] /\ t[k] # c
      <3> SUFFICES ASSUME NEW k \in DOMAIN t, k # 1
                   PROVE  k - 1 \in DOMAIN s /\ t[k] = s[k - 1] /\ t[k] # c
        OBVIOUS
      <3>1. k - 1 \in DOMAIN s /\ t[k] = s[k - 1]
        BY <1>1
      <3> QED
        BY <3>1, <1>4 DEF Elements
    <2>2. CASE i = 1 \/ j = 1
      BY <1>1, <2>1, <2>2
    <2>3. CASE i # 1 /\ j # 1
      <3>1. i - 1 = j - 1
        BY <1>4, <2>1, <2>3 DEF Distinct
      <3> QED
        BY <1>1, <3>1
    <2> QED
      BY <2>2, <2>3
  <1> QED
    BY <1>1, <1>3, <1>4 DEF t

-----------------------------------------------------------------------------
(* Types.                                                                  *)

States == {"none", "header", "status", "answer", "sent", "gone"}

LEMMA CopiedType == ASSUME NEW r \in Requests PROVE Copied(r) \in Buffers
  BY DEF Copied, Requests, NotHttp, Buffers, Empty

LEMMA KeepType ==
  ASSUME TypeOK, NEW c \in Conns, NEW s \in States, Keep(c, s)
  PROVE  /\ streams' \in Seq(Conns) /\ st' \in [Conns -> States]
         /\ answered' \subseteq Conns
         /\ UNCHANGED <<stopped, closes, stopper>>
  BY AppendOne DEF TypeOK, Keep, States

LEMMA DestroyType ==
  ASSUME TypeOK, NEW c \in Conns, Destroy(c)
  PROVE  /\ st' \in [Conns -> States] /\ closes' \in [Conns -> Nat]
         /\ stopped' \in BOOLEAN /\ stopper' \in Conns \cup {NoConn}
         /\ UNCHANGED answered
  BY DEF TypeOK, Destroy, States

LEMMA HandleType ==
  ASSUME TypeOK, NEW c \in Conns, Handle(c)
  PROVE  /\ code' \in Buffers /\ handled' \subseteq Conns
         /\ error' \in {"none", "earlier", "setup", "bad_address", "invalid_credential"}
         /\ StateAfter(request[c]) \in States
         /\ Keep(c, StateAfter(request[c]))
  <1>1. request[c] \in Requests
    BY DEF TypeOK
  <1>2. CodeAfter(request[c]) \in Buffers
    BY <1>1, CopiedType DEF CodeAfter, TypeOK
  <1> QED
    BY <1>2 DEF Handle, ErrorAfter, StateAfter, States, TypeOK

LEMMA ServeType == TypeOK /\ Serve => TypeOK'
  <1> SUFFICES ASSUME TypeOK, Serve PROVE TypeOK'
    OBVIOUS
  <1> DEFINE c == Head(todo)
             Fine == /\ streams' \in Seq(Conns) /\ st' \in [Conns -> States]
                     /\ closes' \in [Conns -> Nat] /\ answered' \subseteq Conns
                     /\ stopped' \in BOOLEAN /\ stopper' \in Conns \cup {NoConn}
                     /\ unread' \in [Conns -> BOOLEAN]
                     /\ code' \in Buffers /\ handled' \subseteq Conns
                     /\ error' \in {"none", "earlier", "setup", "bad_address",
                                     "invalid_credential"}
  <1>1. c \in Conns /\ todo' \in Seq(Conns)
    BY HeadAndTail DEF Serve, TypeOK
  <1>2. ASSUME NEW s \in States, Keep(c, s), unread' \in [Conns -> BOOLEAN],
               UNCHANGED <<code, error, handled>>
        PROVE  Fine
    BY <1>1, <1>2, KeepType DEF TypeOK
  <1>3. ASSUME Destroy(c), UNCHANGED <<streams, code, error, handled>>,
               unread' \in [Conns -> BOOLEAN]
        PROVE  Fine
    BY <1>1, <1>3, DestroyType DEF TypeOK
  <1>4. ASSUME Handle(c), unread' \in [Conns -> BOOLEAN]
        PROVE  Fine
    <2>1. StateAfter(request[c]) \in States /\ Keep(c, StateAfter(request[c]))
      BY <1>1, <1>4, HandleType
    <2> QED
      BY <1>1, <1>4, <2>1, HandleType, KeepType DEF TypeOK
  <1>5. ASSUME Receive(c) PROVE Fine
    <2>1. unread' \in [Conns -> BOOLEAN]
      BY <1>5 DEF Receive, TypeOK
    <2>2. "header" \in States
      BY DEF States
    <2> QED
      BY <1>2, <1>3, <1>4, <1>5, <2>1, <2>2 DEF Receive
  <1>6. ASSUME Send(c) PROVE Fine
    <2>1. unread' \in [Conns -> BOOLEAN]
      BY <1>6 DEF Send, TypeOK
    <2>2. "sent" \in States
      BY DEF States
    <2> QED
      BY <1>2, <1>3, <1>6, <2>1, <2>2 DEF Send
  <1>7. ASSUME Idle(c) PROVE Fine
    <2>1. unread' \in [Conns -> BOOLEAN]
      BY <1>7 DEF Idle, TypeOK
    <2>2. st[c] \in States
      BY <1>1 DEF TypeOK, States
    <2> QED
      BY <1>2, <1>3, <1>7, <2>1, <2>2 DEF Idle
  <1>8. Fine
    BY <1>5, <1>6, <1>7 DEF Serve
  <1> QED
    BY <1>1, <1>8 DEF Serve, TypeOK, States

\* The steps but for Serve: what they leave alone.
LEMMA TypeStep == TypeOK /\ [Next]_vars => TypeOK'
  <1> SUFFICES ASSUME TypeOK, [Next]_vars PROVE TypeOK'
    OBVIOUS
  <1> USE DEF TypeOK, loop, events, ends, net
  <1>1. CASE Setup
    BY <1>1 DEF Setup, SetupFails, ServerFails, StartServer
  <1>2. CASE CallbackReturns
    BY <1>2 DEF CallbackReturns
  <1>3. CASE Select
    <2>1. /\ todo' = streams /\ streams' = <<>> /\ pc' = "serve"
          /\ ready' = Ready /\ incoming' \in BOOLEAN /\ late' \subseteq Elements(streams)
      BY <1>3 DEF Select
    <2>2. Elements(streams) \subseteq Conns
      BY DEF Elements
    <2>3. ready' \subseteq Conns /\ late' \subseteq Conns /\ streams' \in Seq(Conns)
      BY <2>1, <2>2 DEF Ready
    <2> QED
      BY <1>3, <2>1, <2>3 DEF Select
  <1>4. CASE Serve
    BY <1>4, ServeType
  <1>5. CASE ServeEnds
    BY <1>5 DEF ServeEnds
  <1>6. CASE \E c \in Conns : Accept(c)
    <2>1. PICK c \in Conns : Accept(c)
      BY <1>6
    <2>2. streams' \in Seq(Conns)
      BY <2>1, PutFirst DEF Accept
    <2> QED
      BY <2>1, <2>2 DEF Accept
  <1>7. CASE PollEnds
    BY <1>7 DEF PollEnds
  <1>8. CASE Join
    BY <1>8 DEF Join
  <1>9. CASE CloseServer
    <2>1. Head(streams) \in Conns /\ Tail(streams) \in Seq(Conns)
      BY <1>9, HeadAndTail DEF CloseServer
    <2>2. /\ st' \in [Conns -> States] /\ closes' \in [Conns -> Nat]
          /\ stopped' \in BOOLEAN /\ stopper' \in Conns \cup {NoConn}
          /\ UNCHANGED answered
      BY <1>9, <2>1, DestroyType DEF CloseServer
    <2> QED
      BY <1>9, <2>1, <2>2 DEF CloseServer, States
  <1>10. CASE Return
    BY <1>10 DEF Return
  <1>11. CASE \E c \in Conns : Browser(c)
    <2>1. PICK c \in Conns : Browser(c)
      BY <1>11
    <2>2. CASE Connect(c)
      BY <2>2 DEF Connect
    <2>3. CASE \E r \in Requests, how \in {"part", "all"} : Arrive(c, r, how)
      BY <2>3 DEF Arrive
    <2>4. CASE Leave(c)
      BY <2>4 DEF Leave
    <2> QED
      BY <2>1, <2>2, <2>3, <2>4 DEF Browser
  <1>12. CASE UNCHANGED vars
    BY <1>12 DEF vars
  <1> QED
    BY <1>1, <1>2, <1>3, <1>4, <1>5, <1>6, <1>7, <1>8, <1>9, <1>10, <1>11, <1>12
    DEF Next, Server

-----------------------------------------------------------------------------
(* The lists.                                                              *)

LEMMA ListsKept ==
  ASSUME TypeOK, Lists, todo # <<>>, pc = "serve", pc' = "serve",
         NEW s \in States \ {"none", "gone"},
         Keep(Head(todo), s), todo' = Tail(todo)
  PROVE  Lists'
  <1> DEFINE c == Head(todo)
  <1>1. /\ c \in Conns /\ todo' \in Seq(Conns)
        /\ Elements(todo) = {c} \cup Elements(todo')
        /\ Distinct(todo') /\ c \notin Elements(todo')
    BY HeadAndTail DEF TypeOK, Lists
  <1>2. c \notin Elements(streams)
    BY <1>1 DEF Lists
  <1>3. Elements(streams') = Elements(streams) \cup {c} /\ Distinct(streams')
    BY <1>1, <1>2, AppendOne DEF Keep, TypeOK, Lists
  <1>4. st' = [st EXCEPT ![c] = s] /\ closes' = closes /\ st[c] \notin {"none", "gone"}
    BY <1>1 DEF Keep, Lists, Listed
  <1> QED
    BY <1>1, <1>2, <1>3, <1>4 DEF Lists, Listed, TypeOK

LEMMA ListsDestroyed ==
  ASSUME TypeOK, Lists, todo # <<>>, pc = "serve", pc' = "serve",
         Destroy(Head(todo)), todo' = Tail(todo), streams' = streams
  PROVE  Lists'
  <1> DEFINE c == Head(todo)
  <1>1. /\ c \in Conns /\ todo' \in Seq(Conns)
        /\ Elements(todo) = {c} \cup Elements(todo')
        /\ Distinct(todo') /\ c \notin Elements(todo')
    BY HeadAndTail DEF TypeOK, Lists
  <1>2. c \notin Elements(streams)
    BY <1>1 DEF Lists
  <1>3. st[c] \notin {"none", "gone"} /\ closes[c] = 0
    BY <1>1 DEF Lists, Listed
  <1>4. st' = [st EXCEPT ![c] = "gone"] /\ closes' = [closes EXCEPT ![c] = 1]
    BY <1>1, <1>3 DEF Destroy, TypeOK
  <1> QED
    BY <1>1, <1>2, <1>3, <1>4 DEF Lists, Listed, TypeOK

\* What a turn of the loop comes to for its stream.
LEMMA ServeKeepsOrDestroys ==
  ASSUME TypeOK, Lists, Serve
  PROVE  \/ \E s \in States \ {"none", "gone"} : Keep(Head(todo), s)
         \/ Destroy(Head(todo)) /\ streams' = streams
  <1> DEFINE c == Head(todo)
             Goal == \/ \E s \in States \ {"none", "gone"} : Keep(c, s)
                     \/ Destroy(c) /\ streams' = streams
  <1>1. c \in Elements(todo) /\ c \in Conns /\ st[c] \in States \ {"none", "gone"}
    BY HeadAndTail DEF Serve, TypeOK, Lists, Listed, States
  <1>2. {"header", "status", "answer", "sent"} \subseteq States \ {"none", "gone"}
    BY DEF States
  <1>3. ASSUME Receive(c) PROVE Goal
    <2>1. StateAfter(request[c]) \in {"status", "answer"}
      BY DEF StateAfter
    <2> QED
      BY <1>2, <1>3, <2>1 DEF Receive, Handle
  <1>4. ASSUME Send(c) PROVE Goal
    BY <1>2, <1>4 DEF Send
  <1>5. ASSUME Idle(c) PROVE Goal
    BY <1>1, <1>5 DEF Idle
  <1> QED
    BY <1>3, <1>4, <1>5 DEF Serve

LEMMA ListsStep == TypeOK /\ Lists /\ [Next]_vars => Lists'
  <1> SUFFICES ASSUME TypeOK, Lists, [Next]_vars PROVE Lists'
    OBVIOUS
  <1> USE DEF loop, events, ends, net
  <1>0. ASSUME UNCHANGED <<streams, todo, st, closes>>,
               pc' # "serve" => todo = <<>>,
               pc' \in {"new", "done"} => streams = <<>>
        PROVE  Lists'
    BY <1>0 DEF Lists, Listed
  <1>1. CASE Setup
    BY <1>0, <1>1 DEF Setup, SetupFails, ServerFails, StartServer, Lists
  <1>2. CASE CallbackReturns
    BY <1>0, <1>2 DEF CallbackReturns, Lists
  <1>3. CASE Select
    <2>1. todo = <<>> /\ todo' = streams /\ streams' = <<>> /\ pc' = "serve"
          /\ UNCHANGED <<st, closes>>
      BY <1>3 DEF Select, Lists
    <2>2. Distinct(streams') /\ Elements(streams') = {}
      BY <2>1, ElementsOfEmpty DEF Distinct
    <2>3. Listed' = Listed
      BY <2>1, <2>2, ElementsOfEmpty DEF Listed
    <2> QED
      BY <2>1, <2>2, <2>3 DEF Lists
  <1>4. CASE Serve
    <2>1. todo # <<>> /\ pc = "serve" /\ pc' = "serve" /\ todo' = Tail(todo)
      BY <1>4 DEF Serve
    <2> QED
      BY <1>4, <2>1, ServeKeepsOrDestroys, ListsKept, ListsDestroyed
  <1>5. CASE ServeEnds
    BY <1>0, <1>5 DEF ServeEnds, Lists
  <1>6. CASE \E c \in Conns : Accept(c)
    <2>1. PICK c \in Conns : Accept(c)
      BY <1>6
    <2>2. st[c] = "none" /\ c \notin Elements(streams) /\ c \notin Elements(todo)
      BY <2>1 DEF Accept, Backlog, Lists, Listed
    <2>3. Elements(streams') = Elements(streams) \cup {c} /\ Distinct(streams')
      BY <2>1, <2>2, PutFirst DEF Accept, TypeOK, Lists
    <2>4. /\ pc = "accept" /\ pc' = pc /\ st' = [st EXCEPT ![c] = "header"]
          /\ UNCHANGED <<todo, closes>>
      BY <2>1 DEF Accept
    <2> QED
      BY <2>2, <2>3, <2>4 DEF Lists, Listed, TypeOK
  <1>7. CASE PollEnds
    BY <1>0, <1>7 DEF PollEnds, Lists
  <1>8. CASE Join
    BY <1>0, <1>8 DEF Join, Lists
  <1>9. CASE CloseServer
    <2> DEFINE c == Head(streams)
    <2>1. /\ c \in Conns /\ streams' \in Seq(Conns)
          /\ Elements(streams) = {c} \cup Elements(streams')
          /\ Distinct(streams') /\ c \notin Elements(streams')
      BY <1>9, HeadAndTail DEF CloseServer, TypeOK, Lists
    <2>2. /\ st[c] \notin {"none", "gone"} /\ closes[c] = 0
          /\ c \notin Elements(todo)
      BY <2>1 DEF Lists, Listed
    <2>3. /\ st' = [st EXCEPT ![c] = "gone"] /\ closes' = [closes EXCEPT ![c] = 1]
          /\ todo' = todo /\ pc' = "close" /\ pc = "close"
      BY <1>9, <2>1, <2>2 DEF CloseServer, Destroy, TypeOK
    <2> QED
      BY <2>1, <2>2, <2>3 DEF Lists, Listed, TypeOK
  <1>10. CASE Return
    BY <1>0, <1>10 DEF Return, Lists
  <1>11. CASE \E c \in Conns : Browser(c)
    BY <1>0, <1>11 DEF Browser, Connect, Arrive, Leave, Lists
  <1>12. CASE UNCHANGED vars
    BY <1>0, <1>12 DEF vars, Lists
  <1> QED
    BY <1>1, <1>2, <1>3, <1>4, <1>5, <1>6, <1>7, <1>8, <1>9, <1>10, <1>11, <1>12
    DEF Next, Server

-----------------------------------------------------------------------------
(* The buffer and the error.                                               *)

\* A step that gives the handler no request.
LEMMA HeardKept ==
  ASSUME TypeOK, Heard,
         handled' = handled, code' = code,
         error' = error \/ handled = {},
         \A c \in handled : /\ request'[c] = request[c] /\ arrived'[c] = arrived[c]
                           /\ st'[c] \notin {"none", "header"},
         pc' = "new" => pc = "new",
         result' = "none" <=> pc' # "done",
         result' = "code" => code # Empty,
         result' = "null" => code = Empty
  PROVE  Heard'
  <1>1. Redirected' = Redirected /\ \A c \in Redirected : request'[c] = request[c]
    BY DEF Redirected
  <1>2. \A c \in handled' : arrived'[c] = "all" /\ st'[c] \notin {"none", "header"}
    BY DEF Heard
  <1>3. code' # Empty => \E c \in Redirected' : request'[c].code = code'.code
    BY <1>1 DEF Heard
  <1>4. /\ ~Told' => \A c \in handled' : request'[c].path = "redirect" /\ Found(request'[c])
        /\ handled' # {} /\ ~code'.whole /\ ~Told'
             => \E c \in handled' : request'[c].code = EmptyCode
    <2>1. CASE error' = error
      <3>1. Told' <=> Told
        BY <2>1 DEF Told
      <3> QED
        BY <3>1 DEF Heard
    <2>2. CASE handled = {}
      BY <2>2
    <2> QED
      BY <2>1, <2>2
  <1>5. \A c \in Conns : Redirected' = {c} /\ request'[c].code \in Codes
                          => code' # Empty /\ code'.code = request'[c].code
    BY <1>1 DEF Heard
  <1> QED
    BY <1>2, <1>3, <1>4, <1>5 DEF Heard

LEMMA CopiedCode ==
  ASSUME NEW r \in Requests
  PROVE  /\ Copied(r) = Empty <=> r.code \notin Codes
         /\ Copied(r) # Empty => Copied(r).code = r.code
         /\ Found(r) /\ ~Copied(r).whole => r.code = EmptyCode
  BY NoCodeAssumption DEF Copied, Empty, Found

\* The request event.
LEMMA HeardHandle ==
  ASSUME TypeOK, Heard, NEW c \in Conns, Handle(c), arrived[c] = "all",
         UNCHANGED <<request, arrived, result, pc>>, pc = "serve"
  PROVE  Heard'
  <1> DEFINE r == request[c]
  <1>1. /\ r \in Requests /\ handled' = handled \cup {c}
        /\ code' = CodeAfter(r) /\ error' = ErrorAfter(r)
        /\ st' = [st EXCEPT ![c] = StateAfter(r)]
    BY DEF TypeOK, Handle, Keep
  <1>2. \A d \in handled' : arrived'[d] = "all" /\ st'[d] \notin {"none", "header"}
    BY <1>1 DEF Heard, StateAfter, TypeOK
  <1>3. CASE r.path = "redirect"
    <2>1. /\ code' = Copied(r) /\ Redirected' = Redirected \cup {c}
          /\ error' = IF Found(r) THEN error ELSE "invalid_credential"
      BY <1>1, <1>3 DEF CodeAfter, ErrorAfter, Redirected
    <2>2. ASSUME ~Told'
          PROVE  /\ \A d \in handled' : request'[d].path = "redirect" /\ Found(request'[d])
                 /\ ~code'.whole => request'[c].code = EmptyCode
      <3>1. Found(r) /\ ~Told
        BY <2>1, <2>2 DEF Told
      <3> QED
        BY <1>1, <1>3, <2>1, <3>1, CopiedCode DEF Heard
    <2>3. code' # Empty => code'.code = request'[c].code
      BY <1>1, <2>1, CopiedCode
    <2>4. request'[c].code \in Codes => code' # Empty
      BY <1>1, <2>1, CopiedCode
    <2>5. c \in handled' /\ c \in Redirected'
      BY <1>1, <2>1
    <2> QED
      BY <1>2, <2>1, <2>2, <2>3, <2>4, <2>5 DEF Heard
  <1>4. CASE r.path # "redirect"
    <2>1. code' = code /\ Redirected' = Redirected /\ error' = "bad_address"
      BY <1>1, <1>4 DEF CodeAfter, ErrorAfter, Redirected
    <2>2. Told'
      BY <2>1 DEF Told
    <2> QED
      BY <1>2, <2>1, <2>2 DEF Heard
  <1> QED
    BY <1>3, <1>4

LEMMA HeardServe == TypeOK /\ Lists /\ Heard /\ Serve => Heard'
  <1> SUFFICES ASSUME TypeOK, Lists, Heard, Serve PROVE Heard'
    OBVIOUS
  <1> DEFINE c == Head(todo)
  <1>1. /\ c \in Conns /\ st[c] \notin {"none", "gone"}
        /\ pc = "serve" /\ UNCHANGED <<pc, result, request, arrived>>
    BY HeadAndTail DEF Serve, TypeOK, Lists, Listed
  <1>2. ASSUME NEW s, st' = [st EXCEPT ![c] = s],
               s \notin {"none", "header"} \/ c \notin handled,
               UNCHANGED <<code, error, handled>>
        PROVE  Heard'
    <2>1. \A d \in handled : st'[d] \notin {"none", "header"}
      BY <1>2 DEF Heard, TypeOK
    <2>2. /\ result' = "none" <=> pc' # "done"
          /\ result' = "code" => code # Empty
          /\ result' = "null" => code = Empty
      BY <1>1 DEF Heard
    <2> QED
      BY <1>1, <1>2, <2>1, <2>2, HeardKept
  <1>3. ASSUME Receive(c) PROVE Heard'
    <2>1. c \notin handled
      BY <1>3 DEF Receive, Receiving, Heard
    <2>2. ASSUME arrived[c] = "all", Handle(c) PROVE Heard'
      BY <1>1, <2>2, HeardHandle
    <2>3. ASSUME Keep(c, "header"), UNCHANGED <<code, error, handled>> PROVE Heard'
      BY <1>2, <2>1, <2>3 DEF Keep
    <2>4. ASSUME Destroy(c), UNCHANGED <<code, error, handled>> PROVE Heard'
      BY <1>2, <2>1, <2>4 DEF Destroy
    <2> QED
      BY <1>3, <2>2, <2>3, <2>4 DEF Receive
  <1>4. ASSUME Send(c) PROVE Heard'
    BY <1>2, <1>4 DEF Send, Keep, Destroy
  <1>5. ASSUME Idle(c) PROVE Heard'
    <2>1. st[c] \notin {"none", "header"} \/ c \notin handled
      BY DEF Heard
    <2> QED
      BY <1>2, <1>5, <2>1 DEF Idle, Keep, Destroy
  <1> QED
    BY <1>3, <1>4, <1>5 DEF Serve

LEMMA HeardStep == TypeOK /\ Lists /\ Heard /\ [Next]_vars => Heard'
  <1> SUFFICES ASSUME TypeOK, Lists, Heard, [Next]_vars PROVE Heard'
    OBVIOUS
  <1> USE DEF loop, events, ends, net
  <1>0. ASSUME UNCHANGED <<handled, code, error, request, arrived, st, result>>,
               pc' = "new" => pc = "new", pc' = "done" <=> pc = "done"
        PROVE  Heard'
    <2>1. /\ result' = "none" <=> pc' # "done"
          /\ result' = "code" => code # Empty
          /\ result' = "null" => code = Empty
          /\ \A c \in handled : st[c] \notin {"none", "header"}
      BY <1>0 DEF Heard
    <2> QED
      BY <1>0, <2>1, HeardKept
  <1>1. CASE Setup
    <2>1. CASE StartServer
      BY <1>0, <2>1 DEF StartServer
    <2>2. CASE SetupFails \/ ServerFails
      <3>1. /\ handled = {} /\ code = Empty /\ handled' = handled /\ code' = code
            /\ result' = "null" /\ pc' = "done"
        BY <2>2 DEF SetupFails, ServerFails, Heard
      <3> QED
        BY <3>1, HeardKept
    <2> QED
      BY <1>1, <2>1, <2>2 DEF Setup
  <1>2. CASE CallbackReturns
    BY <1>0, <1>2 DEF CallbackReturns
  <1>3. CASE Select
    BY <1>0, <1>3 DEF Select
  <1>4. CASE Serve
    BY <1>4, HeardServe
  <1>5. CASE ServeEnds
    BY <1>0, <1>5 DEF ServeEnds
  <1>6. CASE \E c \in Conns : Accept(c)
    <2>1. PICK c \in Conns : Accept(c)
      BY <1>6
    <2>2. c \notin handled /\ st' = [st EXCEPT ![c] = "header"]
      BY <2>1 DEF Accept, Backlog, Heard
    <2>3. \A d \in handled : st'[d] \notin {"none", "header"}
      BY <2>2 DEF Heard, TypeOK
    <2>4. /\ result' = "none" <=> pc' # "done"
          /\ result' = "code" => code # Empty
          /\ result' = "null" => code = Empty
      BY <2>1 DEF Accept, Heard
    <2> QED
      BY <2>1, <2>3, <2>4, HeardKept DEF Accept
  <1>7. CASE PollEnds
    BY <1>0, <1>7 DEF PollEnds
  <1>8. CASE Join
    BY <1>0, <1>8 DEF Join
  <1>9. CASE CloseServer
    <2>1. /\ Head(streams) \in Conns /\ st' = [st EXCEPT ![Head(streams)] = "gone"]
          /\ UNCHANGED <<pc, handled, code, error, result, request, arrived>>
      BY <1>9, HeadAndTail DEF CloseServer, Destroy, TypeOK
    <2>2. \A d \in handled : st'[d] \notin {"none", "header"}
      BY <2>1 DEF Heard, TypeOK
    <2>3. /\ result' = "none" <=> pc' # "done"
          /\ result' = "code" => code # Empty
          /\ result' = "null" => code = Empty
      BY <2>1 DEF Heard
    <2> QED
      BY <2>1, <2>2, <2>3, HeardKept
  <1>10. CASE Return
    <2>1. /\ pc' = "done" /\ result' = IF code = Empty THEN "null" ELSE "code"
          /\ UNCHANGED <<handled, code, error, request, arrived, st>>
      BY <1>10 DEF Return
    <2>2. \A d \in handled : st'[d] \notin {"none", "header"}
      BY <2>1 DEF Heard
    <2> QED
      BY <2>1, <2>2, HeardKept
  <1>11. CASE \E c \in Conns : Browser(c)
    <2>1. PICK c \in Conns : Browser(c)
      BY <1>11
    <2>2. CASE Connect(c)
      BY <1>0, <2>2 DEF Connect
    <2>3. CASE \E r \in Requests, how \in {"part", "all"} : Arrive(c, r, how)
      <3>1. c \notin handled
        BY <2>3 DEF Arrive, Heard
      <3>2. \A d \in handled : /\ request'[d] = request[d] /\ arrived'[d] = arrived[d]
                              /\ st'[d] \notin {"none", "header"}
        BY <2>3, <3>1 DEF Arrive, Heard, TypeOK
      <3>3. /\ result' = "none" <=> pc' # "done"
            /\ result' = "code" => code # Empty
            /\ result' = "null" => code = Empty
        BY <2>3 DEF Arrive, Heard
      <3> QED
        BY <2>3, <3>2, <3>3, HeardKept DEF Arrive
    <2>4. CASE Leave(c)
      BY <1>0, <2>4 DEF Leave
    <2> QED
      BY <2>1, <2>2, <2>3, <2>4 DEF Browser
  <1>12. CASE UNCHANGED vars
    BY <1>0, <1>12 DEF vars
  <1> QED
    BY <1>1, <1>2, <1>3, <1>4, <1>5, <1>6, <1>7, <1>8, <1>9, <1>10, <1>11, <1>12
    DEF Next, Server

-----------------------------------------------------------------------------
(* The turns of the loop.                                                  *)

\* A step that closes nothing and gives the handler no request.
LEMMA TurnKept ==
  ASSUME TypeOK, Heard, Turn,
         UNCHANGED <<handled, answered, stopped, stopper>>,
         \A c \in handled : request'[c] = request[c] /\ st'[c] = st[c],
         \A c \in Conns : st[c] = "gone" => st'[c] = "gone",
         \A c \in Conns : peer[c] = "closed" => peer'[c] = "closed",
         \A c \in Elements(todo') : Sending(c)' => c \in ready',
         pc' \in {"join", "close"} => stopped
  PROVE  Turn'
  <1>1. \A c \in Conns : Whole(c)' => Whole(c) /\ c \in handled
    BY DEF Whole, Redirected
  <1> QED
    BY <1>1 DEF Turn

\* A step that closes one stream.
LEMMA TurnDestroyed ==
  ASSUME TypeOK, Lists, Heard, Turn, NEW c \in Conns, Destroy(c), st[c] # "gone",
         UNCHANGED <<handled, request, peer>>,
         Whole(c) => stopped \/ c \in answered \/ peer[c] = "closed",
         \A d \in Elements(todo') : Sending(d)' => d \in ready'
  PROVE  Turn'
  <1>1. st' = [st EXCEPT ![c] = "gone"] /\ answered' = answered /\ stopped' = TRUE
        /\ stopper' = IF stopped THEN stopper ELSE c
    BY DEF Destroy
  <1>2. \A d \in Conns : Whole(d)' <=> Whole(d)
    BY DEF Whole, Redirected
  <1>3. \A d \in Conns : stopper' = d => st'[d] = "gone"
    BY <1>1 DEF Turn, TypeOK
  <1>4. ASSUME NEW d \in Conns, Whole(d)
        PROVE  /\ st'[d] # "status"
               /\ st'[d] = "sent" => d \in answered'
               /\ stopper' = d => d \in answered' \/ peer'[d] = "closed"
    <2>1. st'[d] = st[d] \/ st'[d] = "gone"
      BY <1>1 DEF TypeOK
    <2>2. stopper' = d => stopper = d \/ (d = c /\ ~stopped)
      BY <1>1
    <2> QED
      BY <1>1, <1>4, <2>1, <2>2 DEF Turn
  <1> QED
    BY <1>1, <1>2, <1>3, <1>4 DEF Turn

LEMMA TurnServe == IInv /\ Serve => Turn'
  <1> SUFFICES ASSUME TypeOK, Lists, Heard, Turn, Serve PROVE Turn'
    BY DEF IInv
  <1> DEFINE c == Head(todo)
  <1>1. /\ c \in Conns /\ st[c] \notin {"none", "gone"}
        /\ c \in Elements(todo) /\ todo' = Tail(todo)
        /\ pc = "serve" /\ UNCHANGED <<pc, ready, request, peer>>
    BY HeadAndTail DEF Serve, TypeOK, Lists, Listed
  <1>2. /\ c \notin Elements(todo')
        /\ \A d \in Elements(todo') : d \in Elements(todo) /\ d \in Conns
    <2>1. Elements(Tail(todo)) \subseteq Conns
      BY HeadAndTail DEF Serve, TypeOK, Elements
    <2> QED
      BY <1>1, <2>1, HeadAndTail DEF Serve, TypeOK, Lists
  <1>3. ASSUME NEW s, st' = [st EXCEPT ![c] = s]
        PROVE  \A d \in Elements(todo') : Sending(d)' => d \in ready'
    <2> SUFFICES ASSUME NEW d \in Elements(todo'), Sending(d)' PROVE d \in ready'
      OBVIOUS
    <2>1. d \in Conns /\ d \in Elements(todo) /\ st'[d] = st[d]
      BY <1>2, <1>3 DEF TypeOK
    <2>2. Sending(d)
      BY <2>1 DEF Sending
    <2> QED
      BY <1>1, <2>1, <2>2 DEF Turn
  <1>4. ASSUME NEW s, Keep(c, s), handled' = handled,
               Whole(c) => s \in {"answer", "sent"}
        PROVE  Turn'
    <2>1. /\ st' = [st EXCEPT ![c] = s] /\ UNCHANGED <<stopped, closes, stopper>>
          /\ answered' = IF s = "sent" THEN answered \cup {c} ELSE answered
      BY <1>4 DEF Keep
    <2>2. \A d \in Conns : Whole(d)' <=> Whole(d)
      BY <1>1, <1>4 DEF Whole, Redirected
    <2>3. \A d \in Conns : stopper' = d => st'[d] = "gone"
      BY <1>1, <2>1 DEF Turn, TypeOK
    <2>4. ASSUME NEW d \in Conns, Whole(d)
          PROVE  /\ st'[d] # "status"
                 /\ st'[d] = "sent" => d \in answered'
                 /\ stopper' = d => d \in answered' \/ peer'[d] = "closed"
      <3>1. CASE d = c
        BY <1>1, <1>4, <2>1, <2>4, <3>1 DEF Turn, TypeOK
      <3>2. CASE d # c
        BY <1>1, <2>1, <2>4, <3>2 DEF Turn, TypeOK
      <3> QED
        BY <3>1, <3>2
    <2> QED
      BY <1>1, <1>3, <2>1, <2>2, <2>3, <2>4 DEF Turn
  <1>5. ASSUME Destroy(c), handled' = handled,
               Whole(c) => c \in answered \/ peer[c] = "closed"
        PROVE  Turn'
    <2>1. \A d \in Elements(todo') : Sending(d)' => d \in ready'
      BY <1>3, <1>5 DEF Destroy
    <2> QED
      BY <1>1, <1>5, <2>1, TurnDestroyed
  <1>6. Whole(c) => c \in handled /\ st[c] \in {"answer", "sent"}
    BY <1>1 DEF Whole, Redirected, Heard, Turn, TypeOK
  <1>7. ASSUME Receive(c) PROVE Turn'
    <2>1. ~Whole(c)
      BY <1>6, <1>7 DEF Receive, Receiving
    <2>2. ASSUME Handle(c) PROVE Turn'
      <3> DEFINE r == request[c]
                 s == StateAfter(r)
      <3>1. /\ handled' = handled \cup {c} /\ Keep(c, s)
            /\ st' = [st EXCEPT ![c] = s]
            /\ UNCHANGED <<stopped, stopper, answered>>
        BY <2>2 DEF Handle, Keep, StateAfter
      <3>2. \A d \in Conns : Whole(d)' => Whole(d) \/ (d = c /\ s = "answer")
        BY <1>1, <3>1 DEF Whole, Redirected, StateAfter
      <3>3. \A d \in Conns : stopper' = d => st'[d] = "gone" /\ d # c
        BY <1>1, <3>1 DEF Turn, TypeOK
      <3>4. ASSUME NEW d \in Conns, Whole(d)'
            PROVE  /\ st'[d] # "status"
                   /\ st'[d] = "sent" => d \in answered'
                   /\ stopper' = d => d \in answered' \/ peer'[d] = "closed"
        <4>1. CASE d = c
          <5>1. s = "answer"
            BY <2>1, <3>2, <3>4, <4>1
          <5>2. st'[d] = "answer"
            BY <3>1, <4>1, <5>1 DEF TypeOK
          <5> QED
            BY <3>3, <4>1, <5>2
        <4>2. CASE d # c
          BY <1>1, <3>1, <3>2, <3>4, <4>2 DEF Turn, TypeOK
        <4> QED
          BY <4>1, <4>2
      <3> QED
        BY <1>1, <1>3, <3>1, <3>3, <3>4 DEF Turn
    <2>3. ASSUME Keep(c, "header"), handled' = handled PROVE Turn'
      BY <1>4, <2>1, <2>3
    <2>4. ASSUME Destroy(c), handled' = handled PROVE Turn'
      BY <1>5, <2>1, <2>4
    <2> QED
      BY <1>7, <2>2, <2>3, <2>4 DEF Receive
  <1>8. ASSUME Send(c) PROVE Turn'
    <2>1. CASE st[c] = "answer" /\ Keep(c, "sent")
      BY <1>4, <1>8, <2>1 DEF Send
    <2>2. CASE (st[c] = "answer" => peer[c] = "closed") /\ Destroy(c)
      <3>1. Whole(c) => c \in answered \/ peer[c] = "closed"
        BY <1>1, <1>6, <2>2 DEF Turn
      <3> QED
        BY <1>5, <1>8, <2>2, <3>1 DEF Send
    <2> QED
      BY <1>8, <2>1, <2>2 DEF Send
  <1>9. ASSUME Idle(c) PROVE Turn'
    <2>1. ~Whole(c)
      BY <1>1, <1>6, <1>9 DEF Idle, Turn, Sending
    <2> QED
      BY <1>4, <1>5, <1>9, <2>1 DEF Idle
  <1> QED
    BY <1>7, <1>8, <1>9 DEF Serve

LEMMA TurnStep == IInv /\ [Next]_vars => Turn'
  <1> SUFFICES ASSUME TypeOK, Lists, Heard, Turn, [Next]_vars PROVE Turn'
    BY DEF IInv
  <1> USE DEF loop, events, ends, net
  <1>0. ASSUME UNCHANGED <<handled, answered, stopped, stopper, todo, ready, st, request>>,
               \A c \in Conns : peer[c] = "closed" => peer'[c] = "closed",
               pc' \in {"join", "close"} => stopped
        PROVE  Turn'
    <2>1. \A c \in Elements(todo') : Sending(c)' => c \in ready'
      BY <1>0 DEF Turn, Sending
    <2> QED
      BY <1>0, <2>1, TurnKept
  <1>a. ASSUME todo' = <<>> PROVE \A c \in Elements(todo') : Sending(c)' => c \in ready'
    BY <1>a, ElementsOfEmpty
  <1>1. CASE Setup
    BY <1>0, <1>1 DEF Setup, SetupFails, ServerFails, StartServer
  <1>2. CASE CallbackReturns
    BY <1>0, <1>2 DEF CallbackReturns, Turn
  <1>3. CASE Select
    <2>1. /\ todo' = streams /\ ready' = Ready /\ pc' = "serve"
          /\ UNCHANGED <<handled, answered, stopped, stopper, st, request, peer>>
      BY <1>3 DEF Select
    <2>2. \A c \in Elements(todo') : Sending(c)' => c \in ready'
      BY <2>1 DEF Ready, Sending
    <2> QED
      BY <2>1, <2>2, TurnKept
  <1>4. CASE Serve
    BY <1>4, TurnServe DEF IInv
  <1>5. CASE ServeEnds
    BY <1>0, <1>5 DEF ServeEnds
  <1>6. CASE \E c \in Conns : Accept(c)
    <2>1. PICK c \in Conns : Accept(c)
      BY <1>6
    <2>2. /\ todo' = <<>> /\ st[c] = "none" /\ st' = [st EXCEPT ![c] = "header"]
          /\ pc' = "accept"
          /\ UNCHANGED <<handled, answered, stopped, stopper, request, peer>>
      BY <2>1 DEF Accept, Backlog, Lists
    <2>3. \A d \in handled : st'[d] = st[d]
      BY <2>2 DEF Heard, TypeOK
    <2>4. \A d \in Conns : st[d] = "gone" => st'[d] = "gone"
      BY <2>2 DEF TypeOK
    <2> QED
      BY <1>a, <2>2, <2>3, <2>4, TurnKept
  <1>7. CASE PollEnds
    <2>1. todo' = <<>> /\ pc' = (IF stopped THEN "join" ELSE "poll")
          /\ UNCHANGED <<handled, answered, stopped, stopper, st, request, peer>>
      BY <1>7 DEF PollEnds, Lists
    <2> QED
      BY <1>a, <2>1, TurnKept
  <1>8. CASE Join
    BY <1>0, <1>8 DEF Join, Turn
  <1>9. CASE CloseServer
    <2> DEFINE c == Head(streams)
    <2>1. /\ c \in Conns /\ st[c] # "gone" /\ Destroy(c) /\ todo' = <<>> /\ stopped
          /\ UNCHANGED <<handled, request, peer>>
      BY <1>9, HeadAndTail DEF CloseServer, TypeOK, Lists, Listed, Turn
    <2> QED
      BY <1>a, <2>1, TurnDestroyed
  <1>10. CASE Return
    BY <1>0, <1>10 DEF Return
  <1>11. CASE \E c \in Conns : Browser(c)
    <2>1. PICK c \in Conns : Browser(c)
      BY <1>11
    <2>2. CASE Connect(c)
      <3>1. \A d \in Conns : peer[d] = "closed" => peer'[d] = "closed"
        BY <2>2 DEF Connect, TypeOK
      <3> QED
        BY <1>0, <2>2, <3>1 DEF Connect, Turn
    <2>3. CASE \E r \in Requests, how \in {"part", "all"} : Arrive(c, r, how)
      <3>1. /\ arrived[c] # "all"
            /\ UNCHANGED <<pc, handled, answered, stopped, stopper, todo, ready, st, peer>>
            /\ \A d \in Conns : d # c => request'[d] = request[d]
        BY <2>3 DEF Arrive, TypeOK
      <3>2. \A d \in handled : request'[d] = request[d]
        BY <3>1 DEF Heard, TypeOK
      <3>3. \A d \in Elements(todo') : Sending(d)' => d \in ready'
        BY <3>1 DEF Turn, Sending
      <3> QED
        BY <3>1, <3>2, <3>3, TurnKept DEF Turn
    <2>4. CASE Leave(c)
      <3>1. \A d \in Conns : peer[d] = "closed" => peer'[d] = "closed"
        BY <2>4 DEF Leave, TypeOK
      <3> QED
        BY <1>0, <2>4, <3>1 DEF Leave, Turn
    <2> QED
      BY <2>1, <2>2, <2>3, <2>4 DEF Browser
  <1>12. CASE UNCHANGED vars
    BY <1>0, <1>12 DEF vars, Turn
  <1> QED
    BY <1>1, <1>2, <1>3, <1>4, <1>5, <1>6, <1>7, <1>8, <1>9, <1>10, <1>11, <1>12
    DEF Next, Server

-----------------------------------------------------------------------------
(* The invariant.                                                          *)

LEMMA IInvInit == Init => IInv
  <1> SUFFICES ASSUME Init PROVE IInv
    OBVIOUS
  <1>1. TypeOK
    <2>1. code \in Buffers
      BY DEF Init, Buffers
    <2>2. request \in [Conns -> Requests]
      BY DEF Init, Requests
    <2>3. streams \in Seq(Conns) /\ todo \in Seq(Conns)
      BY DEF Init
    <2>4. /\ unread \in [Conns -> BOOLEAN]
          /\ closes \in [Conns -> Nat]
          /\ st \in [Conns -> {"none", "header", "status", "answer", "sent", "gone"}]
          /\ peer \in [Conns -> {"none", "open", "closed"}]
          /\ arrived \in [Conns -> {"nothing", "part", "all"}]
      BY DEF Init
    <2> QED
      BY <2>1, <2>2, <2>3, <2>4 DEF Init, TypeOK
  <1>2. Lists
    BY ElementsOfEmpty DEF Init, Lists, Listed, Distinct
  <1>3. Heard
    BY DEF Init, Heard, Redirected
  <1>4. Turn
    BY ElementsOfEmpty, NoConnAssumption DEF Init, Turn, Whole, Redirected
  <1> QED
    BY <1>1, <1>2, <1>3, <1>4 DEF IInv

LEMMA IInvStep == IInv /\ [Next]_vars => IInv'
  BY TypeStep, ListsStep, HeardStep, TurnStep DEF IInv

THEOREM Invariance == Spec => []IInv
  <1>1. Init => IInv
    BY IInvInit
  <1>2. IInv /\ [Next]_vars => IInv'
    BY IInvStep
  <1> QED
    BY <1>1, <1>2, PTL DEF Spec

\* Every variable of the wait for the code stays in its type, whatever connects.
THEOREM TypeCorrect == Spec => []TypeOK
  <1>1. IInv => TypeOK
    BY DEF IInv
  <1> QED
    BY <1>1, Invariance, PTL

\* The server's list holds only open streams, and every accepted connection is
\* closed exactly once by the time the call returns.
THEOREM AlwaysClosedOnce == Spec => []ClosedOnce
  <1>1. IInv => ClosedOnce
    <2> SUFFICES ASSUME IInv, NEW c \in Conns
                 PROVE  /\ c \in Elements(streams) \cup Elements(todo) => closes[c] = 0
                        /\ closes[c] <= 1
                        /\ pc = "done" /\ st[c] # "none" => closes[c] = 1
      BY DEF ClosedOnce
    <2>1. closes[c] = (IF st[c] = "gone" THEN 1 ELSE 0)
          /\ (c \in Listed <=> st[c] \notin {"none", "gone"})
      BY DEF IInv, Lists
    <2>2. pc = "done" => Listed = {}
      BY ElementsOfEmpty DEF IInv, Lists, Listed
    <2> QED
      BY <2>1, <2>2 DEF Listed
  <1> QED
    BY <1>1, Invariance, PTL

\* No code, or only its beginning, after handled requests means an error of this
\* call, unless all of them had the variable in full and one had it empty.
THEOREM AlwaysTold == Spec => []NullIsTold
  <1>1. IInv => NullIsTold
    BY DEF IInv, Heard, NullIsTold
  <1> QED
    BY <1>1, Invariance, PTL

\* The only code that was sent to the redirect path is the one returned, and no
\* other than one that was sent there.
THEOREM AlwaysOnlyCode == Spec => []OnlyCodeReturned
  <1>1. IInv => OnlyCodeReturned
    <2>1. ASSUME IInv, NEW c \in Conns,
                 pc = "done", Redirected = {c}, request[c].code \in Codes
          PROVE  result = "code" /\ code.code = request[c].code
      <3>1. code # Empty /\ code.code = request[c].code /\ result # "none" /\ result # "null"
        BY <2>1 DEF IInv, Heard
      <3> QED
        BY <2>1, <3>1 DEF IInv, TypeOK
    <2>2. ASSUME IInv, result = "code"
          PROVE  \E c \in Redirected : request[c].code = code.code
      BY <2>2 DEF IInv, Heard
    <2> QED
      BY <2>1, <2>2 DEF OnlyCodeReturned
  <1> QED
    BY <1>1, Invariance, PTL

\* The request with the code is answered unless another connection's close came
\* first.
THEOREM AlwaysAnswered == Spec => []AnsweredUnlessStopped
  <1>1. IInv => AnsweredUnlessStopped
    BY DEF IInv, Turn, Whole, AnsweredUnlessStopped, Redirected, TypeOK
  <1> QED
    BY <1>1, Invariance, PTL
=============================================================================
