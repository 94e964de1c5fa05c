--------------------------- MODULE IpfsRpcProofs ----------------------------
(***************************************************************************)
(* Proofs about IpfsRpc for every number of nodes and every choice of      *)
(* their addresses.                                                        *)
(***************************************************************************)
EXTENDS IpfsRpc, TLAPS

\* Probing starts from no address, a request has one, and the address in use
\* has not failed.
Trusted == /\ pc = "probe" => current = NoAddress
           /\ pc = "request" => current # NoAddress
           /\ current \notin failed

IInv == TypeOK /\ Trusted

LEMMA NoAddressIsNone == NoAddress \notin Addresses
  BY NAssumption DEF NoAddress, Addresses, Nodes

LEMMA RingIsNode == \A n \in Nodes : Ring(n) \in Nodes
  BY NAssumption DEF Ring, Nodes

LEMMA FollowingType ==
  ASSUME TypeOK, Following(at) # NoAddress
  PROVE  Following(at) \in [node : Nodes, family : {"ipv4", "ipv6"}]
  BY RingIsNode DEF TypeOK, Following, NextFamily

LEMMA SelectType ==
  ASSUME Select
  PROVE  /\ base' \in Nodes
         /\ at' \in [node : Nodes, family : {"ipv4", "ipv6"}]
         /\ pc' = "probe"
         /\ tried' = {}
  BY DEF Select

LEMMA TypeInit == Init => TypeOK
  <1> SUFFICES ASSUME Init PROVE TypeOK
    OBVIOUS
  <1>1. base \in Nodes /\ at \in [node : Nodes, family : {"ipv4", "ipv6"}]
    BY NAssumption DEF Init, Nodes
  <1>2. left \in 0..MaxRequests /\ changes \in 0..MaxChanges
    BY MaxRequestsAssumption, MaxChangesAssumption DEF Init
  <1> QED
    BY <1>1, <1>2 DEF Init, TypeOK

LEMMA ChangesType ==
  ASSUME TypeOK, Change \/ NoChange
  PROVE  changes' \in 0..MaxChanges
  BY MaxChangesAssumption DEF TypeOK, Change, NoChange

LEMMA TypeProbe == TypeOK /\ Probe => TypeOK'
  <1> SUFFICES ASSUME TypeOK, Probe PROVE TypeOK'
    OBVIOUS
  <1>0. changes' \in 0..MaxChanges
    BY ChangesType DEF Probe
  <1>1. CASE at \in Addresses /\ Selected /\ UNCHANGED <<base, at, up>>
    BY <1>0, <1>1 DEF Selected, TypeOK
  <1>2. CASE /\ tried'  = tried \cup ({at} \cap Addresses)
             /\ failed' = failed \cup ({at} \cap Addresses)
             /\ IF Following(at) = NoAddress
                THEN Exhausted /\ UNCHANGED at
                ELSE at' = Following(at) /\ UNCHANGED <<pc, left, result>>
             /\ UNCHANGED <<current, base, connecting, up>>
    <2>1. tried' \subseteq Addresses /\ failed' \subseteq Addresses
      BY <1>2 DEF TypeOK
    <2>2. CASE Following(at) = NoAddress
      <3>1. pc' \in {"closed", "idle"} /\ result' = "bad_bootstrap" /\ left' = 0
            /\ at' = at
        BY <1>2, <2>2 DEF Exhausted
      <3> QED
        BY <1>0, <1>2, <2>1, <3>1, MaxRequestsAssumption DEF TypeOK
    <2>3. CASE Following(at) # NoAddress
      <3>1. at' \in [node : Nodes, family : {"ipv4", "ipv6"}]
        BY <1>2, <2>3, FollowingType
      <3> QED
        BY <1>0, <1>2, <2>1, <2>3, <3>1 DEF TypeOK
    <2> QED
      BY <2>2, <2>3
  <1> QED
    BY <1>1, <1>2 DEF Probe

LEMMA TypeRequest == TypeOK /\ Request /\ Trusted => TypeOK'
  <1> SUFFICES ASSUME TypeOK, Request, Trusted PROVE TypeOK'
    OBVIOUS
  <1>0. changes' \in 0..MaxChanges
    BY ChangesType DEF Request
  <1>1. current' \in Addresses \cup {NoAddress}
    BY DEF Request, MarkNodeUnreachable, TypeOK
  <1>2. failed' \subseteq Addresses
    BY DEF Request, Trusted, TypeOK
  <1>3. left' \in 0..MaxRequests
    BY MaxRequestsAssumption DEF Request, Return, TypeOK
  <1>4. pc' \in {"request", "idle"} /\ result' \in {"none", "ok", "again", "error", "bad_bootstrap"}
    BY DEF Request, Return, TypeOK
  <1> QED
    BY <1>0, <1>1, <1>2, <1>3, <1>4 DEF Request, TypeOK

LEMMA TypeStep == IInv /\ [Next]_vars => TypeOK'
  <1> SUFFICES ASSUME IInv, [Next]_vars PROVE TypeOK'
    OBVIOUS
  <1> USE DEF IInv
  <1>1. CASE Connect
    <2>1. changes' \in 0..MaxChanges
      BY <1>1, ChangesType DEF Connect
    <2> QED
      BY <1>1, <2>1, SelectType DEF Connect, TypeOK
  <1>2. CASE Disconnect
    <2>1. changes' \in 0..MaxChanges
      BY <1>2, ChangesType DEF Disconnect
    <2> QED
      BY <1>2, <2>1 DEF Disconnect, TypeOK
  <1>3. CASE Call
    <2>1. left' \in 0..MaxRequests /\ changes' \in 0..MaxChanges
      BY <1>3, MaxRequestsAssumption, ChangesType DEF Call
    <2>2. CASE current # NoAddress
      BY <1>3, <2>1, <2>2 DEF Call, TypeOK
    <2>3. CASE current = NoAddress
      BY <1>3, <2>1, <2>3, SelectType DEF Call, TypeOK
    <2> QED
      BY <2>2, <2>3
  <1>4. CASE Probe
    BY <1>4, TypeProbe
  <1>5. CASE Request
    BY <1>5, TypeRequest
  <1>6. CASE Network
    <2>1. changes' \in 0..MaxChanges
      BY <1>6, ChangesType DEF Network
    <2> QED
      BY <1>6, <2>1 DEF Network, rpcVars, TypeOK
  <1>7. CASE UNCHANGED vars
    BY <1>7 DEF vars, rpcVars, TypeOK
  <1> QED
    BY <1>1, <1>2, <1>3, <1>4, <1>5, <1>6, <1>7 DEF Next

LEMMA TrustedStep == IInv /\ [Next]_vars => Trusted'
  <1> SUFFICES ASSUME IInv, [Next]_vars PROVE Trusted'
    OBVIOUS
  <1> USE NoAddressIsNone DEF IInv, Trusted
  <1>0. NoAddress \notin failed
    BY DEF TypeOK
  <1>1. CASE Connect
    BY <1>0, <1>1, SelectType DEF Connect
  <1>2. CASE Disconnect
    BY <1>0, <1>2 DEF Disconnect
  <1>3. CASE Call
    BY <1>3, SelectType DEF Call
  <1>4. CASE Probe
    <2>1. CASE at \in Addresses /\ Selected
      <3>1. current' = at /\ failed' = failed \ {at} /\ pc' \in {"idle", "request"}
        BY <2>1 DEF Selected
      <3> QED
        BY <2>1, <3>1
    <2>2. CASE /\ failed' = failed \cup ({at} \cap Addresses)
               /\ pc' # "request"
               /\ UNCHANGED current
      BY <1>0, <1>4, <2>2 DEF Probe
    <2> QED
      BY <1>4, <2>1, <2>2 DEF Probe, Exhausted
  <1>5. CASE Request
    <2>1. CASE UNCHANGED <<current, failed>>
      BY <1>5, <2>1 DEF Request, Return
    <2>2. CASE MarkNodeUnreachable /\ failed' = failed \cup {current} /\ Return("again")
      BY <1>0, <1>5, <2>2 DEF Request, MarkNodeUnreachable, Return
    <2> QED
      BY <1>5, <2>1, <2>2 DEF Request
  <1>6. CASE Network
    BY <1>6 DEF Network, rpcVars
  <1>7. CASE UNCHANGED vars
    BY <1>7 DEF vars, rpcVars
  <1> QED
    BY <1>1, <1>2, <1>3, <1>4, <1>5, <1>6, <1>7 DEF Next

LEMMA Invariant == Spec => []IInv
  <1>1. Init => IInv
    BY TypeInit, NoAddressIsNone DEF Init, IInv, Trusted
  <1>2. IInv /\ [Next]_vars => IInv'
    BY TypeStep, TrustedStep DEF IInv
  <1> QED
    BY <1>1, <1>2, PTL DEF Spec

\* Every variable stays in its type, for any number of nodes, requests and
\* network changes (ipfs_rpc.c).
THEOREM TypeCorrect == Spec => []TypeOK
  <1>1. IInv => TypeOK
    BY DEF IInv
  <1> QED
    BY <1>1, Invariant, PTL

\* A request goes only to a configured address that has answered since it last
\* failed, for any number of nodes (ipfs_rpc_check_reachable and
\* ipfs_rpc_mark_node_unreachable).
THEOREM OnlyTrustedNodes == Spec => []NoRequestToFailed
  <1>1. IInv => NoRequestToFailed
    BY DEF IInv, TypeOK, Trusted, NoRequestToFailed
  <1> QED
    BY <1>1, Invariant, PTL

-----------------------------------------------------------------------------
(* The ring: how far the loop of select_bootstrap has come.                *)

\* How many nodes lie between the first of the selection and node n.
Dist(n) == IF n >= base THEN n - base ELSE n - base + N

\* The selection has passed address a.
Passed(a) == \/ Dist(a.node) < Dist(at.node)
             \/ a.node = at.node /\ a.family = "ipv4" /\ at.family = "ipv6"

\* What the selection has passed it has tried.
Covered == /\ pc = "probe" => /\ result = "none"
                              /\ \A a \in Addresses : Passed(a) => a \in tried
           /\ pc = "request" => result = "none"

LEMMA RingValue ==
  \A n \in Nodes : Ring(n) = IF n = N - 1 THEN 0 ELSE n + 1
  <1> SUFFICES ASSUME NEW n \in Nodes
               PROVE  Ring(n) = IF n = N - 1 THEN 0 ELSE n + 1
    OBVIOUS
  <1>1. CASE n = N - 1
    BY <1>1, NAssumption DEF Ring
  <1>2. CASE n # N - 1
    <2>1. n + 1 \in 0..N-1
      BY <1>2, NAssumption DEF Nodes
    <2> QED
      BY <1>2, <2>1, NAssumption DEF Ring
  <1> QED
    BY <1>1, <1>2

\* One node further round the ring, unless that is where the selection began.
LEMMA DistRing ==
  ASSUME TypeOK, NEW n \in Nodes
  PROVE  /\ Dist(n) \in 0..N-1
         /\ Ring(n) # base => Dist(Ring(n)) = Dist(n) + 1
         /\ Ring(n) = base => Dist(n) = N - 1
         /\ \A m \in Nodes : Dist(m) = Dist(n) => m = n
  <1>1. base \in Nodes /\ N \in Nat \ {0}
    BY NAssumption DEF TypeOK
  <1>2. Ring(n) = IF n = N - 1 THEN 0 ELSE n + 1
    BY RingValue
  <1> QED
    BY <1>1, <1>2 DEF Dist, Nodes

\* No step moves Dist except one that begins a selection or goes on in one.
LEMMA CoveredFrame ==
  ASSUME Covered, UNCHANGED <<base, at, tried>>, pc' = "probe" => pc = "probe",
         pc' \in {"probe", "request"} => result' = "none"
  PROVE  Covered'
  BY DEF Covered, Passed, Dist

\* A new selection has passed nothing.
LEMMA CoveredSelect ==
  ASSUME TypeOK, Select, result' = "none"
  PROVE  Covered'
  <1>1. PICK n \in Nodes : base' = n /\ at' = [node |-> n, family |-> "ipv4"]
    BY DEF Select
  <1>2. \A a \in Addresses : ~Passed(a)'
    <2> SUFFICES ASSUME NEW a \in Addresses PROVE ~Passed(a)'
      OBVIOUS
    <2>1. a.node \in Nodes
      BY DEF Addresses
    <2> QED
      BY <1>1, <2>1, NAssumption DEF Passed, Dist, Nodes
  <1> QED
    BY <1>2 DEF Covered, Select

\* After a probe in vain the selection has passed the address probed, and
\* nothing else.
LEMMA PassedNext ==
  ASSUME TypeOK, Following(at) # NoAddress, at' = Following(at), base' = base,
         NEW a \in Addresses, Passed(a)'
  PROVE  Passed(a) \/ a = at
  <1>1. a.node \in Nodes /\ a.family \in {"ipv4", "ipv6"}
        /\ a = [node |-> a.node, family |-> a.family]
    BY DEF Addresses
  <1>2. at.node \in Nodes /\ at.family \in {"ipv4", "ipv6"}
        /\ at = [node |-> at.node, family |-> at.family]
    BY DEF TypeOK
  <1>3. CASE at.family = "ipv4"
    <2>1. at'.node = at.node /\ at'.family = "ipv6"
      BY <1>2, <1>3 DEF Following, NextFamily
    <2> QED
      BY <1>1, <1>2, <1>3, <2>1 DEF Passed, Dist
  <1>4. CASE at.family = "ipv6"
    <2>1. at'.node = Ring(at.node) /\ at'.family = "ipv4" /\ Ring(at.node) # base
      BY <1>2, <1>4 DEF Following
    <2>2. Dist(Ring(at.node)) = Dist(at.node) + 1
      BY <1>2, <2>1, DistRing
    <2>3. Dist(a.node) \in 0..N-1 /\ Dist(at.node) \in 0..N-1
      BY <1>1, <1>2, DistRing
    <2>4. Dist(a.node) < Dist(at.node) + 1
      BY <2>1, <2>2 DEF Passed, Dist
    <2>5. CASE Dist(a.node) = Dist(at.node)
      <3>1. a.node = at.node
        BY <1>1, <1>2, <2>5, DistRing
      <3> QED
        BY <1>1, <1>2, <1>4, <3>1 DEF Passed
    <2>6. CASE Dist(a.node) < Dist(at.node)
      BY <2>6 DEF Passed
    <2> QED
      BY <2>3, <2>4, <2>5, <2>6, NAssumption
  <1> QED
    BY <1>2, <1>3, <1>4

\* At the end of the loop the selection has passed every address but the last.
LEMMA PassedAll ==
  ASSUME TypeOK, Following(at) = NoAddress, NEW a \in Addresses
  PROVE  Passed(a) \/ a = at
  <1>1. a.node \in Nodes /\ a.family \in {"ipv4", "ipv6"}
        /\ a = [node |-> a.node, family |-> a.family]
    BY DEF Addresses
  <1>2. at.node \in Nodes /\ at.family \in {"ipv4", "ipv6"}
        /\ at = [node |-> at.node, family |-> at.family]
    BY DEF TypeOK
  <1>3. Ring(at.node) \in Nodes /\ N \notin Nodes
    BY <1>2, RingIsNode, NAssumption DEF Nodes
  <1>4. at.family = "ipv6" /\ Ring(at.node) = base
    BY <1>2, <1>3 DEF Following, NextFamily, NoAddress
  <1>5. Dist(at.node) = N - 1 /\ Dist(a.node) \in 0..N-1
    BY <1>1, <1>2, <1>4, DistRing
  <1>6. CASE Dist(a.node) = Dist(at.node)
    <2>1. a.node = at.node
      BY <1>1, <1>2, <1>6, DistRing
    <2> QED
      BY <1>1, <1>2, <1>4, <2>1 DEF Passed
  <1>7. CASE Dist(a.node) < Dist(at.node)
    BY <1>7 DEF Passed
  <1> QED
    BY <1>5, <1>6, <1>7, NAssumption

GInv == IInv /\ Covered /\ GivesUpLast

LEMMA CoveredStep == GInv /\ [Next]_vars => Covered' /\ GivesUpLast'
  <1> SUFFICES ASSUME GInv, [Next]_vars PROVE Covered' /\ GivesUpLast'
    OBVIOUS
  <1> USE DEF GInv, IInv
  <1>1. CASE Connect
    BY <1>1, CoveredSelect, SelectType DEF Connect, GivesUpLast
  <1>2. CASE Disconnect
    BY <1>2, CoveredFrame DEF Disconnect, GivesUpLast
  <1>3. CASE Call
    <2>1. CASE current # NoAddress
      BY <1>3, <2>1, CoveredFrame DEF Call, GivesUpLast
    <2>2. CASE current = NoAddress
      BY <1>3, <2>2, CoveredSelect, SelectType DEF Call, GivesUpLast
    <2> QED
      BY <2>1, <2>2
  <1>4. CASE Probe
    <2>1. CASE Selected /\ UNCHANGED <<base, at>>
      <3>1. /\ UNCHANGED <<base, at, tried, result>>
            /\ pc' \in {"idle", "request"}
            /\ result = "none"
        BY <1>4, <2>1 DEF Selected, Probe, Covered
      <3> QED
        BY <3>1, CoveredFrame DEF GivesUpLast
    <2>2. CASE /\ tried' = tried \cup ({at} \cap Addresses)
               /\ base' = base
               /\ Following(at) = NoAddress
               /\ Exhausted /\ UNCHANGED at
      <3>1. pc' \in {"closed", "idle"} /\ result' = "bad_bootstrap"
        BY <2>2 DEF Exhausted
      <3>2. \A a \in Addresses : a \in tried'
        BY <1>4, <2>2, PassedAll DEF Probe, Covered
      <3>3. tried' \subseteq Addresses
        BY <2>2 DEF TypeOK
      <3> QED
        BY <3>1, <3>2, <3>3 DEF Covered, GivesUpLast
    <2>3. CASE /\ tried' = tried \cup ({at} \cap Addresses)
               /\ base' = base
               /\ Following(at) # NoAddress
               /\ at' = Following(at)
               /\ UNCHANGED <<pc, result>>
      <3>1. pc = "probe" /\ result = "none"
        BY <1>4 DEF Probe, Covered
      <3>2. \A a \in Addresses : Passed(a)' => a \in tried'
        <4> SUFFICES ASSUME NEW a \in Addresses, Passed(a)' PROVE a \in tried'
          OBVIOUS
        <4>1. Passed(a) \/ a = at
          BY <2>3, PassedNext
        <4> QED
          BY <2>3, <3>1, <4>1 DEF Covered
      <3> QED
        BY <2>3, <3>1, <3>2 DEF Covered, GivesUpLast
    <2> QED
      BY <1>4, <2>1, <2>2, <2>3 DEF Probe
  <1>5. CASE Request
    <2>1. /\ UNCHANGED <<base, at, tried>>
          /\ pc' \in {"idle", "request"}
          /\ result' # "bad_bootstrap"
          /\ pc' = "request" => result' = "none"
      BY <1>5 DEF Request, Return, Covered
    <2> QED
      BY <2>1, CoveredFrame DEF GivesUpLast
  <1>6. CASE Network
    BY <1>6, CoveredFrame DEF Network, rpcVars, GivesUpLast, Covered
  <1>7. CASE UNCHANGED vars
    BY <1>7, CoveredFrame DEF vars, rpcVars, GivesUpLast, Covered
  <1> QED
    BY <1>1, <1>2, <1>3, <1>4, <1>5, <1>6, <1>7 DEF Next

\* For any number of nodes: HIVEERR_BAD_BOOTSTRAP_HOST is returned only after
\* every configured address was probed in vain, wherever on the ring the
\* selection began (select_bootstrap).
THEOREM AllTriedBeforeGivingUp == Spec => []GivesUpLast
  <1>1. Init => GInv
    BY TypeInit, NoAddressIsNone DEF Init, GInv, IInv, Trusted, Covered, GivesUpLast
  <1>2. GInv /\ [Next]_vars => GInv'
    BY TypeStep, TrustedStep, CoveredStep DEF GInv, IInv
  <1>3. GInv => GivesUpLast
    BY DEF GInv
  <1> QED
    BY <1>1, <1>2, <1>3, PTL DEF Spec
=============================================================================
