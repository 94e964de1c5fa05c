------------------------------ MODULE IpfsRpc -------------------------------
(***************************************************************************)
(* The node an IPFS connection talks to (src/src/vendors/ipfs/ipfs_rpc.c)  *)
(* and the calls that use it (vendors/ipfs/ipfs.c).                        *)
(*                                                                         *)
(* Connecting probes the configured nodes, from a random one on and around *)
(* the ring, IPv4 before IPv6, and keeps the first address that answers.   *)
(* A call sends its requests there.  When one cannot connect or times out  *)
(* the address is dropped, the call returns HIVEERR_TRY_AGAIN and the next *)
(* call probes again.  Nodes come and go meanwhile.  One thread drives the *)
(* connection.                                                             *)
(***************************************************************************)
EXTENDS Naturals

CONSTANTS
    N,              \* number of configured nodes
    Families,       \* the address families each of them has
    MaxRequests,    \* bound: requests of one call (3 for a download)
    MaxChanges      \* bound: changes of the network, and other failures

ASSUME NAssumption           == N \in Nat \ {0}
ASSUME FamiliesAssumption    ==
    Families \in [0..N-1 -> SUBSET {"ipv4", "ipv6"} \ {{}}]
ASSUME MaxRequestsAssumption == MaxRequests \in Nat \ {0}
ASSUME MaxChangesAssumption  == MaxChanges \in Nat

Nodes     == 0..N-1
Addresses == {a \in [node : Nodes, family : {"ipv4", "ipv6"}] :
                a.family \in Families[a.node]}
NoAddress == [node |-> N, family |-> "none"]

VARIABLES
    pc,             \* "closed", "idle", "probe", "request"
    current,        \* current_node_ip and current_node_port
    base, at,       \* select_bootstrap: where it began, what it probes next
    connecting,     \* is this the selection of ipfs_rpc_new
    left,           \* requests still to send in the current call
    result,         \* what the last call returned
    up,             \* the addresses that answer
    changes,        \* how much may still happen
    failed,         \* history: addresses that have failed since they last answered
    tried           \* history: addresses probed without success in this selection

rpcVars == <<pc, current, base, at, connecting, left, result>>
vars    == <<rpcVars, up, changes, failed, tried>>

Init ==
    /\ pc         = "closed"
    /\ current    = NoAddress
    /\ base       = 0
    /\ at         = [node |-> 0, family |-> "ipv4"]
    /\ connecting = FALSE
    /\ left       = 0
    /\ result     = "none"
    /\ up         \in SUBSET Addresses
    /\ changes    = MaxChanges
    /\ failed     = {}
    /\ tried      = {}

Change   == changes > 0 /\ changes' = changes - 1
NoChange == UNCHANGED changes

-----------------------------------------------------------------------------
(* select_bootstrap                                                        *)

\* srand and rand choose the node to begin with.
Select ==
    /\ \E n \in Nodes : base' = n /\ at' = [node |-> n, family |-> "ipv4"]
    /\ pc'    = "probe"
    /\ tried' = {}

\* Mutated form: nodes with an IPv4 address are not tried over IPv6.
NextFamilyOnly4(n) == IF "ipv4" \in Families[n] THEN "none" ELSE "ipv6"

\* What follows the IPv4 address of a node.
NextFamily(n) == "ipv6"

\* Mutated form: the index runs past the end of the array.
RingBeyond(n) == n + 1

Ring(n) == (n + 1) % N

\* What is probed after a; NoAddress when the loop is back at its first node.
Following(a) ==
    IF a.family = "ipv4" /\ NextFamily(a.node) # "none"
    THEN [a EXCEPT !.family = NextFamily(a.node)]
    ELSE IF Ring(a.node) = base THEN NoAddress
         ELSE [node |-> Ring(a.node), family |-> "ipv4"]

\* ipfs_rpc_new has a node, or check_reachable has one for its caller.
Selected ==
    /\ current' = at
    /\ failed'  = failed \ {at}
    /\ pc'      = IF connecting THEN "idle" ELSE "request"
    /\ UNCHANGED <<connecting, left, result, tried>>

\* ipfs_rpc_new fails, or the call does.
Exhausted ==
    /\ pc'     = IF connecting THEN "closed" ELSE "idle"
    /\ result' = "bad_bootstrap"
    /\ left'   = 0

\* One turn of the loop: test_reachable, if the node has such an address.
Probe ==
    /\ pc = "probe"
    /\ \/ /\ at \in Addresses \cap up
          /\ NoChange
          /\ Selected
          /\ UNCHANGED <<base, at>>
       \/ /\ \/ at \notin Addresses \cap up /\ NoChange
             \/ at \in Addresses \cap up /\ Change
          /\ tried'  = tried \cup ({at} \cap Addresses)
          /\ failed' = failed \cup ({at} \cap Addresses)
          /\ IF Following(at) = NoAddress
             THEN Exhausted /\ UNCHANGED at
             ELSE at' = Following(at) /\ UNCHANGED <<pc, left, result>>
          /\ UNCHANGED <<current, base, connecting>>
    /\ UNCHANGED up

-----------------------------------------------------------------------------
(* Connection and calls.                                                   *)

\* ipfs_client_connect, ipfs_rpc_new
Connect ==
    /\ pc = "closed"
    /\ current'    = NoAddress
    /\ connecting' = TRUE
    /\ result'     = "none"
    /\ Select
    /\ NoChange
    /\ UNCHANGED <<left, up, failed>>

\* hive_client_disconnect, ipfs_rpc_close
Disconnect ==
    /\ pc = "idle"
    /\ pc'      = "closed"
    /\ current' = NoAddress
    /\ result'  = "none"
    /\ NoChange
    /\ UNCHANGED <<base, at, connecting, left, up, failed, tried>>

\* A call and its ipfs_rpc_check_reachable.
Call ==
    /\ pc = "idle"
    /\ left'       \in 1..MaxRequests
    /\ result'     = "none"
    /\ connecting' = FALSE
    /\ NoChange
    /\ IF current # NoAddress
       THEN pc' = "request" /\ UNCHANGED <<base, at, tried>>
       ELSE Select
    /\ UNCHANGED <<current, up, failed>>

Return(r) ==
    /\ pc'     = "idle"
    /\ result' = r
    /\ left'   = 0

\* Mutated form: the address is kept.
MarkNothing == UNCHANGED current

\* ipfs_rpc_mark_node_unreachable
MarkNodeUnreachable == current' = NoAddress

\* One request to the current node: it answers, or it cannot be reached or the
\* answer does not come in time, or the request fails in another way, which
\* says nothing of the node.  A further request finds the node still current.
Request ==
    /\ pc = "request"
    /\ \/ /\ current \in up
          /\ NoChange
          /\ IF left > 1
             THEN left' = left - 1 /\ UNCHANGED <<pc, result>>
             ELSE Return("ok")
          /\ UNCHANGED <<current, failed>>
       \/ /\ \/ current \notin up /\ NoChange
             \/ current \in up /\ Change
          /\ MarkNodeUnreachable
          /\ failed' = failed \cup {current}
          /\ Return("again")
       \/ /\ Change
          /\ Return("error")
          /\ UNCHANGED <<current, failed>>
    /\ UNCHANGED <<base, at, connecting, up, tried>>

\* An address begins or ceases to answer.
Network ==
    /\ Change
    /\ \E a \in Addresses : up' = IF a \in up THEN up \ {a} ELSE up \cup {a}
    /\ UNCHANGED <<rpcVars, failed, tried>>

Next == Connect \/ Disconnect \/ Call \/ Probe \/ Request \/ Network

Spec == Init /\ [][Next]_vars

\* A call ends, and the application makes it again while it is asked to.
Retry    == result = "again" /\ Call
Fairness == WF_vars(Probe) /\ WF_vars(Request) /\ WF_vars(Retry)
FairSpec == Spec /\ Fairness

-----------------------------------------------------------------------------
(* Properties.                                                             *)

\* Every variable stays in its type.
TypeOK ==
    /\ pc         \in {"closed", "idle", "probe", "request"}
    /\ current    \in Addresses \cup {NoAddress}
    /\ base       \in Nodes
    /\ at         \in [node : Nodes, family : {"ipv4", "ipv6"}]
    /\ connecting \in BOOLEAN
    /\ left       \in 0..MaxRequests
    /\ result     \in {"none", "ok", "again", "error", "bad_bootstrap"}
    /\ up         \subseteq Addresses
    /\ changes    \in 0..MaxChanges
    /\ failed     \subseteq Addresses
    /\ tried      \subseteq Addresses

\* Every request goes to a configured address, and never to one that failed and
\* has not answered a probe since (mark_node_unreachable, and check_reachable
\* before every request).
NoRequestToFailed == pc = "request" => current \in Addresses \ failed

\* HIVEERR_BAD_BOOTSTRAP_HOST is returned only after every configured address,
\* of both families, was probed in vain, wherever the selection began (the loop
\* of select_bootstrap).
GivesUpLast == result = "bad_bootstrap" /\ pc # "probe" => tried = Addresses

\* A caller that repeats a call which asked for it is served, or learns of
\* another error, in the end: two dead addresses never pass it to and fro.
RetryServed == result = "again" ~> result \in {"ok", "error", "bad_bootstrap"} \/ pc = "closed"
=============================================================================
