------------------------------ MODULE Discovery ------------------------------
(***************************************************************************)
(* The cluster of discovery services of src/services/discovery/discovery.c *)
(* (S4): every node announces itself over UDP, keeps a table of the nodes  *)
(* it met, exchanges heartbeats and elects a leader (bully).               *)
(*                                                                         *)
(* A node is one process with two threads: the main loop, which sends and  *)
(* checks the leader, and udp_receiver_thread, which handles one datagram  *)
(* at a time.  An action is one critical section of state_mutex, or one    *)
(* step that touches shared data without it.                               *)
(*                                                                         *)
(* Node identifiers are naturals: their order stands for strcmp's.         *)
(***************************************************************************)
EXTENDS Naturals, FiniteSets

CONSTANTS
    Node,               \* node_id of every discovery process
    KnownNodes,         \* KnownNodes[n]: the cluster_node entries of n's config
    PeerEndpoints,      \* PeerEndpoints[n]: the node_ids of its peer_endpoint entries
    MAX_NODES,          \* capacity of cluster_nodes[]
    BroadcastPermitted, \* does sendto(255.255.255.255) succeed on the socket?
    Limit               \* bounds of the model, by kind of event

ASSUME NodeAssumption == Node \subseteq Nat
ASSUME ConfigAssumption == /\ KnownNodes \in [Node -> SUBSET Node]
                           /\ PeerEndpoints \in [Node -> SUBSET Node]
ASSUME CapacityAssumption == MAX_NODES \in Nat \ {0}
ASSUME BroadcastAssumption == BroadcastPermitted \in BOOLEAN

\* The events whose number is bounded: crashes, lost datagrams, heartbeats sent
\* and entries whose last_seen grows older than election_timeout_ms.
Bounded == {"crash", "loss", "heartbeat", "expiry"}
ASSUME LimitAssumption == Limit \in [Bounded -> Nat]

VARIABLES
    up,       \* the running nodes
    role,     \* node_state
    known,    \* ids in cluster_nodes[0 .. node_count-1]
    tcpOnly,  \* those whose address is a peer's TCP query port, not its UDP socket
    isLeader, \* those with is_leader = 1
    stale,    \* those with now - last_seen > election_timeout_ms / 1000
    composed, \* the heartbeat formatted by send_heartbeat and not yet sent
    msgs,     \* datagrams in flight
    spent     \* events counted against Limit

tables == <<known, tcpOnly, isLeader, stale>>
vars == <<up, role, tables, composed, msgs, spent>>

Role == {"FOLLOWER", "CANDIDATE", "LEADER"}
MsgType == {"DISCOVER", "HEARTBEAT", "ELECTION", "COORDINATOR"}
Message == [type : MsgType, id : Node, to : Node, flag : {0, 1}]

Msg(t, n, r) == [type |-> t, id |-> n, to |-> r, flag |-> 0]
Heartbeat(n, r, f) == [type |-> "HEARTBEAT", id |-> n, to |-> r, flag |-> f]

Spend(e) == /\ spent[e] < Limit[e]
            /\ spent' = [spent EXCEPT ![e] = @ + 1]

\* init_udp_socket sets SO_REUSEADDR only: without SO_BROADCAST the kernel
\* refuses a send to 255.255.255.255 and the callers ignore the result.
Broadcast(t, n) == IF BroadcastPermitted THEN {Msg(t, n, r) : r \in Node} ELSE {}

\* Room for one more entry (a slip of one would write past the array).
Room_OffByOne(n) == Cardinality(known[n]) <= MAX_NODES
Room(n) == Cardinality(known[n]) < MAX_NODES

\* A datagram to an entry learnt from a peer_endpoint goes to the TCP port of
\* the peer's query service, where no UDP socket listens.
Reachable(n) == known[n] \ tcpOnly[n]

-----------------------------------------------------------------------------
DiscoverMsgs(n) == Broadcast("DISCOVER", n) \cup {Msg("DISCOVER", n, r) : r \in KnownNodes[n]}

Init ==
    /\ up = {}
    /\ role = [n \in Node |-> "FOLLOWER"]
    /\ known = [n \in Node |-> {}]
    /\ tcpOnly = [n \in Node |-> {}]
    /\ isLeader = [n \in Node |-> {}]
    /\ stale = [n \in Node |-> {}]
    /\ composed = [n \in Node |-> {}]
    /\ msgs = {}
    /\ spent = [e \in Bounded |-> 0]

\* main up to its loop: follower with an empty table, then the first DISCOVER.
Start(n) ==
    /\ n \notin up
    /\ up' = up \cup {n}
    /\ msgs' = msgs \cup DiscoverMsgs(n)
    /\ UNCHANGED <<role, tables, composed, spent>>

\* The process ends (SIGTERM, SIGKILL, power): its memory is lost.
Crash(n) ==
    /\ n \in up
    /\ Spend("crash")
    /\ up' = up \ {n}
    /\ role' = [role EXCEPT ![n] = "FOLLOWER"]
    /\ known' = [known EXCEPT ![n] = {}]
    /\ tcpOnly' = [tcpOnly EXCEPT ![n] = {}]
    /\ isLeader' = [isLeader EXCEPT ![n] = {}]
    /\ stale' = [stale EXCEPT ![n] = {}]
    /\ composed' = [composed EXCEPT ![n] = {}]
    /\ UNCHANGED msgs

-----------------------------------------------------------------------------
(* The main loop. *)

SendDiscovery(n) ==
    /\ n \in up
    /\ msgs' = msgs \cup DiscoverMsgs(n)
    /\ UNCHANGED <<up, role, tables, composed, spent>>

\* send_heartbeat formats the message from node_state before it takes the mutex.
\* start_election, in the other thread, stores CANDIDATE and then LEADER: a
\* leader read in between reports itself as none.
ComposeHeartbeat(n) ==
    /\ n \in up /\ composed[n] = {}
    /\ Spend("heartbeat")
    /\ \E f \in IF role[n] = "LEADER" THEN {0, 1} ELSE {0} :
          composed' = [composed EXCEPT ![n] = {f}]
    /\ UNCHANGED <<up, role, tables, msgs>>

SendHeartbeat(n) ==
    /\ n \in up
    /\ \E f \in composed[n] :
          msgs' = msgs \cup {Heartbeat(n, r, f) : r \in Reachable(n) \ {n}}
    /\ composed' = [composed EXCEPT ![n] = {}]
    /\ UNCHANGED <<up, role, tables, spent>>

\* The entries start_election sends ELECTION to (with strcmp the wrong way round,
\* the lower ones).
Higher_Descending(n) == {m \in known[n] : m < n}
Higher(n) == {m \in known[n] : m > n}

\* start_election, called with the mutex held; keep is what remains of msgs.
StartElection(n, keep) ==
    IF Higher(n) = {}
    THEN /\ role' = [role EXCEPT ![n] = "LEADER"]
         /\ msgs' = keep \cup Broadcast("COORDINATOR", n)
    ELSE /\ role' = [role EXCEPT ![n] = "CANDIDATE"]
         /\ msgs' = keep \cup {Msg("ELECTION", n, r) : r \in Higher(n) \ tcpOnly[n]}

\* No entry is flagged, or the flagged one has not been seen for too long.
MustElect(n) == /\ role[n] # "LEADER"
                /\ \/ isLeader[n] = {} /\ known[n] # {}
                   \/ isLeader[n] \cap stale[n] # {}

CheckLeaderHealth(n) ==
    /\ n \in up
    /\ MustElect(n)
    /\ StartElection(n, msgs)
    /\ UNCHANGED <<up, tables, composed, spent>>

\* check_peer_endpoints connects to the peer's TCP port without the mutex, then
\* records the answer with it; a connect that fails changes no field in use.
ProbePeer(n, p) ==
    /\ n \in up /\ p \in PeerEndpoints[n]
    /\ \/ /\ p \in known[n]
          /\ stale' = [stale EXCEPT ![n] = @ \ {p}]
          /\ UNCHANGED <<known, tcpOnly>>
       \/ /\ p \notin known[n]
          /\ Room(n)
          /\ known' = [known EXCEPT ![n] = @ \cup {p}]
          /\ tcpOnly' = [tcpOnly EXCEPT ![n] = @ \cup {p}]
          /\ UNCHANGED stale
    /\ UNCHANGED <<up, role, isLeader, composed, msgs, spent>>

\* More than election_timeout_ms passes without a refresh of m's entry.
Expire(n, m) ==
    /\ m \in known[n] \ stale[n]
    /\ Spend("expiry")
    /\ stale' = [stale EXCEPT ![n] = @ \cup {m}]
    /\ UNCHANGED <<up, role, known, tcpOnly, isLeader, composed, msgs>>

-----------------------------------------------------------------------------
(* udp_receiver_thread: process_incoming_udp_messages on one datagram. *)

Receives(m, t) == m \in msgs /\ m.type = t /\ m.to \in up

HandleDiscovery(m) ==
    /\ Receives(m, "DISCOVER")
    /\ msgs' = msgs \ {m}
    /\ LET n == m.to IN
       \/ /\ m.id # n /\ m.id \in known[n]
          /\ stale' = [stale EXCEPT ![n] = @ \ {m.id}]
          /\ UNCHANGED known
       \/ /\ m.id # n /\ m.id \notin known[n]
          /\ Room(n)
          /\ known' = [known EXCEPT ![n] = @ \cup {m.id}]
          /\ UNCHANGED stale
       \/ /\ \/ m.id = n
             \/ m.id \notin known[n] /\ ~Room(n)
          /\ UNCHANGED <<known, stale>>
    /\ UNCHANGED <<up, role, tcpOnly, isLeader, composed, spent>>

\* sscanf(buffer, "HEARTBEAT:%63s:%d", ...): %63s takes everything up to white
\* space, the ":0" or ":1" included, so one field is assigned and never two.
\* "HEARTBEAT:%63[^:]:%d" would assign both.
HeartbeatFields(m) == 1

HandleHeartbeat(m) ==
    /\ Receives(m, "HEARTBEAT")
    /\ msgs' = msgs \ {m}
    /\ LET n == m.to IN
       IF HeartbeatFields(m) = 2 /\ m.id \in known[n]
       THEN /\ stale' = [stale EXCEPT ![n] = @ \ {m.id}]
            /\ isLeader' = [isLeader EXCEPT ![n] =
                               IF m.flag = 1 THEN @ \cup {m.id} ELSE @ \ {m.id}]
       ELSE UNCHANGED <<stale, isLeader>>
    /\ UNCHANGED <<up, role, known, tcpOnly, composed, spent>>

\* A candidate that waits for an answer no message of this protocol carries.
HandleElection_Unfinished(m) ==
    /\ Receives(m, "ELECTION")
    /\ msgs' = msgs \ {m}
    /\ role' = [role EXCEPT ![m.to] = "CANDIDATE"]
    /\ UNCHANGED <<up, tables, composed, spent>>

HandleElection(m) ==
    /\ Receives(m, "ELECTION")
    /\ IF m.to > m.id
       THEN StartElection(m.to, msgs \ {m})
       ELSE msgs' = msgs \ {m} /\ UNCHANGED role
    /\ UNCHANGED <<up, tables, composed, spent>>

HandleCoordinator(m) ==
    /\ Receives(m, "COORDINATOR")
    /\ msgs' = msgs \ {m}
    /\ IF m.id = m.to
       THEN role' = [role EXCEPT ![m.to] = "LEADER"] /\ UNCHANGED isLeader
       ELSE /\ role' = [role EXCEPT ![m.to] = "FOLLOWER"]
            /\ isLeader' = [isLeader EXCEPT ![m.to] = {m.id} \cap known[m.to]]
    /\ UNCHANGED <<up, known, tcpOnly, stale, composed, spent>>

\* UDP may lose a datagram; that it may also delay and reorder them is in
\* msgs being a set.
Lose(m) ==
    /\ m \in msgs
    /\ Spend("loss")
    /\ msgs' = msgs \ {m}
    /\ UNCHANGED <<up, role, tables, composed>>

\* A datagram for a port nobody has bound is dropped.
Drop(m) ==
    /\ m \in msgs /\ m.to \notin up
    /\ msgs' = msgs \ {m}
    /\ UNCHANGED <<up, role, tables, composed, spent>>

Handle(m) ==
    HandleDiscovery(m) \/ HandleHeartbeat(m) \/ HandleElection(m) \/ HandleCoordinator(m)

-----------------------------------------------------------------------------
NodeStep(n) ==
    \/ Start(n) \/ Crash(n)
    \/ SendDiscovery(n) \/ ComposeHeartbeat(n) \/ SendHeartbeat(n)
    \/ CheckLeaderHealth(n)
    \/ \E p \in Node : ProbePeer(n, p) \/ Expire(n, p)

NetworkStep(m) == Handle(m) \/ Lose(m) \/ Drop(m)

Next == (\E n \in Node : NodeStep(n)) \/ (\E m \in msgs : NetworkStep(m))

Spec == Init /\ [][Next]_vars

\* The main loop repeats its timed work for ever, the receiver drains its socket
\* and every socket queue is served in order, so no datagram waits for ever.
\* Nothing is assumed of crashes, losses or clocks.
LoopFairness ==
    /\ \A n \in Node : /\ WF_vars(SendDiscovery(n))
                       /\ WF_vars(CheckLeaderHealth(n))
                       /\ WF_vars(SendHeartbeat(n))
    /\ \A n, r \in Node, t \in MsgType, f \in {0, 1} :
          LET m == [type |-> t, id |-> n, to |-> r, flag |-> f]
          IN  WF_vars(Handle(m) \/ Drop(m))

\* Every process is started, and started again when it ends (docker-compose.yml:
\* restart: unless-stopped).
FairSpec == Spec /\ LoopFairness /\ \A n \in Node : WF_vars(Start(n))

\* Processes may start or stay down as they please.
FailoverSpec == Spec /\ LoopFairness

\* As FairSpec, and the TCP probes of the configured peers succeed.
PeerSpec == FairSpec /\ \A n, p \in Node : WF_vars(ProbePeer(n, p))

-----------------------------------------------------------------------------
(* Properties. *)

\* The variables have their types, and no table outgrows cluster_nodes[] although
\* two threads append to it (handle_discovery_message, check_peer_endpoints).
TypeOK ==
    /\ up \subseteq Node
    /\ role \in [Node -> Role]
    /\ known \in [Node -> SUBSET Node]
    /\ \A n \in Node : IsFiniteSet(known[n]) /\ Cardinality(known[n]) <= MAX_NODES
    /\ tcpOnly \in [Node -> SUBSET Node]
    /\ isLeader \in [Node -> SUBSET Node]
    /\ stale \in [Node -> SUBSET Node]
    /\ composed \in [Node -> SUBSET {0, 1}]
    /\ msgs \subseteq Message
    /\ spent \in [Bounded -> Nat]

\* A node waits as CANDIDATE only while its table holds a higher id: nobody else
\* can be expected to end its election (start_election has no timer).
CandidateKnowsHigher == \A n \in Node : role[n] = "CANDIDATE" => \E m \in known[n] : m > n

\* A node that has met a higher id and does not lead will not take over, whatever
\* the order of the messages.
OutrankedNeverTakesOver ==
    [][\A n \in Node : role[n] # "LEADER" /\ (\E m \in known[n] : m > n)
                          => role'[n] # "LEADER"]_vars

\* The highest node, once leader, leads until its process ends, although every
\* ELECTION it receives makes it stand again.
HighestKeepsLeading ==
    [][\A n \in Node : (\A m \in Node : m <= n) /\ role[n] = "LEADER" /\ n \in up'
                          => role'[n] = "LEADER"]_vars

\* Whatever the order in which nodes start, meet and restart, in the end the
\* highest node leads and no other does (docs/README.md: highest id always wins).
HighestEventuallyLeads ==
    <>[](\A n \in Node : role[n] = "LEADER" <=> \A m \in Node : m <= n)

-----------------------------------------------------------------------------
(* What the documentation says and the code does not do. *)

\* s4_contract.yaml: split_brain_prevention, service_must_not_cause_split_brain.
NoSplitBrain == \A n, m \in Node : role[n] = "LEADER" /\ role[m] = "LEADER" => n = m

\* docs/README.md: new leader elected within 30 seconds.  When one node has failed
\* and all the others run, one of them becomes leader or the failed one returns.
LeaderAfterFailure ==
    \A n \in Node : (spent["crash"] > 0 /\ up = Node \ {n})
                        ~> (n \in up \/ \E l \in up : role[l] = "LEADER")

\* docs/README.md: automatic peer discovery via udp broadcast.  With every process
\* running and no datagram lost, every node comes to know all others, whether a
\* cluster_node line names it or not (init_udp_socket, send_discovery_message).
EverybodyMeets == <>[](\A n, m \in Node : m # n => m \in known[n])

\* docs/services/S4_DISCOVERY.md: a received beacon whose is_leader is set makes
\* its sender the leader.  So does a heartbeat from a node in the table
\* (process_incoming_udp_messages).
LeaderIsRecorded ==
    [][\A m \in msgs : m.flag = 1 /\ m.to \in up /\ m.id \in known[m.to] /\ HandleHeartbeat(m)
                           => m.id \in isLeader'[m.to]]_vars

-----------------------------------------------------------------------------
(* The abstract election of Bully.tla, implemented while broadcasts are refused. *)
Abstract == INSTANCE Bully WITH met <- known

\* Every step of the cluster starts, stops, introduces or elects one node, or
\* leaves all roles alone.
BullyElection == Abstract!Spec

=============================================================================
