--------------------------- MODULE DiscoveryProofs ---------------------------
(***************************************************************************)
(* Theorems about Discovery, for any cluster, configuration and bounds.    *)
(***************************************************************************)
EXTENDS Discovery, FiniteSetTheorems, TLAPS

\* Appending to a table with room keeps it within MAX_NODES entries.
LEMMA AppendFits ==
    ASSUME NEW S, IsFiniteSet(S), Cardinality(S) < MAX_NODES, NEW x
    PROVE  IsFiniteSet(S \cup {x}) /\ Cardinality(S \cup {x}) <= MAX_NODES
<1>1. Cardinality(S) \in Nat /\ MAX_NODES \in Nat
  BY FS_CardinalityType, CapacityAssumption
<1>2. IsFiniteSet(S \cup {x})
  BY FS_AddElement
<1>3. Cardinality(S \cup {x}) = IF x \in S THEN Cardinality(S) ELSE Cardinality(S) + 1
  BY FS_AddElement
<1> QED BY <1>1, <1>2, <1>3

\* Whatever is put on the wire is a message.
LEMMA MessageTypes ==
    ASSUME NEW n \in Node
    PROVE  /\ DiscoverMsgs(n) \subseteq Message
           /\ Broadcast("COORDINATOR", n) \subseteq Message
           /\ \A r \in Node : Msg("ELECTION", n, r) \in Message
           /\ \A r \in Node, f \in {0, 1} : Heartbeat(n, r, f) \in Message
BY ConfigAssumption DEF DiscoverMsgs, Broadcast, Msg, Heartbeat, Message, MsgType

\* start_election, on a typed state, leaves role and msgs typed.
LEMMA ElectionTypes ==
    ASSUME TypeOK, NEW n \in Node, NEW keep \in SUBSET msgs, StartElection(n, keep)
    PROVE  /\ role' = [role EXCEPT ![n] = IF Higher(n) = {} THEN "LEADER" ELSE "CANDIDATE"]
           /\ msgs' \subseteq Message
<1>1. Higher(n) \subseteq Node
  BY DEF TypeOK, Higher
<1>2. keep \subseteq Message
  BY DEF TypeOK
<1> QED BY <1>1, <1>2, MessageTypes DEF StartElection

LEMMA SpendTypes ==
    ASSUME TypeOK, NEW e \in Bounded, Spend(e)
    PROVE  spent' \in [Bounded -> Nat]
BY DEF TypeOK, Spend

\* The variables keep their types and the tables their capacity, in any order of
\* datagrams, probes, crashes and restarts.
THEOREM TypeCorrect == Spec => []TypeOK
<1>1. Init => TypeOK
  BY FS_EmptySet, CapacityAssumption DEF Init, TypeOK, Role, Bounded
<1>2. TypeOK /\ [Next]_vars => TypeOK'
  <2> SUFFICES ASSUME TypeOK, [Next]_vars PROVE TypeOK'
    OBVIOUS
  <2>1. ASSUME NEW n \in Node, Start(n) PROVE TypeOK'
    BY <2>1, MessageTypes DEF TypeOK, Start, tables
  <2>2. ASSUME NEW n \in Node, Crash(n) PROVE TypeOK'
    <3>1. spent' \in [Bounded -> Nat]
      BY <2>2, SpendTypes DEF Crash, Bounded
    <3>2. /\ IsFiniteSet({}) /\ Cardinality({}) <= MAX_NODES
      BY FS_EmptySet, CapacityAssumption
    <3> QED BY <2>2, <3>1, <3>2 DEF TypeOK, Crash, Role
  <2>3. ASSUME NEW n \in Node, SendDiscovery(n) PROVE TypeOK'
    BY <2>3, MessageTypes DEF TypeOK, SendDiscovery, tables
  <2>4. ASSUME NEW n \in Node, ComposeHeartbeat(n) PROVE TypeOK'
    <3>1. spent' \in [Bounded -> Nat]
      BY <2>4, SpendTypes DEF ComposeHeartbeat, Bounded
    <3> QED BY <2>4, <3>1 DEF TypeOK, ComposeHeartbeat, tables
  <2>5. ASSUME NEW n \in Node, SendHeartbeat(n) PROVE TypeOK'
    <3>1. msgs' \subseteq Message
      BY <2>5, MessageTypes DEF TypeOK, SendHeartbeat, Reachable
    <3> QED BY <2>5, <3>1 DEF TypeOK, SendHeartbeat, tables
  <2>6. ASSUME NEW n \in Node, CheckLeaderHealth(n) PROVE TypeOK'
    <3>1. /\ role' \in [Node -> Role]
          /\ msgs' \subseteq Message
      BY <2>6, ElectionTypes DEF CheckLeaderHealth, TypeOK, Role
    <3> QED BY <2>6, <3>1 DEF TypeOK, CheckLeaderHealth, tables
  <2>7. ASSUME NEW n \in Node, NEW p \in Node, ProbePeer(n, p) PROVE TypeOK'
    <3>1. Room(n) => /\ IsFiniteSet(known[n] \cup {p})
                     /\ Cardinality(known[n] \cup {p}) <= MAX_NODES
      BY AppendFits DEF TypeOK, Room
    <3>2. /\ known' \in [Node -> SUBSET Node]
          /\ tcpOnly' \in [Node -> SUBSET Node]
          /\ stale' \in [Node -> SUBSET Node]
      BY <2>7 DEF TypeOK, ProbePeer
    <3>3. \A q \in Node : IsFiniteSet(known'[q]) /\ Cardinality(known'[q]) <= MAX_NODES
      <4>1. CASE p \in known[n]
        BY <2>7, <4>1 DEF TypeOK, ProbePeer
      <4>2. CASE p \notin known[n]
        <5>1. Room(n) /\ known' = [known EXCEPT ![n] = @ \cup {p}]
          BY <2>7, <4>2 DEF ProbePeer
        <5> QED BY <5>1, <3>1 DEF TypeOK
      <4> QED BY <4>1, <4>2
    <3> QED BY <2>7, <3>2, <3>3 DEF TypeOK, ProbePeer
  <2>8. ASSUME NEW n \in Node, NEW m \in Node, Expire(n, m) PROVE TypeOK'
    <3>1. spent' \in [Bounded -> Nat]
      BY <2>8, SpendTypes DEF Expire, Bounded
    <3> QED BY <2>8, <3>1 DEF TypeOK, Expire
  <2>9. ASSUME NEW m \in msgs, HandleDiscovery(m) PROVE TypeOK'
    <3>1. m.to \in Node /\ m.id \in Node
      BY DEF TypeOK, Message
    <3>2. Room(m.to) => /\ IsFiniteSet(known[m.to] \cup {m.id})
                        /\ Cardinality(known[m.to] \cup {m.id}) <= MAX_NODES
      BY <3>1, AppendFits DEF TypeOK, Room
    <3>3. /\ known' \in [Node -> SUBSET Node]
          /\ stale' \in [Node -> SUBSET Node]
          /\ msgs' \subseteq Message
      BY <2>9, <3>1 DEF TypeOK, HandleDiscovery
    <3>4. \A q \in Node : IsFiniteSet(known'[q]) /\ Cardinality(known'[q]) <= MAX_NODES
      <4>1. CASE known' = known
        BY <4>1 DEF TypeOK
      <4>2. CASE known' # known
        <5>1. Room(m.to) /\ known' = [known EXCEPT ![m.to] = @ \cup {m.id}]
          BY <2>9, <4>2 DEF HandleDiscovery
        <5> QED BY <5>1, <3>2 DEF TypeOK
      <4> QED BY <4>1, <4>2
    <3> QED BY <2>9, <3>3, <3>4 DEF TypeOK, HandleDiscovery
  <2>10. ASSUME NEW m \in msgs, HandleHeartbeat(m) PROVE TypeOK'
    BY <2>10 DEF TypeOK, HandleHeartbeat, HeartbeatFields
  <2>11. ASSUME NEW m \in msgs, HandleElection(m) PROVE TypeOK'
    <3>1. m.to \in Node /\ msgs \ {m} \in SUBSET msgs
      BY DEF TypeOK, Message
    <3>2. /\ role' \in [Node -> Role]
          /\ msgs' \subseteq Message
      BY <2>11, <3>1, ElectionTypes DEF HandleElection, TypeOK, Role
    <3> QED BY <2>11, <3>2 DEF TypeOK, HandleElection, tables
  <2>12. ASSUME NEW m \in msgs, HandleCoordinator(m) PROVE TypeOK'
    <3>1. m.to \in Node /\ m.id \in Node
      BY DEF TypeOK, Message
    <3> QED BY <2>12, <3>1 DEF TypeOK, HandleCoordinator, Role
  <2>13. ASSUME NEW m \in msgs, Lose(m) PROVE TypeOK'
    <3>1. spent' \in [Bounded -> Nat]
      BY <2>13, SpendTypes DEF Lose, Bounded
    <3> QED BY <2>13, <3>1 DEF TypeOK, Lose, tables
  <2>14. ASSUME NEW m \in msgs, Drop(m) PROVE TypeOK'
    BY <2>14 DEF TypeOK, Drop, tables
  <2>15. CASE UNCHANGED vars
    BY <2>15 DEF TypeOK, vars, tables
  <2> QED BY <2>1, <2>2, <2>3, <2>4, <2>5, <2>6, <2>7, <2>8, <2>9, <2>10, <2>11,
             <2>12, <2>13, <2>14, <2>15 DEF Next, NodeStep, NetworkStep, Handle
<1> QED BY <1>1, <1>2, PTL DEF Spec

-----------------------------------------------------------------------------
(* The candidates. *)

\* CandidateKnowsHigher is inductive: start_election leaves a candidate only when
\* it found a higher id, and a table loses entries only with its process.
THEOREM CandidatesWaitForSomebody == Spec => []CandidateKnowsHigher
<1>1. Init => CandidateKnowsHigher
  BY DEF Init, CandidateKnowsHigher
<1>2. TypeOK /\ CandidateKnowsHigher /\ [Next]_vars => CandidateKnowsHigher'
  <2> SUFFICES ASSUME TypeOK, CandidateKnowsHigher, [Next]_vars
               PROVE  CandidateKnowsHigher'
    OBVIOUS
  <2>1. ASSUME NEW n \in Node, CheckLeaderHealth(n) PROVE CandidateKnowsHigher'
    <3>1. StartElection(n, msgs) /\ known' = known
      BY <2>1 DEF CheckLeaderHealth, tables
    <3>2. role' = [role EXCEPT ![n] = IF Higher(n) = {} THEN "LEADER" ELSE "CANDIDATE"]
      BY <3>1, ElectionTypes
    <3> QED BY <3>1, <3>2 DEF CandidateKnowsHigher, Higher, TypeOK
  <2>2. ASSUME NEW m \in msgs, HandleElection(m) PROVE CandidateKnowsHigher'
    <3>1. m.to \in Node /\ msgs \ {m} \in SUBSET msgs /\ known' = known
      BY <2>2 DEF TypeOK, Message, HandleElection, tables
    <3>2. CASE UNCHANGED role
      BY <3>1, <3>2 DEF CandidateKnowsHigher
    <3>3. CASE StartElection(m.to, msgs \ {m})
      <4>1. role' = [role EXCEPT ![m.to] =
                        IF Higher(m.to) = {} THEN "LEADER" ELSE "CANDIDATE"]
        BY <3>1, <3>3, ElectionTypes
      <4> QED BY <3>1, <4>1 DEF CandidateKnowsHigher, Higher, TypeOK
    <3> QED BY <2>2, <3>2, <3>3 DEF HandleElection
  <2>3. ASSUME NEW m \in msgs, HandleCoordinator(m) PROVE CandidateKnowsHigher'
    BY <2>3 DEF HandleCoordinator, CandidateKnowsHigher, TypeOK
  <2>4. ASSUME NEW n \in Node, Crash(n) PROVE CandidateKnowsHigher'
    BY <2>4 DEF Crash, CandidateKnowsHigher, TypeOK
  <2>5. CASE UNCHANGED role /\ \A n \in Node : known[n] \subseteq known'[n]
    BY <2>5 DEF CandidateKnowsHigher
  <2>6. ASSUME NEW n \in Node, NEW p \in Node, ProbePeer(n, p)
        PROVE  UNCHANGED role /\ \A q \in Node : known[q] \subseteq known'[q]
    BY <2>6 DEF ProbePeer, TypeOK
  <2>7. ASSUME NEW m \in msgs, HandleDiscovery(m)
        PROVE  UNCHANGED role /\ \A q \in Node : known[q] \subseteq known'[q]
    BY <2>7 DEF HandleDiscovery, TypeOK
  <2>8. ASSUME NEW n \in Node, \/ Start(n) \/ SendDiscovery(n) \/ ComposeHeartbeat(n)
                               \/ SendHeartbeat(n) \/ \E p \in Node : Expire(n, p)
        PROVE  UNCHANGED <<role, known>>
    BY <2>8 DEF Start, SendDiscovery, ComposeHeartbeat, SendHeartbeat, Expire, tables
  <2>9. ASSUME NEW m \in msgs, HandleHeartbeat(m) \/ Lose(m) \/ Drop(m)
        PROVE  UNCHANGED <<role, known>>
    BY <2>9 DEF HandleHeartbeat, Lose, Drop, tables
  <2>10. CASE UNCHANGED vars
    BY <2>5, <2>10 DEF vars, tables
  <2> QED BY <2>1, <2>2, <2>3, <2>4, <2>5, <2>6, <2>7, <2>8, <2>9, <2>10
          DEF Next, NodeStep, NetworkStep, Handle
<1> QED BY <1>1, <1>2, TypeCorrect, PTL DEF Spec

-----------------------------------------------------------------------------
(* Who meets whom: why EverybodyMeets fails. *)

\* A node meets only those that name it in a cluster_node line or that it names
\* in a peer_endpoint line.
MetThroughConfig ==
    ~BroadcastPermitted =>
        \A n \in Node : \A m \in known[n] : n \in KnownNodes[m] \/ m \in PeerEndpoints[n]

\* DISCOVER is on its way only to a node its sender is configured with.
Seeded ==
    ~BroadcastPermitted => \A m \in msgs : m.type = "DISCOVER" => m.to \in KnownNodes[m.id]

\* Every table entry comes from a cluster_node line of the entry's own node or from a
\* peer_endpoint line, as long as the announcement reaches nobody else.
THEOREM NobodyMeetsStrangers == Spec => []MetThroughConfig
<1>1. Init => Seeded /\ MetThroughConfig
  BY DEF Init, Seeded, MetThroughConfig
<1>2. TypeOK /\ Seeded /\ MetThroughConfig /\ [Next]_vars => (Seeded /\ MetThroughConfig)'
  <2> SUFFICES ASSUME TypeOK, Seeded, MetThroughConfig, [Next]_vars, ~BroadcastPermitted
               PROVE  Seeded' /\ MetThroughConfig'
    BY DEF Seeded, MetThroughConfig
  <2> DEFINE Sent(S) == \A m \in S : m.type = "DISCOVER" => m.to \in KnownNodes[m.id]
             Met(n, m) == n \in KnownNodes[m] \/ m \in PeerEndpoints[n]
  <2>1. /\ Sent(msgs)
        /\ \A n \in Node : \A m \in known[n] : Met(n, m)
    BY DEF Seeded, MetThroughConfig
  <2>2. SUFFICES /\ Sent(msgs')
                 /\ \A n \in Node : \A m \in known'[n] : Met(n, m)
    BY DEF Seeded, MetThroughConfig
  <2>3. ASSUME NEW n \in Node, NEW keep \in SUBSET msgs, StartElection(n, keep)
        PROVE  Sent(msgs')
    BY <2>1, <2>3 DEF StartElection, Broadcast, Msg
  <2>4. ASSUME NEW n \in Node, Start(n) \/ SendDiscovery(n)
        PROVE  UNCHANGED known /\ Sent(msgs')
    <3>1. Sent(DiscoverMsgs(n))
      BY DEF DiscoverMsgs, Broadcast, Msg
    <3> QED BY <2>1, <2>4, <3>1 DEF Start, SendDiscovery, tables
  <2>5. ASSUME NEW n \in Node, SendHeartbeat(n) PROVE UNCHANGED known /\ Sent(msgs')
    BY <2>1, <2>5 DEF SendHeartbeat, Heartbeat, tables
  <2>6. ASSUME NEW n \in Node, CheckLeaderHealth(n) PROVE UNCHANGED known /\ Sent(msgs')
    BY <2>3, <2>6 DEF CheckLeaderHealth, tables
  <2>7. ASSUME NEW m \in msgs, HandleElection(m) PROVE UNCHANGED known /\ Sent(msgs')
    <3>1. m.to \in Node /\ msgs \ {m} \in SUBSET msgs
      BY DEF TypeOK, Message
    <3> QED BY <2>1, <2>3, <2>7, <3>1 DEF HandleElection, tables
  <2>8. ASSUME NEW n \in Node, Crash(n)
        PROVE  UNCHANGED msgs /\ \A q \in Node : known'[q] \subseteq known[q]
    BY <2>8 DEF Crash, TypeOK
  <2>9. ASSUME NEW n \in Node, NEW p \in Node, ProbePeer(n, p)
        PROVE  UNCHANGED msgs /\ \A q \in Node : \A r \in known'[q] : Met(q, r)
    BY <2>1, <2>9 DEF ProbePeer, TypeOK
  <2>10. ASSUME NEW m \in msgs, HandleDiscovery(m)
         PROVE  /\ msgs' \subseteq msgs
                /\ \A q \in Node : \A r \in known'[q] : Met(q, r)
    <3>1. /\ m.to \in Node /\ m.to \in KnownNodes[m.id]
      BY <2>1, <2>10 DEF TypeOK, Message, HandleDiscovery, Receives
    <3>2. \A q \in Node : known'[q] \subseteq known[q] \cup (IF q = m.to THEN {m.id} ELSE {})
      BY <2>10, <3>1 DEF HandleDiscovery, TypeOK
    <3> QED BY <2>1, <2>10, <3>1, <3>2 DEF HandleDiscovery
  <2>11. ASSUME NEW n \in Node, ComposeHeartbeat(n) \/ \E p \in Node : Expire(n, p)
         PROVE  UNCHANGED <<known, msgs>>
    BY <2>11 DEF ComposeHeartbeat, Expire, tables
  <2>12. ASSUME NEW m \in msgs, \/ HandleHeartbeat(m) \/ HandleCoordinator(m)
                                \/ Lose(m) \/ Drop(m)
         PROVE  UNCHANGED known /\ msgs' \subseteq msgs
    BY <2>12 DEF HandleHeartbeat, HandleCoordinator, Lose, Drop, tables
  <2>13. CASE UNCHANGED vars
    BY <2>1, <2>13 DEF vars, tables
  <2> QED BY <2>1, <2>4, <2>5, <2>6, <2>7, <2>8, <2>9, <2>10, <2>11, <2>12, <2>13
          DEF Next, NodeStep, NetworkStep, Handle
<1> QED BY <1>1, <1>2, TypeCorrect, PTL DEF Spec

-----------------------------------------------------------------------------
(* The recorded leaders: why LeaderIsRecorded fails. *)

\* No announcement is on the wire and no table flags a leader.
Unannounced ==
    ~BroadcastPermitted => /\ \A m \in msgs : m.type # "COORDINATOR"
                           /\ \A n \in Node : isLeader[n] = {}

\* The only two writers of is_leader are handle_coordinator_message, whose message
\* cannot be in flight, and the heartbeat branch, which is never taken: as the
\* service is built, no node ever records who leads.
THEOREM NobodyRecordsALeader == Spec => []Unannounced
<1>1. Init => Unannounced
  BY DEF Init, Unannounced
<1>2. TypeOK /\ Unannounced /\ [Next]_vars => Unannounced'
  <2> SUFFICES ASSUME TypeOK, Unannounced, [Next]_vars, ~BroadcastPermitted
               PROVE  /\ \A m \in msgs' : m.type # "COORDINATOR"
                      /\ \A n \in Node : isLeader'[n] = {}
    BY DEF Unannounced
  <2>1. /\ \A m \in msgs : m.type # "COORDINATOR"
        /\ \A n \in Node : isLeader[n] = {}
    BY DEF Unannounced
  <2>2. \A n \in Node : /\ \A m \in DiscoverMsgs(n) : m.type = "DISCOVER"
                        /\ Broadcast("COORDINATOR", n) = {}
    BY DEF DiscoverMsgs, Broadcast, Msg
  <2>3. ASSUME NEW n \in Node, NEW keep \in SUBSET msgs, StartElection(n, keep)
        PROVE  \A m \in msgs' : m.type # "COORDINATOR"
    BY <2>1, <2>2, <2>3 DEF StartElection, Msg
  <2>4. ASSUME NEW n \in Node, Start(n) \/ SendDiscovery(n)
        PROVE  UNCHANGED isLeader /\ \A m \in msgs' : m.type # "COORDINATOR"
    BY <2>1, <2>2, <2>4 DEF Start, SendDiscovery, tables
  <2>5. ASSUME NEW n \in Node, SendHeartbeat(n)
        PROVE  UNCHANGED isLeader /\ \A m \in msgs' : m.type # "COORDINATOR"
    BY <2>1, <2>5 DEF SendHeartbeat, Heartbeat, tables
  <2>6. ASSUME NEW n \in Node, CheckLeaderHealth(n)
        PROVE  UNCHANGED isLeader /\ \A m \in msgs' : m.type # "COORDINATOR"
    BY <2>3, <2>6 DEF CheckLeaderHealth, tables
  <2>7. ASSUME NEW m \in msgs, HandleElection(m)
        PROVE  UNCHANGED isLeader /\ \A d \in msgs' : d.type # "COORDINATOR"
    <3>1. m.to \in Node /\ msgs \ {m} \in SUBSET msgs
      BY DEF TypeOK, Message
    <3> QED BY <2>1, <2>3, <2>7, <3>1 DEF HandleElection, tables
  <2>8. ASSUME NEW n \in Node, \/ Crash(n) \/ ComposeHeartbeat(n)
                               \/ \E p \in Node : ProbePeer(n, p) \/ Expire(n, p)
        PROVE  UNCHANGED msgs /\ \A q \in Node : isLeader'[q] = {}
    BY <2>1, <2>8 DEF Crash, ComposeHeartbeat, ProbePeer, Expire, tables, TypeOK
  <2>9. ASSUME NEW m \in msgs, \/ HandleDiscovery(m) \/ HandleHeartbeat(m)
                               \/ Lose(m) \/ Drop(m)
        PROVE  UNCHANGED isLeader /\ msgs' \subseteq msgs
    BY <2>9 DEF HandleDiscovery, HandleHeartbeat, HeartbeatFields, Lose, Drop, tables
  <2>10. ASSUME NEW m \in msgs PROVE ~HandleCoordinator(m)
    BY <2>1 DEF HandleCoordinator, Receives
  <2>11. CASE UNCHANGED vars
    BY <2>1, <2>11 DEF vars, tables
  <2> QED BY <2>1, <2>4, <2>5, <2>6, <2>7, <2>8, <2>9, <2>10, <2>11
          DEF Next, NodeStep, NetworkStep, Handle
<1> QED BY <1>1, <1>2, TypeCorrect, PTL DEF Spec

-----------------------------------------------------------------------------
(* The abstract election. *)

\* start_election is the abstract Stand, whatever it sends.
LEMMA ElectionStands ==
    ASSUME TypeOK, NEW n \in up, NEW keep \in SUBSET msgs,
           StartElection(n, keep), UNCHANGED <<up, known>>
    PROVE  Abstract!Stand(n)
<1>1. n \in Node
  BY DEF TypeOK
<1>2. Higher(n) = {} <=> ~Abstract!Outranked(n)
  BY DEF Higher, Abstract!Outranked
<1> QED BY <1>1, <1>2, ElectionTypes DEF Abstract!Stand

\* Every step of a cluster whose broadcasts are refused is a step of the abstract
\* election, or leaves its variables alone.
LEMMA BullyStep ==
    ASSUME TypeOK, Unannounced, ~BroadcastPermitted, [Next]_vars
    PROVE  [Abstract!Next]_(Abstract!vars)
<1>1. ASSUME NEW n \in Node, Start(n) PROVE Abstract!Next
  BY <1>1 DEF Start, tables, Abstract!Start, Abstract!Next
<1>2. ASSUME NEW n \in Node, Crash(n) PROVE Abstract!Next
  BY <1>2 DEF Crash, Abstract!Stop, Abstract!Next
<1>3. ASSUME NEW n \in Node, CheckLeaderHealth(n) PROVE Abstract!Next
  <2>1. Abstract!Stand(n)
    BY <1>3, ElectionStands DEF CheckLeaderHealth, tables
  <2> QED BY <2>1 DEF Abstract!Next
<1>4. ASSUME NEW n \in Node, NEW p \in Node, ProbePeer(n, p)
      PROVE  [Abstract!Next]_(Abstract!vars)
  <2>1. Abstract!Meet(n, p) \/ UNCHANGED <<up, role, known>>
    BY <1>4 DEF ProbePeer, Abstract!Meet
  <2> QED BY <2>1 DEF Abstract!Next, Abstract!vars
<1>5. ASSUME NEW m \in msgs, HandleDiscovery(m) PROVE [Abstract!Next]_(Abstract!vars)
  <2>1. m.to \in Node /\ m.id \in Node
    BY DEF TypeOK, Message
  <2>2. Abstract!Meet(m.to, m.id) \/ UNCHANGED <<up, role, known>>
    BY <1>5 DEF HandleDiscovery, Receives, Abstract!Meet
  <2> QED BY <2>1, <2>2 DEF Abstract!Next, Abstract!vars
<1>6. ASSUME NEW m \in msgs, HandleElection(m) PROVE [Abstract!Next]_(Abstract!vars)
  <2>1. m.to \in Node /\ m.to \in up /\ msgs \ {m} \in SUBSET msgs
    BY <1>6 DEF TypeOK, Message, HandleElection, Receives
  <2>2. CASE m.to > m.id
    <3>1. StartElection(m.to, msgs \ {m}) /\ UNCHANGED <<up, known>>
      BY <1>6, <2>2 DEF HandleElection, tables
    <3>2. Abstract!Stand(m.to)
      BY <2>1, <3>1, ElectionStands
    <3> QED BY <2>1, <3>2 DEF Abstract!Next
  <2>3. CASE ~(m.to > m.id)
    BY <1>6, <2>3 DEF HandleElection, tables, Abstract!vars
  <2> QED BY <2>2, <2>3
<1>7. ASSUME NEW m \in msgs PROVE ~HandleCoordinator(m)
  BY DEF Unannounced, HandleCoordinator, Receives
<1>8. ASSUME NEW n \in Node, \/ SendDiscovery(n) \/ ComposeHeartbeat(n) \/ SendHeartbeat(n)
                             \/ \E p \in Node : Expire(n, p)
      PROVE  UNCHANGED <<up, role, known>>
  BY <1>8 DEF SendDiscovery, ComposeHeartbeat, SendHeartbeat, Expire, tables
<1>9. ASSUME NEW m \in msgs, HandleHeartbeat(m) \/ Lose(m) \/ Drop(m)
      PROVE  UNCHANGED <<up, role, known>>
  BY <1>9 DEF HandleHeartbeat, Lose, Drop, tables
<1>10. CASE UNCHANGED vars
  BY <1>10 DEF vars, tables, Abstract!vars
<1>11. CASE UNCHANGED <<up, role, known>>
  BY <1>11 DEF Abstract!vars
<1> QED BY <1>1, <1>2, <1>3, <1>4, <1>5, <1>6, <1>7, <1>8, <1>9, <1>10, <1>11
        DEF Next, NodeStep, NetworkStep, Handle

\* The cluster implements the abstract election while broadcasts are refused.
THEOREM ImplementsBully == ASSUME ~BroadcastPermitted PROVE Spec => BullyElection
<1>1. Init => Abstract!Init
  BY DEF Init, Abstract!Init
<1>2. TypeOK /\ Unannounced /\ [Next]_vars => [Abstract!Next]_(Abstract!vars)
  BY BullyStep
<1> QED BY <1>1, <1>2, TypeCorrect, NobodyRecordsALeader, PTL
        DEF Spec, BullyElection, Abstract!Spec

\* No step takes a node that has met a higher one to LEADER: only Stand changes a
\* running node's role, and it looks at the whole table.
THEOREM OutrankedStaysDown == ASSUME ~BroadcastPermitted PROVE Spec => OutrankedNeverTakesOver
<1> DEFINE Held == \A n \in Node : role[n] # "LEADER" /\ (\E m \in known[n] : m > n)
                                      => role'[n] # "LEADER"
<1>1. TypeOK /\ Unannounced /\ [Next]_vars => Held
  <2> SUFFICES ASSUME TypeOK, Unannounced, [Next]_vars PROVE Held
    OBVIOUS
  <2>1. [Abstract!Next]_(Abstract!vars)
    BY BullyStep
  <2> QED BY <2>1 DEF TypeOK, Abstract!vars, Abstract!Next, Abstract!Start, Abstract!Stop,
                      Abstract!Meet, Abstract!Stand, Abstract!Outranked
<1>2. TypeOK /\ Unannounced /\ [Next]_vars => [Held]_vars
  BY <1>1
<1> QED BY <1>2, TypeCorrect, NobodyRecordsALeader, PTL DEF Spec, OutrankedNeverTakesOver

\* The highest node's table never holds a higher one, so each election it stands
\* in confirms it.
THEOREM HighestStaysLeader == ASSUME ~BroadcastPermitted PROVE Spec => HighestKeepsLeading
<1> DEFINE Kept == \A n \in Node : (\A m \in Node : m <= n) /\ role[n] = "LEADER" /\ n \in up'
                                      => role'[n] = "LEADER"
<1>1. TypeOK /\ Unannounced /\ [Next]_vars => Kept
  <2> SUFFICES ASSUME TypeOK, Unannounced, [Next]_vars,
                      NEW n \in Node, \A m \in Node : m <= n, role[n] = "LEADER", n \in up'
               PROVE  role'[n] = "LEADER"
    OBVIOUS
  <2>1. [Abstract!Next]_(Abstract!vars)
    BY BullyStep
  <2>2. ~Abstract!Outranked(n)
    BY NodeAssumption DEF TypeOK, Abstract!Outranked
  <2> QED BY <2>1, <2>2 DEF TypeOK, Abstract!vars, Abstract!Next, Abstract!Start,
                            Abstract!Stop, Abstract!Meet, Abstract!Stand
<1>2. TypeOK /\ Unannounced /\ [Next]_vars => [Kept]_vars
  BY <1>1
<1> QED BY <1>2, TypeCorrect, NobodyRecordsALeader, PTL DEF Spec, HighestKeepsLeading

=============================================================================
