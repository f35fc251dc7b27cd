------------------------- MODULE RaftElectionProofs -------------------------
(***************************************************************************)
(* Proofs, for any finite set of peers and any bounds, that Raft           *)
(* implements Election, and what Election promises for Raft.               *)
(***************************************************************************)
EXTENDS RaftElection, RaftProofs

EP == INSTANCE ElectionProofs WITH role <- status, choice <- vote_for, view <- peers, led <- EverLed

\* Only a won campaign makes a peer one that has led, and nothing unmakes it.
LEMMA LedGrows ==
  ASSUME IInv, [Next]_vars
  PROVE  /\ EverLed \subseteq EverLed'
         /\ ~(\E i \in Peers : Win(i)) => lead' = lead
<1>1. ASSUME NEW i \in Peers, EndCampaign(i) PROVE Win(i) \/ lead' = lead
  BY <1>1 DEF EndCampaign, Lose
<1>2. ASSUME NEW i \in Peers, Win(i) PROVE EverLed \subseteq EverLed'
  <2>1. \A k \in Peers : lead[k].commit = 0 => lead'[k].commit = 0
    BY <1>2 DEF Win, LogSize, IInv, TypeOK
  <2> QED  BY <2>1 DEF EverLed
<1>3. (\E i \in Peers : Win(i)) \/ lead' = lead
  BY <1>1 DEF Next, Daemon, Boot, Leave, BecomeCandidate, Expel, StartCampaign, VoteReturns,
     StartHeartbeats, AppendReturns, EndHeartbeats, Invoke, RpcError, Serve, Kill, KillJoined,
     ServeLate, Tick, vars
<1> QED  BY <1>2, <1>3 DEF EverLed

\* A heartbeat that is on its way, in time or late, comes from a peer that has led.
LEMMA AppenderStep == IInv /\ AppendersLed /\ [Next]_vars => AppendersLed'
<1> SUFFICES ASSUME IInv, AppendersLed, [Next]_vars PROVE AppendersLed'
  OBVIOUS
<1>1. EverLed \subseteq EverLed'
  BY LedGrows
<1>2. ASSUME NEW i \in Peers, RpcError(i) PROVE AppendersLed'
  <2>1. call[i].stage # "idle" /\ call[i].req.kind = "append" => call[i].req.from \in EverLed
    BY DEF IInv, LoopConsistent, LeadConsistent, EverLed
  <2>2. \A s \in Slots : late'[s] = late[s] \/ (call[i].stage # "idle" /\ late'[s] = call[i].req)
    BY <1>2 DEF RpcError, IInv, TypeOK
  <2> QED  BY <1>1, <2>1, <2>2 DEF AppendersLed
<1>3. ASSUME NEW i \in Peers, KillJoined(i) PROVE AppendersLed'
  BY <1>1, <1>3 DEF KillJoined, AppendersLed
<1>4. ASSUME NEW s \in Slots, ServeLate(s) PROVE AppendersLed'
  BY <1>1, <1>4 DEF ServeLate, AppendersLed, IInv, TypeOK
<1>5. ASSUME late' = late PROVE AppendersLed'
  BY <1>1, <1>5 DEF AppendersLed
<1> QED  BY <1>2, <1>3, <1>4, <1>5 DEF Next, Daemon, Boot, Leave, BecomeCandidate, Expel,
     StartCampaign, VoteReturns, EndCampaign, StartHeartbeats, AppendReturns, EndHeartbeats,
     Invoke, Serve, Kill, Tick, vars

\* A handled request is a vote, a step down in favour of a peer that has led, or nothing.
LEMMA HandleImplements ==
  ASSUME IInv, NEW r \in Requests, Handle(r), r.from # r.to,
         r.kind = "append" => r.from \in EverLed, peers' = peers, EverLed' = EverLed
  PROVE  E!Next \/ UNCHANGED E!vars
<1>1. r.to \in Peers /\ r.from \in Peers
  BY DEF Requests
<1>2. CASE Vote(r.to, r)
  <2>1. CASE Grants(r.to)
    <3>1. E!Free(r.to)
      BY <1>1, <2>1 DEF Grants, E!Free, IInv, TypeOK, Statuses, Handle
    <3>2. E!Grant(r.to, r.from)
      BY <1>2, <2>1, <3>1 DEF Vote, E!Grant
    <3> QED  BY <1>1, <3>2 DEF E!Next
  <2>2. CASE ~Grants(r.to)
    BY <1>2, <2>2 DEF Vote, E!vars
  <2> QED  BY <2>1, <2>2
<1>3. CASE r.kind = "append" /\ AppendMsg(r.to, r)
  <2>1. CASE Accepts(r.to, r) /\ StepsDown(r.to)
    <3>1. E!Follow(r.to, r.from)
      BY <1>1, <1>3, <2>1 DEF AppendMsg, StepsDown, E!Follow
    <3> QED  BY <1>1, <3>1 DEF E!Next
  <2>2. CASE ~(Accepts(r.to, r) /\ StepsDown(r.to))
    BY <1>3, <2>2 DEF AppendMsg, E!vars
  <2> QED  BY <2>1, <2>2
<1> QED  BY <1>2, <1>3 DEF Handle

\* A campaign ends with an election that the promises of its voters justify, or is lost.
LEMMA EndCampaignImplements ==
  ASSUME IInv, NEW i \in Peers, EndCampaign(i)
  PROVE  E!Next
<1>1. status[i] = "CANDIDATE" /\ vote_for[i] = i /\ votes[i] \in SUBSET (Peers \ {i})
  BY DEF EndCampaign, IInv, LoopConsistent, VoteBinds, TypeOK
<1>2. CASE Win(i)
  <2>1. E!Majority(votes[i], i)
    BY <1>2 DEF Win, HasMajority, E!Majority, Cardinality, E!Cardinality
  <2>2. \A j \in votes[i] : E!StandsBy(j, i)
    BY DEF EndCampaign, IInv, VoteBinds, StandsBy, E!StandsBy
  <2>3. EverLed' = EverLed \cup {i}
    BY <1>2 DEF Win, LogSize, EverLed, IInv, TypeOK
  <2>4. status' = [status EXCEPT ![i] = "LEADER"] /\ UNCHANGED <<vote_for, peers>>
    BY <1>2 DEF EndCampaign, Win, members
  <2>5. E!Elect(i)
    BY <1>1, <2>1, <2>2, <2>3, <2>4 DEF E!Elect
  <2> QED  BY <2>5 DEF E!Next
<1>3. CASE Lose(i)
  <2>1. E!Lose(i)
    BY <1>1, <1>3 DEF EndCampaign, Lose, Unvoted, E!Lose, EverLed, members
  <2> QED  BY <2>1 DEF E!Next
<1> QED  BY <1>2, <1>3 DEF EndCampaign

\* Every step of Raft is a step of Election or leaves it alone.
LEMMA StepImplements ==
  IInv /\ AppendersLed /\ [Next]_vars => [E!Next]_(E!vars)
<1> SUFFICES ASSUME IInv, AppendersLed, [Next]_vars PROVE E!Next \/ UNCHANGED E!vars
  OBVIOUS
<1>1. ASSUME NEW i \in Peers, BecomeCandidate(i) PROVE E!Next
  <2>1. E!Stand(i)
    BY <1>1 DEF BecomeCandidate, OutOfPatience, E!Stand, EverLed, members
  <2> QED  BY <2>1 DEF E!Next
<1>2. ASSUME NEW i \in Peers, Expel(i) PROVE E!Next
  <2>1. E!Expel(i)
    BY <1>2 DEF Expel, Forget, OutOfPatience, E!Expel, EverLed
  <2> QED  BY <2>1 DEF E!Next
<1>3. ASSUME NEW i \in Peers, StartCampaign(i) PROVE E!Next
  <2>1. E!Nominate(i)
    BY <1>3 DEF StartCampaign, E!Nominate, EverLed, members
  <2> QED  BY <2>1 DEF E!Next
<1>4. ASSUME NEW i \in Peers, AppendReturns(i) PROVE E!Next \/ UNCHANGED E!vars
  <2>1. status[i] = "LEADER"
    BY <1>4 DEF AppendReturns, IInv, LoopConsistent
  <2>2. E!Retire(i) \/ UNCHANGED E!vars
    BY <1>4, <2>1 DEF AppendReturns, E!Retire, E!vars, EverLed, members
  <2> QED  BY <2>2 DEF E!Next
<1>5. ASSUME NEW i \in Peers, KillJoined(i) PROVE E!Next
  <2>1. E!Die(i)
    BY <1>5 DEF KillJoined, E!Die, EverLed, members
  <2> QED  BY <2>1 DEF E!Next
<1>6. ASSUME NEW i \in Peers, Serve(i) PROVE E!Next \/ UNCHANGED E!vars
  <2>1. /\ call[i].req \in Requests /\ call[i].req.from # call[i].req.to
        /\ call[i].req.kind = "append" => call[i].req.from \in EverLed
    BY <1>6 DEF Serve, IInv, LoopConsistent, LeadConsistent, EverLed
  <2>2. Handle(call[i].req) /\ peers' = peers /\ EverLed' = EverLed
    BY <1>6 DEF Serve, EverLed, members
  <2> QED  BY <2>1, <2>2, HandleImplements
<1>7. ASSUME NEW s \in Slots, ServeLate(s) PROVE E!Next \/ UNCHANGED E!vars
  <2>1. /\ late[s] \in Requests /\ late[s].from # late[s].to
        /\ late[s].kind = "append" => late[s].from \in EverLed
    BY <1>7 DEF ServeLate, IInv, TypeOK, LeadConsistent, AppendersLed
  <2>2. Handle(late[s]) /\ peers' = peers /\ EverLed' = EverLed
    BY <1>7 DEF ServeLate, EverLed, members
  <2> QED  BY <2>1, <2>2, HandleImplements
<1>8. ASSUME UNCHANGED <<status, vote_for, peers, lead>> PROVE UNCHANGED E!vars
  BY <1>8 DEF E!vars, EverLed
<1> QED  BY <1>1, <1>2, <1>3, <1>4, <1>5, <1>6, <1>7, <1>8, EndCampaignImplements
         DEF Next, Daemon, Boot, Leave, VoteReturns, StartHeartbeats, EndHeartbeats, Invoke,
             RpcError, Kill, Tick, vars, node, members

\* Both invariants together.
LEMMA Strengthened == Spec => [](IInv /\ AppendersLed)
<1>1. Init => AppendersLed
  BY DEF Init, AppendersLed
<1> QED  BY Inductive, <1>1, AppenderStep, PTL DEF Spec

\* Raft implements Election: calls that are lost, late or refused, timeouts and kills
\* never make daemons and handlers do what an election does not allow.
THEOREM RaftImplementsElection == Spec => ImplementsElection
<1>1. Init => E!Init
  BY DEF Init, E!Init, EverLed, Unset
<1> QED  BY <1>1, StepImplements, Strengthened, PTL DEF Spec, E!Spec, ImplementsElection

\* Until somebody is expelled at most one peer of a Raft cluster has ever led.
THEOREM OneRaftLeaderEver == Spec => []OneRaftLeads
<1>0. EP!Electorate
  BY PeersAssumption DEF EP!Electorate, IsFiniteSet, EP!IsFiniteSet
<1>1. EP!Spec => []EP!OneEverLeads
  BY <1>0, EP!OneLeaderEver, PTL
<1>2. E!Init => EP!Init
  BY DEF E!Init, EP!Init
<1>3. [E!Next]_(E!vars) => [EP!Next]_(EP!vars)
  <2>1. \A i \in Peers : /\ E!Stand(i) => EP!Stand(i)
                         /\ E!Nominate(i) => EP!Nominate(i)
                         /\ E!Lose(i) => EP!Lose(i)
                         /\ E!Retire(i) => EP!Retire(i)
                         /\ E!Expel(i) => EP!Expel(i)
                         /\ E!Die(i) => EP!Die(i)
    BY DEF E!Stand, E!Nominate, E!Lose, E!Retire, E!Expel, E!Die,
           EP!Stand, EP!Nominate, EP!Lose, EP!Retire, EP!Expel, EP!Die
  <2>2. \A i, j \in Peers : (E!Grant(j, i) => EP!Grant(j, i)) /\ (E!Follow(j, i) => EP!Follow(j, i))
    BY DEF E!Grant, EP!Grant, E!Free, EP!Free, E!Follow, EP!Follow
  <2>3. \A S, i : E!Majority(S, i) => EP!Majority(S, i)
    BY DEF E!Majority, EP!Majority, E!Cardinality, EP!Cardinality, E!IsFiniteSet, EP!IsFiniteSet
  <2>4. \A i \in Peers : E!Elect(i) => EP!Elect(i)
    BY <2>3 DEF E!Elect, EP!Elect, E!StandsBy, EP!StandsBy
  <2> QED  BY <2>1, <2>2, <2>4 DEF E!Next, EP!Next, E!vars, EP!vars
<1>4. EP!OneEverLeads => OneRaftLeads
  BY DEF OneRaftLeads, E!OneEverLeads, EP!OneEverLeads, E!Intact, EP!Intact
<1> QED  BY <1>1, <1>2, <1>3, <1>4, RaftImplementsElection, PTL
         DEF ImplementsElection, E!Spec, EP!Spec
=============================================================================
