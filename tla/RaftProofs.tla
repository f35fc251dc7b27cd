----------------------------- MODULE RaftProofs -----------------------------
(***************************************************************************)
(* Proofs, for any finite set of peers and any bounds, that IInv is an     *)
(* inductive invariant of Raft, and of what follows from it.               *)
(***************************************************************************)
EXTENDS RaftLemmas, FiniteSetTheorems

(***************************************************************************)
(* Votes.                                                                  *)
(***************************************************************************)

\* Every step keeps the leader's indexes and the reasons for a self-vote in order.
LEMMA LeadStep == IInv /\ [Next]_vars => LeadConsistent'
<1> SUFFICES ASSUME IInv, [Next]_vars PROVE LeadConsistent'
  OBVIOUS
<1>0. TypeOK /\ LoopConsistent /\ LeadConsistent
  BY DEF IInv
<1> USE <1>0, PeersAssumption
<1>1. ASSUME NEW i \in Peers, Boot(i) PROVE LeadConsistent'
  BY <1>1 DEF Boot, LeadConsistent, node
<1>2. ASSUME NEW i \in Peers, Leave(i) PROVE LeadConsistent'
  BY <1>2 DEF Leave, LeadConsistent, node, members
<1>3. ASSUME NEW i \in Peers, BecomeCandidate(i) PROVE LeadConsistent'
  BY <1>3 DEF BecomeCandidate, LeadConsistent, TypeOK, members
<1>4. ASSUME NEW i \in Peers, Expel(i) PROVE LeadConsistent'
  BY <1>4 DEF Expel, Forget, OutOfPatience, LeadConsistent, TypeOK
<1>5. ASSUME NEW i \in Peers, StartCampaign(i) PROVE LeadConsistent'
  BY <1>5 DEF StartCampaign, LeadConsistent, TypeOK, members
<1>6. ASSUME NEW i \in Peers, VoteReturns(i) PROVE LeadConsistent'
  BY <1>6 DEF VoteReturns, LeadConsistent, node, members
<1>7. ASSUME NEW i \in Peers, EndCampaign(i) PROVE LeadConsistent'
  <2>1. CASE Win(i)
    <3>1. lead'[i].commit = 0 /\ \A k \in Peers \ {i} : lead'[k] = lead[k]
      BY <2>1 DEF Win, LogSize, TypeOK
    <3> QED  BY <1>7, <2>1, <3>1 DEF EndCampaign, Win, LeadConsistent, TypeOK, members
  <2>2. CASE Lose(i)
    BY <1>7, <2>2 DEF EndCampaign, Lose, Unvoted, LeadConsistent, TypeOK, members
  <2> QED  BY <1>7, <2>1, <2>2 DEF EndCampaign
<1>8. ASSUME NEW i \in Peers, StartHeartbeats(i) PROVE LeadConsistent'
  BY <1>8 DEF StartHeartbeats, LeadConsistent, node, members
<1>9. ASSUME NEW i \in Peers, AppendReturns(i) PROVE LeadConsistent'
  BY <1>9 DEF AppendReturns, loop, LeadConsistent, LoopConsistent, TypeOK, members
<1>10. ASSUME NEW i \in Peers, EndHeartbeats(i) PROVE LeadConsistent'
  BY <1>10 DEF EndHeartbeats, LeadConsistent, node, members
<1>11. ASSUME NEW i \in Peers, NEW p \in Peers, Invoke(i, p) PROVE LeadConsistent'
  BY <1>11 DEF Invoke, LeadConsistent, node, members
<1>12. ASSUME NEW i \in Peers, RpcError(i) PROVE LeadConsistent'
  <2>1. call[i].stage # "idle" => call[i].req.from # call[i].req.to
    BY DEF LoopConsistent
  <2>2. \A s \in Slots : late'[s] # NoRequest => late'[s].from # late'[s].to
    BY <1>12, <2>1 DEF RpcError, LeadConsistent, TypeOK
  <2> QED  BY <1>12, <2>2 DEF RpcError, LeadConsistent, node, members
<1>13. ASSUME NEW r \in Requests, Handle(r), r.from # r.to, UNCHANGED <<members, lead>>
       PROVE  \A i \in Peers :
                /\ status'[i] = "LEADER" => lead'[i].commit = 0
                /\ status'[i] = "FOLLOWER" /\ vote_for'[i] = i => lead'[i].commit = 0
                /\ i \notin peers'[i] => lead'[i].commit = 0
  <2>1. r.to \in Peers
    BY <1>13 DEF Requests
  <2>2. status'[r.to] = "FOLLOWER" /\ vote_for'[r.to] = r.to => lead[r.to].commit = 0
    <3>1. CASE Vote(r.to, r)
      BY <1>13, <2>1, <3>1 DEF Vote, LeadConsistent, TypeOK
    <3>2. CASE AppendMsg(r.to, r)
      BY <1>13, <2>1, <3>2 DEF AppendMsg, StepsDown, LeadConsistent, TypeOK
    <3> QED  BY <1>13, <3>1, <3>2 DEF Handle
  <2> QED  BY <1>13, <2>1, <2>2, HandleFrame DEF LeadConsistent, members
<1>14. ASSUME NEW i \in Peers, Serve(i) PROVE LeadConsistent'
  <2>1. call[i].req \in Requests /\ call[i].req.from # call[i].req.to
    BY <1>14 DEF Serve, LoopConsistent
  <2>2. Handle(call[i].req) /\ UNCHANGED <<members, lead, late>>
    BY <1>14 DEF Serve
  <2> QED  BY <1>13, <2>1, <2>2 DEF LeadConsistent
<1>15. ASSUME NEW s \in Slots, ServeLate(s) PROVE LeadConsistent'
  <2>1. late[s] \in Requests /\ late[s].from # late[s].to
    BY <1>15 DEF ServeLate, LeadConsistent, TypeOK
  <2>2. Handle(late[s]) /\ UNCHANGED <<members, lead>>
    BY <1>15 DEF ServeLate
  <2>3. \A t \in Slots : late'[t] = late[t] \/ late'[t] = NoRequest
    BY <1>15 DEF ServeLate, TypeOK
  <2> QED  BY <1>13, <2>1, <2>2, <2>3 DEF LeadConsistent
<1>16. ASSUME Tick PROVE LeadConsistent'
  BY <1>16 DEF Tick, LeadConsistent, members
<1>17. ASSUME NEW i \in Peers, Kill(i) PROVE LeadConsistent'
  BY <1>17 DEF Kill, LeadConsistent, node, members
<1>18. ASSUME NEW i \in Peers, KillJoined(i) PROVE LeadConsistent'
  BY <1>18 DEF KillJoined, LeadConsistent, TypeOK, members
<1>19. CASE UNCHANGED vars
  BY <1>19 DEF LeadConsistent, vars
<1> QED  BY <1>1, <1>2, <1>3, <1>4, <1>5, <1>6, <1>7, <1>8, <1>9, <1>10, <1>11, <1>12,
            <1>14, <1>15, <1>16, <1>17, <1>18, <1>19 DEF Next, Daemon

\* Every step keeps the votes binding.
LEMMA VoteStep == IInv /\ [Next]_vars => VoteBinds'
<1> SUFFICES ASSUME IInv, [Next]_vars PROVE VoteBinds'
  OBVIOUS
<1>0. TypeOK /\ LoopConsistent /\ VoteBinds
  BY DEF IInv
<1> USE <1>0, PeersAssumption DEF StandsBy, HasMajority
<1>1. ASSUME NEW i \in Peers, Boot(i) PROVE VoteBinds'
  BY <1>1 DEF Boot, VoteBinds, TypeOK, node
<1>2. ASSUME NEW i \in Peers, Leave(i) PROVE VoteBinds'
  BY <1>2 DEF Leave, VoteBinds, TypeOK, node, members
<1>3. ASSUME NEW i \in Peers, BecomeCandidate(i) PROVE VoteBinds'
  BY <1>3 DEF BecomeCandidate, OutOfPatience, Iterates, VoteBinds, LoopConsistent, TypeOK, members, loop
<1>4. ASSUME NEW i \in Peers, Expel(i) PROVE VoteBinds'
  BY <1>4 DEF Expel, Forget, OutOfPatience, Iterates, VoteBinds, LoopConsistent, TypeOK, loop
<1>5. ASSUME NEW i \in Peers, StartCampaign(i) PROVE VoteBinds'
  BY <1>5 DEF StartCampaign, Iterates, VoteBinds, LoopConsistent, HoldsLock, TypeOK, members
<1>6. ASSUME NEW i \in Peers, VoteReturns(i) PROVE VoteBinds'
  BY <1>6 DEF VoteReturns, Idle, VoteBinds, LoopConsistent, TypeOK, node, members
<1>7. ASSUME NEW i \in Peers, EndCampaign(i) PROVE VoteBinds'
  <2>1. CASE Win(i)
    BY <1>7, <2>1 DEF EndCampaign, Win, VoteBinds, LoopConsistent, TypeOK, members
  <2>2. CASE Lose(i)
    BY <1>7, <2>2 DEF EndCampaign, Lose, VoteBinds, LoopConsistent, TypeOK, members
  <2> QED  BY <1>7, <2>1, <2>2 DEF EndCampaign
<1>8. ASSUME NEW i \in Peers, StartHeartbeats(i) PROVE VoteBinds'
  BY <1>8 DEF StartHeartbeats, Iterates, VoteBinds, TypeOK, node, members
<1>9. ASSUME NEW i \in Peers, AppendReturns(i) PROVE VoteBinds'
  BY <1>9 DEF AppendReturns, loop, Idle, VoteBinds, LoopConsistent, TypeOK, members
<1>10. ASSUME NEW i \in Peers, EndHeartbeats(i) PROVE VoteBinds'
  BY <1>10 DEF EndHeartbeats, VoteBinds, TypeOK, node, members
<1>11. ASSUME NEW i \in Peers, NEW p \in Peers, Invoke(i, p) PROVE VoteBinds'
  BY <1>11 DEF Invoke, VoteBinds, TypeOK, Calls, node, members
<1>12. ASSUME NEW i \in Peers, RpcError(i) PROVE VoteBinds'
  BY <1>12 DEF RpcError, Idle, VoteBinds, TypeOK, node, members, loop
<1>13. ASSUME NEW i \in Peers, Serve(i) PROVE VoteBinds'
  <2>1. call[i].req \in Requests /\ call[i].req.from = i /\ call[i].req.kind = pc[i]
    BY <1>13 DEF Serve, LoopConsistent
  <2>2. Handle(call[i].req)
    BY <1>13 DEF Serve
  <2>3. /\ call'[i].stage = "replied" /\ call'[i].req = call[i].req
        /\ call'[i].ok = ReplyOk(call[i].req)
        /\ \A k \in Peers \ {i} : call'[k] = call[k]
    BY <1>13 DEF Serve, TypeOK, Calls
  <2>4. UNCHANGED <<members, loop>>
    BY <1>13 DEF Serve
  <2>5. pc[i] = "vote" /\ call'[i].ok =>
          vote_for'[call[i].req.to] = i /\ status'[call[i].req.to] = "FOLLOWER"
    <3> SUFFICES ASSUME pc[i] = "vote", call'[i].ok
                 PROVE  vote_for'[call[i].req.to] = i /\ status'[call[i].req.to] = "FOLLOWER"
      OBVIOUS
    <3>1. Grants(call[i].req.to) /\ call[i].req.to \in Peers
      BY <2>1, <2>3 DEF ReplyOk, Requests
    <3>2. Vote(call[i].req.to, call[i].req) /\ status[call[i].req.to] # "DEAD"
      BY <2>1, <2>2 DEF Handle
    <3> QED  BY <2>1, <3>1, <3>2 DEF Vote, Grants, TypeOK, Statuses
  <2>6. \A k, j \in Peers : StandsBy(j, k) => StandsBy(j, k)'
    BY <2>1, <2>2, <2>4, HandleStands DEF members
  <2>7. pc[i] = "vote" /\ call'[i].ok => StandsBy(call[i].req.to, i)'
    BY <2>3, <2>5
  <2> HIDE DEF StandsBy
  <2>8. \A k \in Peers : status'[k] = "LEADER" => status[k] = "LEADER"
    BY <2>1, <2>2, HandleFrame
  <2>9. \A k \in Peers : call[k].stage # "idle" => call[k].req.to \in Peers
    BY DEF LoopConsistent, TypeOK
  <2> QED  BY <2>3, <2>4, <2>6, <2>7, <2>8, <2>9 DEF VoteBinds, TypeOK, members, loop
<1>14. ASSUME NEW s \in Slots, ServeLate(s) PROVE VoteBinds'
  <2>1. late[s] \in Requests
    BY <1>14 DEF ServeLate, TypeOK
  <2>2. Handle(late[s])
    BY <1>14 DEF ServeLate
  <2>3. UNCHANGED <<members, loop, call>>
    BY <1>14 DEF ServeLate
  <2>4. \A k, j \in Peers : StandsBy(j, k) => StandsBy(j, k)'
    BY <2>1, <2>2, <2>3, HandleStands DEF members
  <2> HIDE DEF StandsBy
  <2>5. \A k \in Peers : status'[k] = "LEADER" => status[k] = "LEADER"
    BY <2>1, <2>2, HandleFrame
  <2>6. \A k \in Peers : call[k].stage # "idle" => call[k].req.to \in Peers
    BY DEF LoopConsistent, TypeOK
  <2> QED  BY <2>3, <2>4, <2>5, <2>6 DEF VoteBinds, TypeOK, members, loop
<1>15. ASSUME Tick PROVE VoteBinds'
  BY <1>15 DEF Tick, VoteBinds, members, loop
<1>16. ASSUME NEW i \in Peers, Kill(i) PROVE VoteBinds'
  BY <1>16 DEF Kill, VoteBinds, node, members, loop
<1>17. ASSUME NEW i \in Peers, KillJoined(i) PROVE VoteBinds'
  BY <1>17 DEF KillJoined, VoteBinds, TypeOK, members, loop
<1>18. CASE UNCHANGED vars
  BY <1>18 DEF VoteBinds, vars
<1> QED  BY <1>1, <1>2, <1>3, <1>4, <1>5, <1>6, <1>7, <1>8, <1>9, <1>10, <1>11, <1>12,
            <1>13, <1>14, <1>15, <1>16, <1>17, <1>18 DEF Next, Daemon

(***************************************************************************)
(* Terms.                                                                  *)
(***************************************************************************)

\* Every step keeps the terms small and the refusals honest.
LEMMA TermStep == IInv /\ [Next]_vars => TermsAgree'
<1> SUFFICES ASSUME IInv, [Next]_vars PROVE TermsAgree'
  OBVIOUS
<1>0. TypeOK /\ LoopConsistent /\ TermsAgree /\ 0 \in SmallTerms
  BY MaxTermAssumption DEF IInv, SmallTerms
<1> USE <1>0 DEF HoldsLock
<1>1. ASSUME NEW i \in Peers, Boot(i) PROVE TermsAgree'
  BY <1>1 DEF Boot, TermsAgree, TypeOK, node
<1>2. ASSUME NEW i \in Peers, Leave(i) PROVE TermsAgree'
  BY <1>2 DEF Leave, TermsAgree, TypeOK, node
<1>3. ASSUME NEW i \in Peers, BecomeCandidate(i) PROVE TermsAgree'
  BY <1>3 DEF BecomeCandidate, TermsAgree, TypeOK, loop
<1>4. ASSUME NEW i \in Peers, Expel(i) PROVE TermsAgree'
  BY <1>4 DEF Expel, TermsAgree, loop
<1>5. ASSUME NEW i \in Peers, StartCampaign(i) PROVE TermsAgree'
  <2>1. NextTerm(term[i]) \in 0 .. MaxTerm
    BY <1>5, WidthAssumption, MaxTermAssumption DEF StartCampaign, NextTerm, Terms, TypeOK
  <2> QED  BY <1>5, <2>1 DEF StartCampaign, TermsAgree, SmallTerms, TypeOK
<1>6. ASSUME NEW i \in Peers, VoteReturns(i) PROVE TermsAgree'
  BY <1>6 DEF VoteReturns, Idle, TermsAgree, TypeOK, node
<1>7. ASSUME NEW i \in Peers, EndCampaign(i) PROVE TermsAgree'
  BY <1>7 DEF EndCampaign, Win, Lose, TermsAgree, TypeOK
<1>8. ASSUME NEW i \in Peers, StartHeartbeats(i) PROVE TermsAgree'
  BY <1>8 DEF StartHeartbeats, Iterates, LoopConsistent, TermsAgree, TypeOK, node
<1>9. ASSUME NEW i \in Peers, AppendReturns(i) PROVE TermsAgree'
  BY <1>9 DEF AppendReturns, loop, Idle, TermsAgree, TypeOK
<1>10. ASSUME NEW i \in Peers, EndHeartbeats(i) PROVE TermsAgree'
  BY <1>10 DEF EndHeartbeats, TermsAgree, TypeOK, node
<1>11. ASSUME NEW i \in Peers, NEW p \in Peers, Invoke(i, p) PROVE TermsAgree'
  BY <1>11 DEF Invoke, TermsAgree, TypeOK, Calls, node
<1>12. ASSUME NEW i \in Peers, RpcError(i) PROVE TermsAgree'
  <2>1. call[i].stage # "idle" => call[i].req.term \in 0 .. MaxTerm
    BY DEF LoopConsistent, TermsAgree
  <2>2. call'[i] = Idle /\ \A k \in Peers \ {i} : call'[k] = call[k]
    BY <1>12 DEF RpcError, TypeOK
  <2>3. \A s \in Slots : late'[s] # NoRequest => late'[s].term \in 0 .. MaxTerm
    BY <1>12, <2>1 DEF RpcError, TermsAgree, TypeOK
  <2> QED  BY <1>12, <2>2, <2>3 DEF RpcError, Idle, TermsAgree, node, loop
<1>13. ASSUME NEW r \in Requests, Handle(r), r.term \in 0 .. MaxTerm, UNCHANGED pc
       PROVE  \A k \in Peers :
                /\ term'[k] \in SmallTerms
                /\ HoldsLock(k) => term'[k] = term[k]
                /\ HoldsLock(k)' \/ status'[k] = "LEADER" => term'[k] \in 0 .. MaxTerm
  <2>1. r.to \in Peers /\ DecodedTerm(r.term) = r.term /\ ~HoldsLock(r.to) /\ r.term \in SmallTerms
    BY <1>13, SmallTermsDecode, HandleFrame DEF Requests, SmallTerms
  <2>2. term'[r.to] \in SmallTerms /\ (status'[r.to] = "LEADER" => term'[r.to] \in 0 .. MaxTerm)
    BY <1>13, <2>1 DEF Handle, Vote, AppendMsg, StepsDown, TermsAgree, TypeOK
  <2> QED  BY <1>13, <2>1, <2>2, HandleFrame DEF TermsAgree
<1>14. ASSUME NEW i \in Peers, Serve(i) PROVE TermsAgree'
  <2> DEFINE r == call[i].req
  <2>1. /\ r \in Requests /\ r.term = term[i] /\ r.kind = pc[i] /\ r.to # i /\ r.to \in Peers
        /\ HoldsLock(i) /\ r.term \in 0 .. MaxTerm
    BY <1>14 DEF Serve, LoopConsistent, TermsAgree, TypeOK
  <2>2. Handle(r) /\ pc' = pc /\ late' = late
    BY <1>14 DEF Serve, loop
  <2>3. /\ call'[i].stage = "replied" /\ call'[i].ok = ReplyOk(r) /\ call'[i].term = term[r.to]
        /\ \A k \in Peers \ {i} : call'[k] = call[k]
    BY <1>14 DEF Serve, TypeOK, Calls
  <2>4. term[i] \in SmallTerms /\ term[r.to] \in SmallTerms /\ DecodedTerm(r.term) = term[i]
    BY <2>1, SmallTermsDecode DEF TermsAgree
  <2>5. \A k \in Peers :
          /\ term'[k] \in SmallTerms
          /\ HoldsLock(k) => term'[k] = term[k]
          /\ HoldsLock(k)' \/ status'[k] = "LEADER" => term'[k] \in 0 .. MaxTerm
    BY <1>13, <2>1, <2>2
  <2>6. pc[i] = "append" /\ ~call'[i].ok => call'[i].term > term'[i]
    <3> SUFFICES ASSUME pc[i] = "append", ~call'[i].ok PROVE term[r.to] > term[i]
      BY <2>1, <2>3, <2>5
    <3>1. ~(term[r.to] <= term[i])
      BY <2>1, <2>3, <2>4, Zenon DEF ReplyOk, Accepts
    <3>2. term[r.to] \in Int /\ term[i] \in Int
      BY <2>4, MaxTermAssumption, WidthAssumption DEF SmallTerms, InitialTerm
    <3> QED  BY <3>1, <3>2
  <2> HIDE DEF r
  <2>7. \A k \in Peers : call'[k].term \in SmallTerms
    BY <2>3, <2>4 DEF TermsAgree
  <2> QED  BY <2>2, <2>3, <2>5, <2>6, <2>7 DEF TermsAgree
<1>15. ASSUME NEW s \in Slots, ServeLate(s) PROVE TermsAgree'
  <2> DEFINE r == late[s]
  <2>1. r \in Requests /\ r.term \in 0 .. MaxTerm /\ Handle(r)
    BY <1>15 DEF ServeLate, TermsAgree, TypeOK
  <2>2. \A t \in Slots : late'[t] = late[t] \/ late'[t] = NoRequest
    BY <1>15 DEF ServeLate, TypeOK
  <2>3. pc' = pc /\ call' = call
    BY <1>15 DEF ServeLate, loop
  <2> HIDE DEF r
  <2> QED  BY <1>13, <2>1, <2>2, <2>3 DEF TermsAgree
<1>16. ASSUME Tick PROVE TermsAgree'
  BY <1>16 DEF Tick, TermsAgree, loop
<1>17. ASSUME NEW i \in Peers, Kill(i) PROVE TermsAgree'
  BY <1>17 DEF Kill, TermsAgree, node, loop
<1>18. ASSUME NEW i \in Peers, KillJoined(i) PROVE TermsAgree'
  BY <1>18 DEF KillJoined, TermsAgree, TypeOK, loop
<1>19. CASE UNCHANGED vars
  BY <1>19 DEF TermsAgree, vars
<1> QED  BY <1>1, <1>2, <1>3, <1>4, <1>5, <1>6, <1>7, <1>8, <1>9, <1>10, <1>11, <1>12,
            <1>14, <1>15, <1>16, <1>17, <1>18, <1>19 DEF Next, Daemon

\* No step takes a term back, counted from -1, but the refusal of a leader by a peer that
\* still has the constructor's term.
LEMMA TermKeptStep == IInv /\ [Next]_vars => [\A i \in Peers : TermKept(i)]_vars
<1> SUFFICES ASSUME IInv, Next, NEW k \in Peers PROVE TermKept(k)
  OBVIOUS
<1>0. TypeOK /\ LoopConsistent /\ TermsAgree
  BY DEF IInv
<1>1. ASSUME term'[k] = term[k] PROVE TermKept(k)
  <2>1. ToInt(term[k]) \in Int
    BY <1>0, SmallTermsDecode, MaxTermAssumption DEF TermsAgree, SmallTerms
  <2> QED  BY <1>1, <2>1 DEF TermKept
<1>2. ASSUME NEW i \in Peers, StartCampaign(i) PROVE TermKept(k)
  <2>1. CASE i # k
    BY <1>0, <1>1, <1>2, <2>1 DEF StartCampaign, TypeOK
  <2>2. CASE i = k
    <3>1. term'[k] = NextTerm(term[k]) /\ NextTerm(term[k]) <= MaxTerm
      BY <1>0, <1>2, <2>2 DEF StartCampaign, TypeOK
    <3>2. CASE term[k] = InitialTerm
      <4>1. term'[k] \in 0 .. MaxTerm
        BY <3>1, <3>2, MaxTermAssumption DEF NextTerm, InitialTerm
      <4> QED  BY <3>2, <4>1, SmallTermsDecode DEF TermKept
    <3>3. CASE term[k] # InitialTerm
      <4>1. term[k] \in 0 .. MaxTerm /\ term'[k] = term[k] + 1
        BY <1>0, <3>1, <3>3 DEF NextTerm, InitialTerm, TermsAgree, SmallTerms
      <4> QED  BY <3>1, <4>1, SmallTermsDecode, MaxTermAssumption DEF TermKept
    <3> QED  BY <3>2, <3>3
  <2> QED  BY <2>1, <2>2
<1>3. ASSUME NEW i \in Peers, AppendReturns(i) PROVE TermKept(k)
  <2>1. CASE call[i].ok \/ i # k
    BY <1>0, <1>1, <1>3, <2>1 DEF AppendReturns, loop, TypeOK
  <2>2. CASE ~call[i].ok /\ i = k
    <3>1. /\ term'[k] = call[k].term /\ status'[k] = "FOLLOWER"
          /\ status[k] = "LEADER" /\ call[k].stage = "replied"
      BY <1>0, <1>3, <2>2 DEF AppendReturns, loop, LoopConsistent, TypeOK
    <3>2. call[k].term > term[k] /\ term[k] \in 0 .. MaxTerm /\ call[k].term \in SmallTerms
      BY <1>0, <1>3, <2>2, <3>1 DEF AppendReturns, TermsAgree
    <3>3. CASE call[k].term = InitialTerm
      BY <2>2, <3>1, <3>3 DEF TermKept, RefusedByFreshPeer
    <3>4. CASE call[k].term \in 0 .. MaxTerm
      BY <3>1, <3>2, <3>4, SmallTermsDecode, MaxTermAssumption DEF TermKept
    <3> QED  BY <3>2, <3>3, <3>4 DEF SmallTerms
  <2> QED  BY <2>1, <2>2
<1>4. ASSUME NEW r \in Requests, Handle(r), r.term \in 0 .. MaxTerm PROVE TermKept(k)
  <2>1. r.to \in Peers /\ DecodedTerm(r.term) = r.term
    BY <1>4, SmallTermsDecode DEF Requests, SmallTerms
  <2>2. CASE Vote(r.to, r)
    BY <1>1, <2>2 DEF Vote
  <2>3. CASE AppendMsg(r.to, r) /\ Accepts(r.to, r)
    <3>1. term'[r.to] = r.term /\ \A j \in Peers \ {r.to} : term'[j] = term[j]
      BY <1>0, <2>1, <2>3 DEF AppendMsg, StepsDown, TypeOK
    <3>2. CASE r.to = k
      <4>1. term[k] <= r.term /\ term[k] \in SmallTerms
        BY <1>0, <2>1, <2>3, <3>2 DEF Accepts, TermsAgree
      <4>2. term[k] \in 0 .. MaxTerm
        BY <1>4, <4>1, SmallTermsDecode, MaxTermAssumption, WidthAssumption DEF SmallTerms, InitialTerm
      <4> QED  BY <1>4, <3>1, <3>2, <4>1, <4>2, SmallTermsDecode, MaxTermAssumption DEF TermKept
    <3> QED  BY <1>1, <3>1, <3>2
  <2>4. CASE AppendMsg(r.to, r) /\ ~Accepts(r.to, r)
    BY <1>1, <2>4 DEF AppendMsg, StepsDown
  <2> QED  BY <1>4, <2>2, <2>3, <2>4 DEF Handle
<1>5. ASSUME NEW i \in Peers, Serve(i) PROVE TermKept(k)
  BY <1>0, <1>4, <1>5 DEF Serve, LoopConsistent, TermsAgree
<1>6. ASSUME NEW s \in Slots, ServeLate(s) PROVE TermKept(k)
  BY <1>0, <1>4, <1>6 DEF ServeLate, TermsAgree, TypeOK
<1>7. \/ term' = term
      \/ \E i \in Peers : StartCampaign(i) \/ AppendReturns(i) \/ Serve(i)
      \/ \E s \in Slots : ServeLate(s)
  BY Zenon DEF Next, Daemon, Boot, Leave, BecomeCandidate, Expel, VoteReturns, EndCampaign,
         StartHeartbeats, EndHeartbeats, Invoke, RpcError, Kill, KillJoined, Tick, node
<1> QED  BY <1>1, <1>2, <1>3, <1>5, <1>6, <1>7

(***************************************************************************)
(* The theorems.                                                           *)
(***************************************************************************)

\* IInv is an invariant: the constructor establishes it and every step of a daemon, a
\* handler, the clock or Kill() preserves it.
THEOREM Inductive == Spec => []IInv
<1>1. IInv /\ [Next]_vars => IInv'
  BY TypeStep, LoopStep, LeadStep, VoteStep, TermStep DEF IInv
<1> QED  BY InitIInv, <1>1, PTL DEF Spec

(***************************************************************************)
(* What follows from it.                                                   *)
(***************************************************************************)

\* Every variable of every peer keeps its type: the wire conversions of AppendMsg
\* never produce a value that is not a term.
THEOREM TypeCorrect == Spec => []TypeOK
<1>1. IInv => TypeOK
  BY DEF IInv
<1> QED  BY Inductive, <1>1, PTL

\* channels[peer] is never null where the daemon dereferences it.
THEOREM NoNullStub == Spec => []StubForEveryCall
<1>1. IInv => StubForEveryCall
  BY DEF IInv, LoopConsistent, StubForEveryCall, HoldsLock
<1> QED  BY Inductive, <1>1, PTL

\* A vote binds the peer that gave it until that peer expels the candidate.
THEOREM VotesAreBinding == Spec => []VoteBinds
<1>1. IInv => VoteBinds
  BY DEF IInv
<1> QED  BY Inductive, <1>1, PTL

\* Two leaders at once need a damaged membership: two majorities of the full
\* membership share a peer, and that peer stands by one candidate only.
THEOREM SplitBrainNeedsExpulsion == Spec => []TwoLeadersNeedExpulsion
<1>1. IInv => TwoLeadersNeedExpulsion
  <2> SUFFICES ASSUME IInv, NEW i \in Peers, NEW k \in Peers, i # k,
                      status[i] = "LEADER", status[k] = "LEADER",
                      \A j \in Peers : {i, k} \subseteq peers[j],
                      peers[i] = Peers, peers[k] = Peers
               PROVE  FALSE
    BY DEF TwoLeadersNeedExpulsion
  <2> DEFINE quorum(l) == votes[l] \cup {l}
  <2>1. ASSUME NEW l \in {i, k}
        PROVE  /\ quorum(l) \subseteq Peers
               /\ Cardinality(quorum(l)) \in Nat
               /\ Cardinality(quorum(l)) >= (Cardinality(Peers) \div 2) + 1
    <3>1. votes[l] \subseteq Peers /\ l \in Peers /\ l \notin votes[l] /\ HasMajority(l)
      BY DEF IInv, TypeOK, VoteBinds
    <3>2. IsFiniteSet(votes[l])
      BY <3>1, PeersAssumption, FS_Subset
    <3>3. Cardinality(quorum(l)) = Cardinality(votes[l]) + 1
      BY <3>1, <3>2, FS_AddElement, Zenon
    <3>4. Cardinality(votes[l]) \in Nat
      BY <3>2, FS_CardinalityType
    <3> QED  BY <3>1, <3>3, <3>4 DEF HasMajority
  <2>2. quorum(i) \cap quorum(k) # {}
    <3>1. Cardinality(Peers) \in Nat
      BY PeersAssumption, FS_CardinalityType
    <3> DEFINE n == Cardinality(Peers)
               a == Cardinality(quorum(i))
               b == Cardinality(quorum(k))
    <3>2. n \in Nat /\ a \in Nat /\ b \in Nat /\ a >= (n \div 2) + 1 /\ b >= (n \div 2) + 1
      BY <2>1, <3>1
    <3> HIDE DEF n, a, b
    <3>3. a + b > n
      BY <3>2
    <3> QED  BY <2>1, <3>3, PeersAssumption, FS_MajoritiesIntersect DEF n, a, b
  <2>3. PICK j \in Peers : j \in quorum(i) /\ j \in quorum(k)
    BY <2>1, <2>2
  <2>4. ASSUME NEW l \in {i, k}, j \in votes[l]
        PROVE  vote_for[j] = l /\ status[j] # "LEADER"
    BY <2>3, <2>4 DEF IInv, VoteBinds, StandsBy
  <2> QED  BY <2>3, <2>4
<1> QED  BY Inductive, <1>1, PTL

\* Only a peer that has led drops itself from its own membership.
THEOREM SelfExpulsion == Spec => []OnlyExLeadersExpelThemselves
<1>1. IInv => OnlyExLeadersExpelThemselves
  BY DEF IInv, LeadConsistent, OnlyExLeadersExpelThemselves
<1> QED  BY Inductive, <1>1, PTL

\* A term goes back only at a leader that a peer with the constructor's term refuses: what
\* AppendMsg stores is at least the old term as an unsigned number and never the
\* constructor's, since no request carries that; another refusal brings a larger term.
THEOREM TermsGoBackOnRefusal == Spec => OnlyRefusedLeadersGoBack
<1> QED  BY Inductive, TermKeptStep, PTL DEF Spec, OnlyRefusedLeadersGoBack

\* A killed peer stays as it was when Kill() returned.
THEOREM DeathIsFinal == Spec => DeadIsFinal
<1>1. IInv /\ [Next]_vars => [\A i \in Peers : StaysDead(i)]_vars
  <2> SUFFICES ASSUME IInv, Next, NEW k \in Peers, status[k] = "DEAD"
               PROVE  /\ status'[k] = "DEAD" /\ vote_for'[k] = vote_for[k]
                      /\ term'[k] = term[k] /\ peers'[k] = peers[k]
    BY DEF StaysDead
  <2>0. TypeOK /\ LoopConsistent /\ pc[k] = "exit" /\ call[k].stage = "idle"
    BY DEF IInv, LoopConsistent, HoldsLock
  <2>1. ASSUME NEW i \in Peers, Daemon(i)
        PROVE  /\ status'[k] = status[k] /\ vote_for'[k] = vote_for[k]
               /\ term'[k] = term[k] /\ peers'[k] = peers[k]
    <3>1. i # k
      BY <2>0, <2>1 DEF Daemon, Boot, Leave, BecomeCandidate, Expel, OutOfPatience, Iterates,
         StartCampaign, VoteReturns, EndCampaign, StartHeartbeats, AppendReturns, loop, EndHeartbeats,
         Invoke, HoldsLock, RpcError, Fails
    <3> QED  BY <2>0, <2>1, <3>1 DEF Daemon, Boot, Leave, BecomeCandidate, Expel, Forget,
         StartCampaign, VoteReturns, EndCampaign, Win, Lose, StartHeartbeats, AppendReturns, loop,
         EndHeartbeats, Invoke, RpcError, TypeOK, node, members
  <2>2. ASSUME NEW i \in Peers, Serve(i) PROVE StaysDead(k)
    BY <2>0, <2>2, HandleFrame DEF Serve, LoopConsistent, StaysDead, members
  <2>3. ASSUME NEW s \in Slots, ServeLate(s) PROVE StaysDead(k)
    BY <2>0, <2>3, HandleFrame DEF ServeLate, TypeOK, StaysDead, members
  <2>4. ASSUME NEW i \in Peers, Kill(i) \/ KillJoined(i) \/ Tick PROVE StaysDead(k)
    BY <2>0, <2>4 DEF Kill, KillJoined, Tick, TypeOK, StaysDead, node, members
  <2> QED  BY <2>1, <2>2, <2>3, <2>4 DEF Next, StaysDead
<1> QED  BY Inductive, <1>1, PTL DEF Spec, DeadIsFinal
=============================================================================
