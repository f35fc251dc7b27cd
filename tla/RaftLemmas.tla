----------------------------- MODULE RaftLemmas -----------------------------
(***************************************************************************)
(* What a term survives, what the constructor establishes, what a handler  *)
(* does and leaves alone, and that every step keeps the types and the      *)
(* place of each daemon in its loop: the facts the other proofs rest on.   *)
(***************************************************************************)
EXTENDS RaftInvariant, TLAPS

(***************************************************************************)
(* Terms.                                                                  *)
(***************************************************************************)

\* The low bits of -1: all ones in the wide type are all ones in the narrow one.
LEMMA AllOnes ==
  ASSUME NEW m \in Nat \ {0}, NEW k \in Nat \ {0}, m % k = 0
  PROVE  (m - 1) % k = k - 1 /\ k <= m
<1> DEFINE q == m \div k
           p == (m - 1) \div k
           r == (m - 1) % k
<1>1. q \in Int /\ p \in Int /\ r \in Int
  OBVIOUS
<1>2. m = k * q /\ m - 1 = k * p + r /\ 0 <= r /\ r < k
  OBVIOUS
<1>3. k * (q - 1 - p) = r - (k - 1)
  BY <1>1, <1>2
<1>4. k <= m
  <2>1. q >= 1
    BY <1>1, <1>2
  <2> HIDE DEF q
  <2>2. k * q >= k
    BY <1>1, <2>1
  <2> QED  BY <1>2, <2>2
<1> HIDE DEF q, p, r
<1> DEFINE d == q - 1 - p
<1>5. d \in Int /\ k * d = r - (k - 1)
  BY <1>1, <1>3
<1> HIDE DEF d
<1>6. ASSUME d >= 1 PROVE k * d >= k
  BY <1>5, <1>6
<1>7. ASSUME d <= -1 PROVE k * d <= -k
  BY <1>5, <1>7
<1>8. d = 0
  BY <1>1, <1>2, <1>5, <1>6, <1>7
<1>9. r = k - 1
  BY <1>1, <1>5, <1>8
<1> QED  BY <1>4, <1>9 DEF r

\* The terms a cluster uses survive `int term = request.term()', which reads the
\* constructor's term as -1 and the others as they are.
LEMMA SmallTermsDecode ==
  /\ SmallTerms \subseteq Terms
  /\ \A t \in SmallTerms : DecodedTerm(t) = t
  /\ ToInt(InitialTerm) = -1 /\ InitialTerm > MaxTerm
  /\ \A t \in 0 .. MaxTerm : ToInt(t) = t
<1> USE WidthAssumption, MaxTermAssumption
<1>1. InitialTerm % IntMod = IntMod - 1 /\ IntMod <= TermMod
  BY AllOnes, Zenon DEF InitialTerm
<1>2. IntMod \div 2 \in Nat /\ IntMod \div 2 <= IntMod - 1
  OBVIOUS
<1>3. SmallTerms \subseteq Terms
  BY <1>1, <1>2 DEF SmallTerms, Terms, InitialTerm
<1>4. ASSUME NEW t \in 0 .. MaxTerm PROVE DecodedTerm(t) = t /\ ToInt(t) = t
  <2>1. t % IntMod = t
    BY <1>2
  <2> QED  BY <1>2, <2>1 DEF DecodedTerm, ToInt, ToUint64
<1>5. ToInt(InitialTerm) = -1 /\ InitialTerm > MaxTerm
  BY <1>1, <1>2 DEF ToInt, InitialTerm
<1>6. DecodedTerm(InitialTerm) = InitialTerm
  BY <1>5 DEF DecodedTerm, ToUint64, InitialTerm
<1> QED  BY <1>3, <1>4, <1>5, <1>6 DEF SmallTerms

(***************************************************************************)
(* The initial state.                                                      *)
(***************************************************************************)

\* The constructor establishes the invariant.
LEMMA InitIInv == Init => IInv
<1> SUFFICES ASSUME Init PROVE IInv
  OBVIOUS
<1> USE WidthAssumption, MaxTermAssumption, PatienceAssumption, PeersAssumption DEF Init
<1>1. InitialTerm \in Terms /\ 0 \in Terms /\ InitialTerm \in SmallTerms /\ 0 \in SmallTerms
  BY DEF Terms, InitialTerm, SmallTerms
<1>2. Idle \in Calls
  BY <1>1 DEF Idle, Calls
<1>3. TypeOK
  BY <1>1, <1>2 DEF TypeOK, Statuses, Leads, Unset
<1>4. LoopConsistent
  BY DEF LoopConsistent, HoldsLock, Idle
<1>5. LeadConsistent
  BY DEF LeadConsistent
<1>6. VoteBinds
  BY DEF VoteBinds, StandsBy
<1>7. TermsAgree
  BY <1>1 DEF TermsAgree, Idle, HoldsLock
<1> QED  BY <1>3, <1>4, <1>5, <1>6, <1>7 DEF IInv

\* A call that is sent or answered is still a call.
LEMMA CallTypes ==
  ASSUME NEW c \in Calls, NEW r \in Requests, NEW ok \in BOOLEAN, NEW t \in Terms
  PROVE  /\ [c EXCEPT !.stage = "sent", !.req = r] \in Calls
         /\ [c EXCEPT !.stage = "replied", !.ok = ok, !.term = t] \in Calls
BY Zenon DEF Calls

(***************************************************************************)
(* The handlers.                                                           *)
(***************************************************************************)

\* What a handler does to its peer j, as far as the invariant can tell: j does not
\* hold its lock, and its new status, vote, term and age have their types.
LEMMA HandleTypes ==
  ASSUME TypeOK, NEW r \in Requests, r.term \in SmallTerms, Handle(r)
  PROVE  /\ status' \in [Peers -> Statuses]
         /\ vote_for' \in [Peers -> Peers \cup {Nobody}]
         /\ term' \in [Peers -> Terms]
         /\ age' \in [Peers -> 0 .. MinPatience]
<1> USE PatienceAssumption
<1>1. r.to \in Peers /\ r.from \in Peers /\ DecodedTerm(r.term) \in Terms
  BY SmallTermsDecode DEF Requests
<1>2. CASE Vote(r.to, r)
  BY <1>1, <1>2 DEF Vote, TypeOK
<1>3. CASE AppendMsg(r.to, r)
  <2>1. CASE Accepts(r.to, r)
    BY <1>1, <1>3, <2>1 DEF AppendMsg, StepsDown, TypeOK, Statuses
  <2>2. CASE ~Accepts(r.to, r)
    BY <1>1, <1>3, <2>2 DEF AppendMsg, StepsDown, TypeOK
  <2> QED  BY <2>1, <2>2
<1> QED  BY <1>2, <1>3 DEF Handle

\* What a handler leaves alone.  It runs while its peer's lock_ is free, touches that
\* peer only, promotes nobody, and does not change the vote of a follower that voted.
LEMMA HandleFrame ==
  ASSUME TypeOK, NEW r \in Requests, Handle(r)
  PROVE  /\ ~HoldsLock(r.to) /\ status[r.to] # "DEAD"
         /\ status'[r.to] = status[r.to] \/ status'[r.to] = "FOLLOWER"
         /\ status[r.to] = "FOLLOWER" /\ vote_for[r.to] # Nobody => vote_for'[r.to] = vote_for[r.to]
         /\ \A j \in Peers \ {r.to} : /\ status'[j] = status[j] /\ vote_for'[j] = vote_for[j]
                                     /\ term'[j] = term[j]
<1>1. r.to \in Peers
  BY DEF Requests
<1>2. CASE Vote(r.to, r)
  BY <1>1, <1>2 DEF Handle, Vote, Grants, TypeOK
<1>3. CASE AppendMsg(r.to, r)
  BY <1>1, <1>3 DEF Handle, AppendMsg, StepsDown, TypeOK
<1> QED  BY <1>2, <1>3 DEF Handle

\* No handler makes a voter abandon the peer it stands by.
LEMMA HandleStands ==
  ASSUME TypeOK, NEW r \in Requests, Handle(r), UNCHANGED peers,
         NEW i \in Peers, NEW j \in Peers, StandsBy(j, i)
  PROVE  StandsBy(j, i)'
<1>1. CASE i \notin peers[j]
  BY <1>1 DEF StandsBy
<1>2. CASE i \in peers[j] /\ j # r.to
  BY <1>2, HandleFrame DEF StandsBy
<1>3. CASE i \in peers[j] /\ j = r.to
  <2>1. status[j] = "FOLLOWER" /\ vote_for[j] = i /\ i # Nobody
    BY <1>3, HandleFrame, PeersAssumption DEF StandsBy
  <2> QED  BY <1>3, <2>1, HandleFrame DEF StandsBy
<1> QED  BY <1>1, <1>2, <1>3

(***************************************************************************)
(* Types and the loop.                                                     *)
(***************************************************************************)

\* Every step keeps every variable in its type.
LEMMA TypeStep == IInv /\ [Next]_vars => TypeOK'
<1> SUFFICES ASSUME IInv, [Next]_vars PROVE TypeOK'
  OBVIOUS
<1> USE PeersAssumption DEF IInv
<1>0. 0 \in Terms /\ Idle \in Calls /\ 0 \in 0 .. MinPatience
  BY WidthAssumption, PatienceAssumption DEF Terms, Idle, Calls
<1>1. ASSUME NEW i \in Peers, Boot(i) PROVE TypeOK'
  BY <1>1 DEF Boot, TypeOK, node
<1>2. ASSUME NEW i \in Peers, Leave(i) PROVE TypeOK'
  BY <1>2 DEF Leave, TypeOK, node, members
<1>3. ASSUME NEW i \in Peers, BecomeCandidate(i) PROVE TypeOK'
  BY <1>3 DEF BecomeCandidate, TypeOK, members, loop, Statuses
<1>4. ASSUME NEW i \in Peers, Expel(i) PROVE TypeOK'
  BY <1>4 DEF Expel, Forget, TypeOK, loop
<1>5. ASSUME NEW i \in Peers, StartCampaign(i) PROVE TypeOK'
  <2>1. NextTerm(term[i]) \in Terms
    BY WidthAssumption DEF NextTerm, Terms, TypeOK
  <2> QED  BY <1>5, <2>1 DEF StartCampaign, TypeOK, members
<1>6. ASSUME NEW i \in Peers, VoteReturns(i) PROVE TypeOK'
  <2>1. call[i].req.to \in Peers
    BY <1>6 DEF VoteReturns, LoopConsistent, TypeOK
  <2> QED  BY <1>0, <1>6, <2>1 DEF VoteReturns, TypeOK, node, members
<1>7. ASSUME NEW i \in Peers, EndCampaign(i) PROVE TypeOK'
  <2>1. CASE Win(i)
    <3>1. [next |-> NextIndexes(i), commit |-> 0, applied |-> 0] \in Leads
      BY DEF NextIndexes, Leads, TypeOK
    <3> QED  BY <1>7, <2>1, <3>1 DEF EndCampaign, Win, TypeOK, members, Statuses
  <2>2. CASE Lose(i)
    BY <1>0, <1>7, <2>2 DEF EndCampaign, Lose, Unvoted, TypeOK, members, Statuses
  <2> QED  BY <1>7, <2>1, <2>2 DEF EndCampaign
<1>8. ASSUME NEW i \in Peers, StartHeartbeats(i) PROVE TypeOK'
  BY <1>8 DEF StartHeartbeats, TypeOK, node, members
<1>9. ASSUME NEW i \in Peers, AppendReturns(i) PROVE TypeOK'
  <2>1. CASE call[i].ok
    BY <1>0, <1>9, <2>1 DEF AppendReturns, loop, TypeOK, members
  <2>2. CASE ~call[i].ok
    <3>1. call[i].term \in Terms
      BY DEF TypeOK, Calls
    <3>2. /\ status' = [status EXCEPT ![i] = "FOLLOWER"]
          /\ term' = [term EXCEPT ![i] = call[i].term]
          /\ age' = [age EXCEPT ![i] = 0]
          /\ pc' = [pc EXCEPT ![i] = "loop"]
          /\ todo' = [todo EXCEPT ![i] = {}]
          /\ votes' = [votes EXCEPT ![i] = {}]
          /\ call' = [call EXCEPT ![i] = Idle]
          /\ UNCHANGED <<vote_for, members, is_dead, lead, late>>
      BY <1>9, <2>2, Zenon DEF AppendReturns
    <3> QED  BY <1>0, <3>1, <3>2 DEF TypeOK, members, Statuses
  <2> QED  BY <2>1, <2>2
<1>10. ASSUME NEW i \in Peers, EndHeartbeats(i) PROVE TypeOK'
  BY <1>10 DEF EndHeartbeats, TypeOK, node, members
<1>11. ASSUME NEW i \in Peers, NEW p \in Peers, Invoke(i, p) PROVE TypeOK'
  <2>1. [kind |-> pc[i], from |-> i, to |-> p, term |-> term[i]] \in Requests
    BY <1>11 DEF Invoke, HoldsLock, Requests, TypeOK
  <2>2. [call[i] EXCEPT !.stage = "sent",
                        !.req = [kind |-> pc[i], from |-> i, to |-> p, term |-> term[i]]] \in Calls
    <3>1. call[i] \in Calls /\ term[i] \in Terms /\ TRUE \in BOOLEAN
      BY DEF TypeOK
    <3> QED  BY <2>1, <3>1, CallTypes, Zenon
  <2> QED  BY <1>11, <2>2 DEF Invoke, TypeOK, node, members
<1>12. ASSUME NEW i \in Peers, RpcError(i) PROVE TypeOK'
  <2>1. late' \in [Slots -> Requests \cup {NoRequest}]
    BY <1>12 DEF RpcError, TypeOK, Calls
  <2> QED  BY <1>0, <1>12, <2>1 DEF RpcError, TypeOK, node, members, loop
<1>13. ASSUME NEW i \in Peers, Serve(i) PROVE TypeOK'
  <2>1. call[i].req \in Requests /\ call[i].req.term \in SmallTerms /\ call[i].req.to \in Peers
    BY <1>13 DEF Serve, LoopConsistent, TermsAgree, TypeOK
  <2>2. ReplyOk(call[i].req) \in BOOLEAN
    <3>1. Grants(call[i].req.to) \in BOOLEAN
      BY Zenon DEF Grants
    <3>2. Accepts(call[i].req.to, call[i].req) \in BOOLEAN
      <4>1. Terms \subseteq Int
        BY WidthAssumption DEF Terms
      <4>2. term[call[i].req.to] \in Terms /\ DecodedTerm(call[i].req.term) \in Terms
        BY <2>1, SmallTermsDecode DEF TypeOK
      <4> QED  BY <4>1, <4>2 DEF Accepts
    <3> QED  BY <3>1, <3>2, Zenon DEF ReplyOk
  <2>3. term[call[i].req.to] \in Terms
    BY <2>1 DEF TypeOK
  <2>4. call' \in [Peers -> Calls]
    <3> DEFINE ok == ReplyOk(call[i].req)
    <3>1. ok \in BOOLEAN
      BY <2>2
    <3> HIDE DEF ok
    <3>2. call[i] \in Calls /\ call[i].req \in Requests
      BY <2>1 DEF TypeOK
    <3>3. [call[i] EXCEPT !.stage = "replied", !.ok = ok,
                          !.term = term[call[i].req.to]] \in Calls
      BY <2>3, <3>1, <3>2, CallTypes, Zenon
    <3>4. call' = [call EXCEPT ![i] = [call[i] EXCEPT !.stage = "replied", !.ok = ok,
                                                      !.term = term[call[i].req.to]]]
      BY <1>13, Zenon DEF Serve, TypeOK, Calls, ok
    <3> QED  BY <3>3, <3>4 DEF TypeOK
  <2> QED  BY <1>13, <2>1, <2>4, HandleTypes DEF Serve, TypeOK, members, loop
<1>14. ASSUME NEW s \in Slots, ServeLate(s) PROVE TypeOK'
  <2>1. late[s] \in Requests /\ late[s].term \in SmallTerms
    BY <1>14 DEF ServeLate, TermsAgree, SmallTerms, TypeOK
  <2> QED  BY <1>14, <2>1, HandleTypes DEF ServeLate, TypeOK, members, loop
<1>15. ASSUME Tick PROVE TypeOK'
  BY <1>15, PatienceAssumption DEF Tick, TypeOK, members, loop
<1>16. ASSUME NEW i \in Peers, Kill(i) PROVE TypeOK'
  BY <1>16 DEF Kill, TypeOK, node, members, loop
<1>17. ASSUME NEW i \in Peers, KillJoined(i) PROVE TypeOK'
  BY <1>17 DEF KillJoined, TypeOK, members, loop, Statuses
<1>18. CASE UNCHANGED vars
  BY <1>18 DEF TypeOK, vars
<1> QED  BY <1>1, <1>2, <1>3, <1>4, <1>5, <1>6, <1>7, <1>8, <1>9, <1>10, <1>11, <1>12,
            <1>13, <1>14, <1>15, <1>16, <1>17, <1>18 DEF Next, Daemon

\* Every step keeps the daemon's loop consistent.
LEMMA LoopStep == IInv /\ [Next]_vars => LoopConsistent'
<1> SUFFICES ASSUME IInv, [Next]_vars PROVE LoopConsistent'
  OBVIOUS
<1>0. TypeOK /\ LoopConsistent
  BY DEF IInv
<1> USE <1>0, PeersAssumption DEF HoldsLock
<1>1. ASSUME NEW i \in Peers, Boot(i) PROVE LoopConsistent'
  BY <1>1 DEF Boot, LoopConsistent, TypeOK, node
<1>2. ASSUME NEW i \in Peers, Leave(i) PROVE LoopConsistent'
  BY <1>2 DEF Leave, LoopConsistent, TypeOK, node, members
<1>3. ASSUME NEW i \in Peers, BecomeCandidate(i) PROVE LoopConsistent'
  BY <1>3 DEF BecomeCandidate, OutOfPatience, Iterates, LoopConsistent, TypeOK, members, loop
<1>4. ASSUME NEW i \in Peers, Expel(i) PROVE LoopConsistent'
  BY <1>4 DEF Expel, Forget, OutOfPatience, Iterates, LoopConsistent, TypeOK, loop
<1>5. ASSUME NEW i \in Peers, StartCampaign(i) PROVE LoopConsistent'
  BY <1>5 DEF StartCampaign, Iterates, LoopConsistent, TypeOK, members
<1>6. ASSUME NEW i \in Peers, VoteReturns(i) PROVE LoopConsistent'
  BY <1>6 DEF VoteReturns, Idle, LoopConsistent, TypeOK, node, members
<1>7. ASSUME NEW i \in Peers, EndCampaign(i) PROVE LoopConsistent'
  BY <1>7 DEF EndCampaign, Win, Lose, LoopConsistent, TypeOK, members
<1>8. ASSUME NEW i \in Peers, StartHeartbeats(i) PROVE LoopConsistent'
  BY <1>8 DEF StartHeartbeats, Iterates, LoopConsistent, TypeOK, node, members
<1>9. ASSUME NEW i \in Peers, AppendReturns(i) PROVE LoopConsistent'
  BY <1>9 DEF AppendReturns, loop, Idle, LoopConsistent, TypeOK, members
<1>10. ASSUME NEW i \in Peers, EndHeartbeats(i) PROVE LoopConsistent'
  BY <1>10 DEF EndHeartbeats, LoopConsistent, TypeOK, node, members
<1>11. ASSUME NEW i \in Peers, NEW p \in Peers, Invoke(i, p) PROVE LoopConsistent'
  BY <1>11 DEF Invoke, LoopConsistent, TypeOK, Calls, Requests, node, members
<1>12. ASSUME NEW i \in Peers, RpcError(i) PROVE LoopConsistent'
  BY <1>12 DEF RpcError, Idle, LoopConsistent, TypeOK, node, members, loop
<1>13. ASSUME NEW i \in Peers, Serve(i) PROVE LoopConsistent'
  <2>1. call[i].req \in Requests
    BY <1>13 DEF Serve, LoopConsistent
  <2>2. Handle(call[i].req)
    BY <1>13 DEF Serve
  <2>3. /\ call'[i].stage = "replied" /\ call'[i].req = call[i].req
        /\ \A k \in Peers \ {i} : call'[k] = call[k]
    BY <1>13 DEF Serve, TypeOK, Calls
  <2>4. UNCHANGED <<members, loop>> /\ call[i].stage = "sent"
    BY <1>13 DEF Serve
  <2> QED  BY <2>1, <2>2, <2>3, <2>4, HandleFrame DEF LoopConsistent, members, loop
<1>14. ASSUME NEW s \in Slots, ServeLate(s) PROVE LoopConsistent'
  <2>1. late[s] \in Requests
    BY <1>14 DEF ServeLate, TypeOK
  <2>2. Handle(late[s])
    BY <1>14 DEF ServeLate
  <2> QED  BY <1>14, <2>1, <2>2, HandleFrame DEF ServeLate, LoopConsistent, TypeOK, members, loop
<1>15. ASSUME Tick PROVE LoopConsistent'
  BY <1>15 DEF Tick, LoopConsistent, members, loop
<1>16. ASSUME NEW i \in Peers, Kill(i) PROVE LoopConsistent'
  BY <1>16 DEF Kill, LoopConsistent, node, members, loop
<1>17. ASSUME NEW i \in Peers, KillJoined(i) PROVE LoopConsistent'
  BY <1>17 DEF KillJoined, Joined, LoopConsistent, TypeOK, members, loop
<1>18. CASE UNCHANGED vars
  BY <1>18 DEF LoopConsistent, vars
<1> QED  BY <1>1, <1>2, <1>3, <1>4, <1>5, <1>6, <1>7, <1>8, <1>9, <1>10, <1>11, <1>12,
            <1>13, <1>14, <1>15, <1>16, <1>17, <1>18 DEF Next, Daemon
=============================================================================
