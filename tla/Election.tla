------------------------------ MODULE Election ------------------------------
(***************************************************************************)
(* What the elections of src/raft.h promise, without calls, locks, clocks  *)
(* and terms: who has which role, whom each peer has chosen, whom each     *)
(* peer counts as a member and who has ever led.  A vote is a promise that *)
(* only an expulsion breaks.  Raft implements this specification.          *)
(***************************************************************************)
EXTENDS Naturals, FiniteSets

CONSTANTS
  Peers,   \* the addresses of the configuration
  Nobody   \* no choice made

\* What the proofs assume of the configuration.
Electorate == IsFiniteSet(Peers) /\ Nobody \notin Peers

VARIABLES
  role,    \* status_
  choice,  \* vote_for_
  view,    \* peers_
  led      \* the peers that have won a campaign

vars == <<role, choice, view, led>>

Roles == {"FOLLOWER", "CANDIDATE", "LEADER", "DEAD"}

TypeOK ==
  /\ role \in [Peers -> Roles]
  /\ choice \in [Peers -> Peers \cup {Nobody}]
  /\ view \in [Peers -> SUBSET Peers]
  /\ led \subseteq Peers

Init ==
  /\ role = [i \in Peers |-> "FOLLOWER"]
  /\ choice = [i \in Peers |-> Nobody]
  /\ view = [i \in Peers |-> Peers]
  /\ led = {}

\* A follower that has chosen nobody stands for election.
Stand(i) ==
  /\ role[i] = "FOLLOWER" /\ choice[i] = Nobody
  /\ role' = [role EXCEPT ![i] = "CANDIDATE"]
  /\ UNCHANGED <<choice, view, led>>

Nominate(i) ==
  /\ role[i] = "CANDIDATE"
  /\ choice' = [choice EXCEPT ![i] = i]
  /\ UNCHANGED <<role, view, led>>

Free(j) == role[j] = "FOLLOWER" /\ choice[j] = Nobody

\* Whoever asks a free follower has its vote, also long after the campaign.
Grant(j, i) ==
  /\ i # j /\ Free(j)
  /\ choice' = [choice EXCEPT ![j] = i]
  /\ UNCHANGED <<role, view, led>>

\* j stands by the vote it gave i, unless it has expelled i since.
StandsBy(j, i) ==
  i \in view[j] => choice[j] = i /\ role[j] \in {"FOLLOWER", "DEAD"}

Majority(S, i) == 1 + Cardinality(S) >= (Cardinality(view[i]) \div 2) + 1

Elect(i) ==
  /\ role[i] = "CANDIDATE" /\ choice[i] = i
  /\ \E S \in SUBSET (Peers \ {i}) : Majority(S, i) /\ \A j \in S : StandsBy(j, i)
  /\ role' = [role EXCEPT ![i] = "LEADER"]
  /\ led' = led \cup {i}
  /\ UNCHANGED <<choice, view>>

Lose(i) ==
  /\ role[i] = "CANDIDATE"
  /\ role' = [role EXCEPT ![i] = "FOLLOWER"]
  /\ choice' = [choice EXCEPT ![i] = Nobody]
  /\ UNCHANGED <<view, led>>

\* A candidate or a leader that hears of a peer that has led follows that peer.
Follow(j, k) ==
  /\ role[j] \in {"CANDIDATE", "LEADER"}
  /\ k \in led \ {j}
  /\ role' = [role EXCEPT ![j] = "FOLLOWER"]
  /\ choice' = [choice EXCEPT ![j] = k]
  /\ UNCHANGED <<view, led>>

\* A refused leader follows, and goes on choosing itself.
Retire(i) ==
  /\ role[i] = "LEADER"
  /\ role' = [role EXCEPT ![i] = "FOLLOWER"]
  /\ UNCHANGED <<choice, view, led>>

Expel(i) ==
  /\ role[i] = "FOLLOWER" /\ choice[i] # Nobody
  /\ view' = [view EXCEPT ![i] = @ \ {choice[i]}]
  /\ choice' = [choice EXCEPT ![i] = Nobody]
  /\ UNCHANGED <<role, led>>

Die(i) ==
  /\ role' = [role EXCEPT ![i] = "DEAD"]
  /\ UNCHANGED <<choice, view, led>>

Next ==
  \E i \in Peers :
    \/ Stand(i) \/ Nominate(i) \/ Elect(i) \/ Lose(i) \/ Retire(i) \/ Expel(i) \/ Die(i)
    \/ \E j \in Peers : Grant(j, i) \/ Follow(j, i)

Spec == Init /\ [][Next]_vars

Intact == \A i \in Peers : view[i] = Peers

\* Until somebody is expelled (raft.h:184-187) at most one peer has ever led.
OneEverLeads == Intact => \A i, k \in led : i = k

Voters(i) == {j \in Peers : choice[j] = i}

\* A peer that has led keeps, while the membership is intact, a majority of peers that
\* chose it, itself among them, and never campaigns again; nobody leads without having
\* won, and a candidate has chosen itself or nobody.  This is what makes OneEverLeads
\* inductive.
PromisesKept ==
  /\ \A i \in Peers :
       /\ role[i] = "LEADER" => i \in led
       /\ role[i] = "CANDIDATE" => choice[i] \in {i, Nobody}
  /\ Intact => \A i \in led :
       /\ choice[i] = i /\ role[i] # "CANDIDATE"
       /\ 2 * Cardinality(Voters(i)) > Cardinality(Peers)
=============================================================================
