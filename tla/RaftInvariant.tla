--------------------------- MODULE RaftInvariant ---------------------------
(***************************************************************************)
(* What every reachable state of Raft satisfies, in a form that one step   *)
(* preserves: the invariant behind the safety properties.                  *)
(***************************************************************************)
EXTENDS Raft

\* The daemon's loop and its lock agree: only the holder of lock_ has calls to make,
\* it makes them with the status and the term the iteration began with, to members
\* that have a stub, and only a daemon that left its loop belongs to a dead peer.
LoopConsistent ==
  \A i \in Peers :
    /\ ~HoldsLock(i) => todo[i] = {} /\ call[i].stage = "idle"
    /\ pc[i] = "vote" => status[i] = "CANDIDATE" /\ vote_for[i] = i
    /\ pc[i] = "append" => status[i] = "LEADER"
    /\ pc[i] # "boot" => channels[i] = peers[i] \ {i}
    /\ status[i] = "DEAD" => pc[i] = "exit"
    /\ todo[i] \subseteq peers[i] \ {i}
    /\ call[i].stage # "idle" =>
         /\ call[i].req \in Requests
         /\ call[i].req.kind = pc[i] /\ call[i].req.from = i
         /\ call[i].req.to \in peers[i] \ {i} /\ call[i].req.to \notin todo[i]
         /\ call[i].req.term = term[i]

\* The leader's indexes: written when a campaign is won and never unwritten.  Only a peer that has led can be a follower that voted for
\* itself, which is what makes it expel itself; no request goes from a peer to itself.
LeadConsistent ==
  /\ \A i \in Peers :
       /\ status[i] = "LEADER" => lead[i].commit = 0
       /\ status[i] = "FOLLOWER" /\ vote_for[i] = i => lead[i].commit = 0
       /\ i \notin peers[i] => lead[i].commit = 0
  /\ \A s \in Slots : late[s] # NoRequest => late[s].from # late[s].to

\* j still stands by the vote it gave i, unless it has expelled i since.
StandsBy(j, i) ==
  i \in peers[j] => vote_for[j] = i /\ status[j] \in {"FOLLOWER", "DEAD"}

\* A granted vote binds: whoever granted i its vote, counted or still on its way back
\* to i, votes for nobody else and does not campaign while i campaigns or leads, until
\* it expels i; and a leader holds a majority of such votes of its own membership.
VoteBinds ==
  \A i \in Peers :
    /\ i \notin votes[i]
    /\ pc[i] = "vote" \/ status[i] = "LEADER" => \A j \in votes[i] : StandsBy(j, i)
    /\ pc[i] = "vote" /\ call[i].stage = "replied" /\ call[i].ok => StandsBy(call[i].req.to, i)
    /\ status[i] = "LEADER" => HasMajority(i)

\* Within the bound on campaigns a term is the constructor's -1 or small, and so
\* survives the conversion to int; a peer that calls or leads has campaigned, so no
\* request carries the constructor's term; a refused heartbeat carries back a larger one.
SmallTerms == (0 .. MaxTerm) \cup {InitialTerm}

TermsAgree ==
  /\ \A i \in Peers :
       /\ term[i] \in SmallTerms /\ call[i].term \in SmallTerms
       /\ HoldsLock(i) \/ status[i] = "LEADER" => term[i] \in 0 .. MaxTerm
       /\ pc[i] = "append" /\ call[i].stage = "replied" /\ ~call[i].ok => call[i].term > term[i]
  /\ \A s \in Slots : late[s] # NoRequest => late[s].term \in 0 .. MaxTerm

IInv == TypeOK /\ LoopConsistent /\ LeadConsistent /\ VoteBinds /\ TermsAgree
=============================================================================
