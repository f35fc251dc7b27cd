---------------------------- MODULE RaftElection ----------------------------
(***************************************************************************)
(* Raft implements Election: status_ is the role, vote_for_ the choice,    *)
(* peers_ the view, and a peer has led once its leader's indexes are       *)
(* written.                                                                *)
(***************************************************************************)
EXTENDS RaftInvariant

EverLed == {i \in Peers : lead[i].commit = 0}

E == INSTANCE Election WITH role <- status, choice <- vote_for, view <- peers, led <- EverLed

\* Every step of every daemon, handler and Kill() is a step of an election or leaves
\* the election alone: no lost, late or repeated call, no timeout and no refused
\* heartbeat lets a peer vote twice, win without a majority that stands by it, or
\* follow a peer that never led.
ImplementsElection == E!Spec

\* Until somebody is expelled at most one peer has ever led, not only at one time but
\* in the whole history of the cluster: a follower votes once (raft.h:96-100), a campaign
\* takes a majority of peers_ (raft.h:221), and a vote is taken back only by losing a
\* campaign (raft.h:243) or by an expulsion (raft.h:184-187).
OneRaftLeads == E!OneEverLeads

\* A heartbeat comes from a peer that has led, however late it is handled.
AppendersLed ==
  \A s \in Slots : late[s] # NoRequest /\ late[s].kind = "append" => late[s].from \in EverLed
=============================================================================
