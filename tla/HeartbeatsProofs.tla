-------------------------- MODULE HeartbeatsProofs --------------------------
(***************************************************************************)
(* Proofs, for any number of calls and any times: if a campaign fits into  *)
(* the shortest patience no voter loses it before the campaign ends, and   *)
(* if a round does, and heartbeats are handled, no prompt voter ever does. *)
(***************************************************************************)
EXTENDS Heartbeats, TLAPS

\* The peer k has handled the latest call made to it.
Heard(k) == k < at \/ (k = at /\ handled)

\* How long ago k can have heard of the leader: of the calls after its own in the last
\* round it took part in, and of the calls before its own in this one, each cost at
\* most a deadline.
Bound(k) ==
  IF stage = "append" /\ ~Heard(k)
  THEN (Calls + at - k) * Deadline + Nap + spent
  ELSE (at - k) * Deadline + spent

\* The voters whose patience is watched: all of them while the campaign lasts, then those
\* that handle every heartbeat by its deadline.
Watched ==
  IF stage = "vote" THEN voters
  ELSE IF Decodes("append") THEN voters \cap Prompt ELSE {}

\* The ages of these voters, and what the daemon's place in its round implies.
AgesBounded ==
  /\ stage = "nap" => at = Calls + 1 /\ spent <= Nap
  /\ stage \in {"vote", "append"} => spent <= Deadline
  /\ at = Calls + 1 /\ stage # "nap" => spent = 0
  /\ at = Calls + 1 => ~handled
  /\ stage = "vote" => \A k \in voters : Heard(k)
  /\ stage # "beaten" => \A k \in Watched : age[k] <= Bound(k)

Inv == TypeOK /\ AgesBounded

\* The same, where a round or only a campaign fits into the patience.
FittingInv == RoundFits /\ Inv

CampaignInv == CampaignFits /\ Inv

\* A product grows by one factor with the other.
LEMMA OneMore ==
  ASSUME NEW n \in Int, NEW d \in Nat
  PROVE  (n + 1) * d = n * d + d /\ (n - 1) * d = n * d - d
OBVIOUS

\* Products with a deadline are ordered as their other factors are.
LEMMA TimesOrder ==
  ASSUME NEW m \in Int, NEW n \in Int, m <= n, NEW d \in Nat
  PROVE  m * d <= n * d
OBVIOUS

\* Every step keeps the types.
LEMMA TypeStep == TypeOK /\ [Next]_vars => TypeOK'
<1> SUFFICES ASSUME TypeOK, [Next]_vars PROVE TypeOK'
  OBVIOUS
<1> USE TimesAssumption DEF TypeOK, Followers
<1>1. CASE Tick
  BY <1>1 DEF Tick, Limit, Aged
<1>2. CASE Handle
  <2>0. handled' \in BOOLEAN
    BY <1>2, Zenon DEF Handle
  <2>1. at \in Followers
    BY <1>2 DEF Handle, InCall
  <2>2. stage' \in {"vote", "append", "nap", "beaten"} /\ at' = at /\ spent' = spent
    BY <1>2 DEF Handle
  <2>3. voters' \subseteq Followers
    BY <1>2, <2>1 DEF Handle
  <2>4. age' \in [Followers -> 0 .. MinPatience]
    BY <1>2, <2>1 DEF Handle, Restarted
  <2> QED  BY <2>0, <2>2, <2>3, <2>4
<1>3. CASE Return
  <2>1. handled' \in BOOLEAN
    BY <1>3, Zenon DEF Return
  <2>2. at' \in 1 .. Calls + 1 /\ spent' = 0 /\ voters' = voters /\ age' = age
    BY <1>3 DEF Return, InCall
  <2>3. stage' \in {"vote", "append", "nap", "beaten"}
    BY <1>3 DEF Return
  <2> QED  BY <2>1, <2>2, <2>3
<1>4. CASE EndRound
  BY <1>4 DEF EndRound
<1>5. CASE StartRound
  BY <1>5 DEF StartRound
<1>6. CASE UNCHANGED vars
  BY <1>6 DEF vars
<1> QED  BY <1>1, <1>2, <1>3, <1>4, <1>5, <1>6 DEF Next

\* Every step keeps the ages of the watched voters bounded.
LEMMA AgeStep == Inv /\ [Next]_vars => AgesBounded'
<1> SUFFICES ASSUME Inv, [Next]_vars PROVE AgesBounded'
  OBVIOUS
<1> USE TimesAssumption DEF Inv, TypeOK, Followers, Watched
<1> DEFINE Old == stage' # "beaten" => \A k \in Watched' : age'[k] <= Bound(k)'
           Place == /\ stage' = "nap" => at' = Calls + 1 /\ spent' <= Nap
                    /\ stage' \in {"vote", "append"} => spent' <= Deadline
                    /\ at' = Calls + 1 /\ stage' # "nap" => spent' = 0
                    /\ at' = Calls + 1 => ~handled'
                    /\ stage' = "vote" => \A k \in voters' : Heard(k)'
<1>0. SUFFICES Place /\ Old
  BY DEF AgesBounded
<1>1. CASE Tick
  <2>1. Place
    BY <1>1 DEF Tick, Limit, InCall, AgesBounded, Heard
  <2>2. ASSUME NEW k \in Watched PROVE age'[k] <= age[k] + 1 /\ Bound(k)' = Bound(k) + 1
    <3>1. age'[k] <= age[k] + 1
      BY <1>1 DEF Tick, Aged
    <3> DEFINE b == (Calls + at - k) * Deadline
               c == (at - k) * Deadline
    <3>2. b \in Int /\ c \in Int
      OBVIOUS
    <3> HIDE DEF b, c
    <3>3. Bound(k) = IF stage = "append" /\ ~Heard(k) THEN b + Nap + spent ELSE c + spent
      BY DEF Bound, b, c
    <3>4. Bound(k)' = IF stage = "append" /\ ~Heard(k) THEN b + Nap + spent' ELSE c + spent'
      BY <1>1 DEF Bound, Tick, Heard, b, c
    <3> QED  BY <1>1, <3>1, <3>2, <3>3, <3>4 DEF Tick
  <2>3. Old
    <3> SUFFICES ASSUME stage' # "beaten", NEW k \in Watched' PROVE age'[k] <= Bound(k)'
      OBVIOUS
    <3>1. k \in Watched /\ stage # "beaten"
      BY <1>1 DEF Tick
    <3>2. age[k] <= Bound(k) /\ age[k] \in Int /\ age'[k] \in Int
      BY <3>1, TypeStep DEF AgesBounded
    <3>3. Bound(k) \in Int
      BY <3>1 DEF Bound
    <3> QED  BY <2>2, <3>1, <3>2, <3>3
  <2> QED  BY <2>1, <2>3
<1>2. CASE Handle
  <2>1. Place
    <3>1. stage \in {"vote", "append"} /\ at <= Calls /\ stage' = stage /\ at' = at /\ spent' = spent
      BY <1>2 DEF Handle, InCall
    <3>2. handled' /\ voters' \subseteq voters \cup {at}
      BY <1>2 DEF Handle
    <3>3. ASSUME stage = "vote", NEW k \in voters' PROVE Heard(k)'
      BY <3>1, <3>2, <3>3 DEF AgesBounded, Heard
    <3> QED  BY <3>1, <3>3 DEF AgesBounded
  <2>2. Old
    <3> SUFFICES ASSUME stage' # "beaten", NEW k \in Watched' PROVE age'[k] <= Bound(k)'
      OBVIOUS
    <3>1. CASE k # at
      <4>1. k \in Watched /\ age'[k] = age[k] /\ stage # "beaten"
        BY <1>2, <3>1 DEF Handle, InCall
      <4>2. Bound(k)' = Bound(k)
        BY <1>2, <3>1 DEF Handle, Bound, Heard
      <4> QED  BY <4>1, <4>2 DEF AgesBounded
    <3>2. CASE k = at
      <4>1. age'[k] = 0
        BY <1>2, <3>2 DEF Handle, InCall, Restarted, AgesBounded, Heard
      <4>2. Bound(k)' = (at - k) * Deadline + spent
        BY <1>2, <3>2 DEF Handle, Bound, Heard
      <4> QED  BY <3>2, <4>1, <4>2
    <3> QED  BY <3>1, <3>2
  <2> QED  BY <2>1, <2>2
<1>3. CASE Return
  <2>1. Place
    BY <1>3 DEF Return, InCall, AgesBounded, Heard
  <2>2. Old
    <3> SUFFICES ASSUME stage' # "beaten", NEW k \in Watched' PROVE age'[k] <= Bound(k)'
      OBVIOUS
    <3>1. /\ k \in Watched /\ age'[k] = age[k] /\ age[k] <= Bound(k)
          /\ stage' = stage /\ spent <= Deadline
      BY <1>3 DEF Return, InCall, AgesBounded
    <3>2. Heard(k)' <=> Heard(k)
      <4>1. at' = at + 1 /\ ~handled' /\ stage \in {"vote", "append"}
        BY <1>3 DEF Return, InCall
      <4>2. k = at => handled
        <5>1. CASE stage = "vote"
          BY <3>1, <5>1 DEF AgesBounded, Heard
        <5>2. CASE stage = "append"
          BY <1>3, <3>1, <5>2 DEF Return
        <5> QED  BY <4>1, <5>1, <5>2
      <4> QED  BY <3>1, <4>1, <4>2 DEF Heard
    <3>3. /\ (Calls + at' - k) * Deadline = (Calls + at - k) * Deadline + Deadline
          /\ (at' - k) * Deadline = (at - k) * Deadline + Deadline
      <4>1. Calls + at' - k = (Calls + at - k) + 1 /\ at' - k = (at - k) + 1
        BY <1>3, <3>1 DEF Return
      <4> QED  BY <3>1, <4>1, OneMore
    <3> DEFINE b == (Calls + at - k) * Deadline
               c == (at - k) * Deadline
    <3>4. b \in Int /\ c \in Int /\ age[k] \in Int
      BY <3>1
    <3>5. Bound(k) = IF stage = "append" /\ ~Heard(k) THEN b + Nap + spent ELSE c + spent
      BY DEF Bound
    <3>6. Bound(k)' = IF stage = "append" /\ ~Heard(k) THEN b + Deadline + Nap ELSE c + Deadline
      BY <1>3, <3>1, <3>2, <3>3, <3>4 DEF Bound, Return
    <3> HIDE DEF b, c
    <3> QED  BY <3>1, <3>4, <3>5, <3>6
  <2> QED  BY <2>1, <2>2
<1>4. CASE EndRound
  <2>1. Place
    BY <1>4 DEF EndRound, AgesBounded
  <2>2. Old
    <3> SUFFICES ASSUME stage' # "beaten", NEW k \in Watched' PROVE age'[k] <= Bound(k)'
      OBVIOUS
    <3>1. /\ k \in Watched /\ age'[k] = age[k] /\ age[k] <= Bound(k)
          /\ at' = at /\ spent = 0 /\ spent' = 0 /\ stage' = "nap"
      BY <1>4 DEF EndRound, AgesBounded
    <3>2. Heard(k)
      BY <1>4, <3>1 DEF EndRound, Heard
    <3>3. Bound(k)' = Bound(k)
      BY <3>1, <3>2 DEF Bound
    <3> QED  BY <3>1, <3>3
  <2> QED  BY <2>1, <2>2
<1>5. CASE StartRound
  <2>1. Place
    BY <1>5 DEF StartRound, AgesBounded
  <2>2. Old
    <3> SUFFICES ASSUME stage' # "beaten", NEW k \in Watched' PROVE age'[k] <= Bound(k)'
      OBVIOUS
    <3>1. /\ k \in Watched /\ age'[k] = age[k] /\ age[k] <= Bound(k)
          /\ at = Calls + 1 /\ spent <= Nap /\ ~handled
      BY <1>5 DEF StartRound, AgesBounded
    <3>2. ~Heard(k)' /\ stage' = "append" /\ at' = 1 /\ spent' = 0
      BY <1>5, <3>1 DEF StartRound, Heard
    <3>3. Bound(k)' = (Calls + 1 - k) * Deadline + Nap
      BY <3>1, <3>2 DEF Bound
    <3>4. Bound(k) = (Calls + 1 - k) * Deadline + spent
      BY <1>5, <3>1 DEF Bound, StartRound
    <3>5. (Calls + 1 - k) * Deadline \in Int /\ age[k] \in Int
      BY <3>1
    <3> QED  BY <3>1, <3>3, <3>4, <3>5
  <2> QED  BY <2>1, <2>2
<1>6. CASE UNCHANGED vars
  BY <1>6 DEF vars, AgesBounded, Bound, Heard
<1> QED  BY <1>1, <1>2, <1>3, <1>4, <1>5, <1>6 DEF Next

\* A round that fits into the patience keeps every bound below it.
LEMMA BoundFits ==
  ASSUME RoundFits, Inv, NEW k \in Watched, stage # "beaten"
  PROVE  Bound(k) < MinPatience
<1> USE TimesAssumption DEF Inv, TypeOK, Followers, Watched
<1> DEFINE b == (Calls + at - k) * Deadline
           c == (at - k) * Deadline
           d == Calls * Deadline
<1>1. b \in Int /\ c \in Int /\ d \in Nat /\ k >= 1
  OBVIOUS
<1>2. d + Deadline + Nap < MinPatience
  BY OneMore DEF RoundFits
<1>3. c <= d
  BY <1>1, TimesOrder
<1>4. ASSUME stage = "append", ~Heard(k) PROVE b <= d
  BY <1>1, <1>4, TimesOrder DEF Heard
<1>5. spent \in Nat /\ (stage = "nap" => spent <= Nap) /\ (stage # "nap" => spent <= Deadline)
  BY DEF AgesBounded
<1>6. Bound(k) = IF stage = "append" /\ ~Heard(k) THEN b + Nap + spent ELSE c + spent
  BY DEF Bound
<1> HIDE DEF b, c, d
<1> QED  BY <1>1, <1>2, <1>3, <1>4, <1>5, <1>6

\* The inductive invariant holds initially.
LEMMA InitInv == Init => Inv
<1> SUFFICES ASSUME Init PROVE Inv
  OBVIOUS
<1>1. handled \in BOOLEAN
  BY Zenon DEF Init
<1>2. TypeOK
  BY <1>1, TimesAssumption DEF Init, TypeOK, Followers
<1>3. AgesBounded
  BY TimesAssumption DEF Init, AgesBounded, Watched
<1> QED  BY <1>2, <1>3 DEF Inv

\* The times never leave their ranges, whether or not a round fits into the patience.
THEOREM TimesInRange == Spec => []TypeOK
<1>1. Init => TypeOK
  BY InitInv DEF Inv
<1> QED  BY <1>1, TypeStep, PTL DEF Spec

\* For any number of peers and any times such that a campaign of calls that all run into
\* their deadlines is shorter than the shortest patience, no voter runs out of patience
\* with a candidate that is still counting votes (raft.h:175, 206-219), whatever the parser
\* makes of heartbeats.
THEOREM CampaignInTime == CampaignFits /\ Spec => []VotersWait
<1>0. CampaignFits /\ Init => CampaignInv
  BY InitInv DEF CampaignInv
<1>1. CampaignInv /\ [Next]_vars => CampaignInv'
  BY TypeStep, AgeStep DEF CampaignInv, Inv, CampaignFits
<1>2. CampaignInv => VotersWait
  <2> SUFFICES ASSUME CampaignFits, Inv, stage = "vote", NEW k \in voters
               PROVE  age[k] < MinPatience
    BY DEF CampaignInv, VotersWait
  <2> DEFINE c == (at - k) * Deadline
             d == Calls * Deadline
             e == (Calls - 1) * Deadline
  <2>1. c \in Int /\ d \in Nat /\ e \in Int /\ e = d - Deadline /\ k \in Nat /\ k >= 1
    BY TimesAssumption, OneMore DEF Inv, TypeOK, Followers
  <2>2. age[k] <= c + spent /\ age[k] \in Nat /\ spent \in Nat
    BY TimesAssumption DEF Inv, TypeOK, AgesBounded, Watched, Followers, Bound
  <2>3. c + spent <= d
    <3>1. CASE at = Calls + 1
      <4>1. c <= d /\ spent = 0
        BY <2>1, <3>1, TimesOrder, TimesAssumption DEF Inv, AgesBounded
      <4> HIDE DEF c, d
      <4> QED  BY <2>1, <4>1
    <3>2. CASE at # Calls + 1
      <4>1. c <= e /\ spent <= Deadline
        BY <2>1, <3>2, TimesOrder, TimesAssumption DEF Inv, TypeOK, AgesBounded
      <4> HIDE DEF c, d, e
      <4> QED  BY <2>1, <2>2, <4>1, TimesAssumption
    <3> QED  BY <3>1, <3>2
  <2>4. d < MinPatience
    BY DEF CampaignFits
  <2> HIDE DEF c, d
  <2> QED  BY <2>1, <2>2, <2>3, <2>4, TimesAssumption
<1> QED  BY <1>0, <1>1, <1>2, PTL DEF Spec

\* For any number of peers and any times such that a round of calls that all run into
\* their deadlines, once more one deadline, and the nap are shorter than the shortest
\* patience, and for a parser that lets heartbeats through, no peer that voted for a
\* leader and answers it in time ever runs out of patience with it, and so never expels
\* it (raft.h:175).
THEOREM LivingLeaderKept == RoundFits /\ Spec => []LeaderKept
<1>0. RoundFits /\ Init => FittingInv
  BY InitInv DEF FittingInv
<1>1. FittingInv /\ [Next]_vars => FittingInv'
  BY TypeStep, AgeStep DEF FittingInv, Inv, RoundFits
<1>2. FittingInv => LeaderKept
  <2> SUFFICES ASSUME RoundFits, Inv, Decodes("append"), stage # "beaten",
                      NEW k \in voters \cap Prompt
               PROVE  age[k] < MinPatience
    BY DEF FittingInv, LeaderKept
  <2>1. k \in Watched
    BY DEF Watched
  <2>2. age[k] <= Bound(k) /\ Bound(k) < MinPatience
    BY <2>1, BoundFits DEF Inv, AgesBounded
  <2>3. age[k] \in Int /\ Bound(k) \in Int /\ MinPatience \in Int
    BY TimesAssumption DEF Inv, TypeOK, Followers, Bound
  <2> QED  BY <2>2, <2>3
<1> QED  BY <1>0, <1>1, <1>2, PTL DEF Spec
=============================================================================
