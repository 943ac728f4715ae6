------------------------- MODULE MatchmakingProofs -------------------------
(***************************************************************************)
(* What TLAPS proves about Matchmaking, for any players, any finite set of *)
(* joins, any number of instances, any match size and any bounds on the    *)
(* clock, the expirations and the faults.  The invariants come in layers:  *)
(* each theorem uses the ones before it.                                   *)
(***************************************************************************)
EXTENDS Matchmaking, FiniteSetTheorems, TLAPS

----------------------------------------------------------------------------
\* Layer 1: types.

LEMMA InitType == Init => TypeOK
BY DEF Init, TypeOK, Stage

LEMMA NextType == TypeOK /\ [Next]_vars => TypeOK'
<1> SUFFICES ASSUME TypeOK, [Next]_vars PROVE TypeOK'
  OBVIOUS
<1> USE DEF TypeOK, Stage, request, redis, notices, Goto
<1>1. ASSUME NEW r \in Joins, Receive(r) PROVE TypeOK'
  BY <1>1 DEF Receive
<1>2. ASSUME NEW r \in Joins, Enqueue(r) PROVE TypeOK'
  BY <1>2 DEF Enqueue, EnqueueNX, Superseded
<1>3. ASSUME NEW r \in Joins, AlreadyQueued(r) PROVE TypeOK'
  BY <1>3 DEF AlreadyQueued
<1>4. ASSUME NEW r \in Joins, EnqueueFails(r) PROVE TypeOK'
  BY <1>4 DEF EnqueueFails, EnqueueNX, Superseded, Fail
<1>5. ASSUME NEW r \in Joins, Pop(r) PROVE TypeOK'
  BY <1>5 DEF Pop, PopMatch, TakeOut
<1>6. ASSUME NEW r \in Joins, PopNone(r) PROVE TypeOK'
  BY <1>6 DEF PopNone
<1>7. ASSUME NEW r \in Joins, PopFails(r) PROVE TypeOK'
  BY <1>7 DEF PopFails, PopMatch, TakeOut, Fail
<1>8. ASSUME NEW r \in Joins, SaveMatch(r) PROVE TypeOK'
  BY <1>8 DEF SaveMatch, CommitMatch
<1>9. ASSUME NEW r \in Joins, SaveFails(r) PROVE TypeOK'
  BY <1>9 DEF SaveFails, CommitMatch, Fail
<1>10. ASSUME NEW r \in Joins, Announce(r) PROVE TypeOK'
  BY <1>10 DEF Announce
<1>11. ASSUME NEW t \in Joins, NoteStored(t) \/ NoteFails(t) PROVE TypeOK'
  BY <1>11 DEF NoteStored, NoteFails
<1>12. ASSUME NEW p \in Players, Leave(p) PROVE TypeOK'
  BY <1>12 DEF Leave
<1>13. ASSUME NEW p \in Players, Expire(p) PROVE TypeOK'
  BY <1>13 DEF Expire
<1>14. ASSUME NEW i \in Instances, Crash(i) PROVE TypeOK'
  BY <1>14 DEF Crash
<1>15. CASE Tick
  BY <1>15 DEF Tick
<1>16. CASE UNCHANGED vars
  BY <1>16 DEF vars
<1>17. ASSUME NEW r \in Joins, PopResent(r) PROVE TypeOK'
  BY <1>17 DEF PopResent, TakeOut
<1> QED
  BY <1>1, <1>2, <1>3, <1>4, <1>5, <1>6, <1>7, <1>8, <1>9, <1>10, <1>11, <1>12, <1>13,
     <1>14, <1>15, <1>16, <1>17 DEF Next, Step

\* Every variable keeps its type.
THEOREM TypeCorrect == Spec => []TypeOK
  BY InitType, NextType, PTL DEF Spec

----------------------------------------------------------------------------
\* What a step does to the queue and to the groups taken from it.  Every action
\* is one of these seven, so the invariants below have seven cases instead of
\* seventeen.

Others(r) == \A q \in Joins \ {r} : pc'[q] = pc[q]

JoinEffect(r) ==
    /\ pc[r] = "enqueue" /\ EnqueueNX(r)
    /\ pc'[r] \in {"try", "failed"} /\ Others(r)
    /\ UNCHANGED <<player, held, matches, expiries>>

PopEffect(r) ==
    /\ pc[r] = "try" /\ PopMatch(r)
    /\ pc'[r] \in {"save", "failed"} /\ Others(r)
    /\ UNCHANGED <<player, matches, expiries>>

\* A pop whose result is lost, by a request that goes on trying.
DropEffect(r) ==
    /\ pc[r] = "try"
    /\ \E S \in SUBSET queue : TakeOut(S) /\ dropped' = dropped \cup S
    /\ UNCHANGED <<player, pc, accepted, left, renewed, held, matches, expiries>>

CommitEffect(r) ==
    /\ pc[r] = "save" /\ CommitMatch(r)
    /\ pc'[r] \in {"notify", "failed"} /\ Others(r)
    /\ UNCHANGED <<player, redis, held, expiries>>

\* The rest moves requests on, or fails them, without touching the queue.
MovesOn(r) ==
    \/ pc'[r] = pc[r]
    \/ pc[r] = "idle" /\ pc'[r] = "enqueue"
    \/ pc[r] \in {"enqueue", "notify"} /\ pc'[r] \in {"done", "failed"}
    \/ pc[r] \in {"try", "save"} /\ pc'[r] = "failed"
    \/ pc[r] = "try" /\ pc'[r] = "done" /\ Cardinality(queue) < MatchSize

QuietEffect ==
    /\ UNCHANGED <<player, redis, held, matches, expiries>>
    /\ \A r \in Joins : MovesOn(r)

Effect ==
    \/ \E r \in Joins : JoinEffect(r) \/ PopEffect(r) \/ DropEffect(r) \/ CommitEffect(r)
    \/ \E p \in Players : Leave(p) \/ Expire(p)
    \/ QuietEffect

LEMMA Effects == TypeOK /\ [Next]_vars => Effect
<1> SUFFICES ASSUME TypeOK, [Next]_vars PROVE Effect
  OBVIOUS
<1> USE DEF TypeOK, Stage, request, redis, notices, Goto
<1>1. ASSUME NEW r \in Joins, Receive(r) PROVE QuietEffect
  BY <1>1 DEF Receive, QuietEffect, MovesOn
<1>2. ASSUME NEW r \in Joins, Enqueue(r) PROVE JoinEffect(r)
  BY <1>2 DEF Enqueue, JoinEffect, Others
<1>3. ASSUME NEW r \in Joins, AlreadyQueued(r) PROVE QuietEffect
  BY <1>3 DEF AlreadyQueued, QuietEffect, MovesOn
<1>4. ASSUME NEW r \in Joins, EnqueueFails(r) PROVE JoinEffect(r) \/ QuietEffect
  <2>1. CASE EnqueueNX(r)
    BY <1>4, <2>1 DEF EnqueueFails, Fail, JoinEffect, Others
  <2>2. CASE UNCHANGED redis
    BY <1>4, <2>2 DEF EnqueueFails, Fail, QuietEffect, MovesOn
  <2> QED
    BY <1>4, <2>1, <2>2 DEF EnqueueFails
<1>5. ASSUME NEW r \in Joins, Pop(r) PROVE PopEffect(r)
  BY <1>5 DEF Pop, PopEffect, Others
<1>6. ASSUME NEW r \in Joins, PopNone(r) PROVE QuietEffect
  BY <1>6 DEF PopNone, QuietEffect, MovesOn
<1>7. ASSUME NEW r \in Joins, PopFails(r) PROVE PopEffect(r) \/ QuietEffect
  <2>1. CASE PopMatch(r)
    BY <1>7, <2>1 DEF PopFails, Fail, PopEffect, Others
  <2>2. CASE UNCHANGED <<redis, held>>
    BY <1>7, <2>2 DEF PopFails, Fail, QuietEffect, MovesOn
  <2> QED
    BY <1>7, <2>1, <2>2 DEF PopFails
<1>8. ASSUME NEW r \in Joins, SaveMatch(r) PROVE CommitEffect(r)
  BY <1>8 DEF SaveMatch, CommitEffect, Others
<1>9. ASSUME NEW r \in Joins, SaveFails(r) PROVE CommitEffect(r) \/ QuietEffect
  <2>1. CASE CommitMatch(r)
    BY <1>9, <2>1 DEF SaveFails, Fail, CommitEffect, Others
  <2>2. CASE UNCHANGED matches
    BY <1>9, <2>2 DEF SaveFails, Fail, QuietEffect, MovesOn
  <2> QED
    BY <1>9, <2>1, <2>2 DEF SaveFails
<1>10. ASSUME NEW r \in Joins, Announce(r) PROVE QuietEffect
  BY <1>10 DEF Announce, QuietEffect, MovesOn
<1>11. ASSUME NEW t \in Joins, NoteStored(t) \/ NoteFails(t) PROVE QuietEffect
  BY <1>11 DEF NoteStored, NoteFails, QuietEffect, MovesOn
<1>12. ASSUME NEW i \in Instances, Crash(i) PROVE QuietEffect
  BY <1>12 DEF Crash, InFlight, QuietEffect, MovesOn
<1>13. ASSUME Tick PROVE QuietEffect
  BY <1>13 DEF Tick, QuietEffect, MovesOn
<1>14. ASSUME UNCHANGED vars PROVE QuietEffect
  BY <1>14 DEF vars, QuietEffect, MovesOn
<1>15. ASSUME NEW r \in Joins, PopResent(r) PROVE DropEffect(r)
  BY <1>15 DEF PopResent, DropEffect
<1> HIDE DEF TypeOK, Stage, request, redis, notices, Goto
<1>16. ASSUME NEW r \in Joins,
             \/ Receive(r) \/ Step(r)
             \/ EnqueueFails(r) \/ PopFails(r) \/ PopResent(r) \/ SaveFails(r)
      PROVE Effect
  BY <1>15, <1>1, <1>2, <1>3, <1>4, <1>5, <1>6, <1>7, <1>8, <1>9, <1>10, <1>16 DEF Step, Effect
<1>17. ASSUME NEW p \in Players, Leave(p) \/ Expire(p) PROVE Effect
  BY <1>17 DEF Effect
<1>18. QuietEffect => Effect
  BY DEF Effect
<1> QED
  BY <1>11, <1>12, <1>13, <1>14, <1>16, <1>17, <1>18 DEF Next

----------------------------------------------------------------------------
\* Layer 2: custody.

\* Which stages a request can be in, given what it did to the queue.
StageInv ==
    \A r \in Joins :
        /\ pc[r] \in {"idle", "enqueue"} => r \notin accepted
        /\ pc[r] = "try" => r \in accepted
        /\ pc[r] \in {"idle", "enqueue", "try"} => held[r] = {}

CustodyInv == StageInv /\ Custody

LEMMA InitCustody == Init => CustodyInv
BY DEF Init, CustodyInv, StageInv, Custody, Popped

LEMMA NextCustody == TypeOK /\ CustodyInv /\ [Next]_vars => CustodyInv'
<1> SUFFICES ASSUME TypeOK, CustodyInv, Effect PROVE CustodyInv'
  BY Effects
<1> USE DEF TypeOK, Stage, CustodyInv, StageInv, Custody, Popped
<1>1. ASSUME NEW r \in Joins, JoinEffect(r) PROVE CustodyInv'
  BY <1>1 DEF JoinEffect, EnqueueNX, Superseded, Others
<1>2. ASSUME NEW r \in Joins, PopEffect(r) PROVE CustodyInv'
  <2>1. PICK S \in SUBSET queue : queue' = queue \ S /\ held' = [held EXCEPT ![r] = S]
    BY <1>2 DEF PopEffect, PopMatch, TakeOut
  <2>2. Popped' = Popped \cup S
    BY <1>2, <2>1 DEF PopEffect, PopMatch
  <2>3. Custody'
    BY <1>2, <2>1, <2>2 DEF PopEffect, PopMatch, TakeOut
  <2>4. StageInv'
    BY <1>2, <2>1 DEF PopEffect, PopMatch, TakeOut, Others
  <2> QED
    BY <2>3, <2>4
<1>3. ASSUME NEW r \in Joins, CommitEffect(r) PROVE CustodyInv'
  BY <1>3 DEF CommitEffect, Others, redis
<1>4. ASSUME NEW p \in Players, Leave(p) PROVE CustodyInv'
  BY <1>4 DEF Leave
<1>5. ASSUME NEW p \in Players, Expire(p) PROVE CustodyInv'
  BY <1>5 DEF Expire
<1>6. ASSUME QuietEffect PROVE CustodyInv'
  BY <1>6 DEF QuietEffect, MovesOn, redis
<1>7. ASSUME NEW r \in Joins, DropEffect(r) PROVE CustodyInv'
  BY <1>7 DEF DropEffect, TakeOut
<1> QED
  BY <1>1, <1>2, <1>3, <1>4, <1>5, <1>6, <1>7 DEF Effect

\* A join that entered the queue is queued, left, taken over or popped for one
\* request, and only one of these (ENQUEUE_NX_SCRIPT, POP_MATCH_SCRIPT, dequeue).
THEOREM CustodyHolds == Spec => []Custody
<1>1. CustodyInv => Custody
  BY DEF CustodyInv
<1> QED
  BY <1>1, InitCustody, NextCustody, TypeCorrect, PTL DEF Spec

----------------------------------------------------------------------------
\* Layer 3: the metadata keys and the sorted set.

LEMMA InitKeys == Init => KeysQueued
BY DEF Init, KeysQueued, QueuedPlayers

LEMMA NextKeys == TypeOK /\ KeysQueued /\ [Next]_vars => KeysQueued'
<1> SUFFICES ASSUME TypeOK, KeysQueued, Effect PROVE KeysQueued'
  BY Effects
<1> USE DEF TypeOK, KeysQueued, QueuedPlayers
<1>1. ASSUME NEW r \in Joins, JoinEffect(r) PROVE KeysQueued'
  BY <1>1 DEF JoinEffect, EnqueueNX, Superseded
<1>2. ASSUME NEW r \in Joins, PopEffect(r) PROVE KeysQueued'
  BY <1>2 DEF PopEffect, PopMatch, TakeOut
<1>3. ASSUME NEW r \in Joins, CommitEffect(r) PROVE KeysQueued'
  BY <1>3 DEF CommitEffect, redis
<1>4. ASSUME NEW p \in Players, Leave(p) PROVE KeysQueued'
  BY <1>4 DEF Leave, request
<1>5. ASSUME NEW p \in Players, Expire(p) PROVE KeysQueued'
  BY <1>5 DEF Expire, request
<1>6. ASSUME QuietEffect PROVE KeysQueued'
  BY <1>6 DEF QuietEffect, redis
<1>7. ASSUME NEW r \in Joins, DropEffect(r) PROVE KeysQueued'
  BY <1>7 DEF DropEffect, TakeOut
<1> QED
  BY <1>1, <1>2, <1>3, <1>4, <1>5, <1>6, <1>7 DEF Effect

\* A metadata key exists only for a member of the sorted set, which holds one
\* entry per player.
THEOREM KeysQueuedHolds == Spec => []KeysQueued
  BY InitKeys, NextKeys, TypeCorrect, PTL DEF Spec

----------------------------------------------------------------------------
\* Layer 4: matches.

\* One entry per player in a popped group, and exactly MatchSize of them.
GroupInv ==
    \A r \in Joins : held[r] # {} =>
        /\ Cardinality(held[r]) = MatchSize
        /\ \A t, u \in held[r] : player[t] = player[u] => t = u

\* A stored match is the group of the request that stored it; a request that
\* announces or has announced a match has stored it.
RecordInv ==
    /\ \A m \in matches :
        /\ m.roster = held[m.by] /\ held[m.by] # {}
        /\ pc[m.by] \in {"notify", "done", "failed"}
    /\ \A r \in Joins : pc[r] \in {"save", "notify"} => held[r] # {}
    /\ \A r \in Joins : pc[r] \in {"notify", "done"} /\ held[r] # {} =>
            [by |-> r, roster |-> held[r]] \in matches

MatchInv == GroupInv /\ RecordInv

LEMMA PositiveSize == \A S : Cardinality(S) = MatchSize => S # {}
BY FS_EmptySet, MatchSizeAssumption

LEMMA InitMatches == Init => MatchInv
BY DEF Init, MatchInv, GroupInv, RecordInv

LEMMA NextMatches ==
    TypeOK /\ CustodyInv /\ KeysQueued /\ MatchInv /\ [Next]_vars => MatchInv'
<1> SUFFICES ASSUME TypeOK, CustodyInv, KeysQueued, MatchInv, Effect PROVE MatchInv'
  BY Effects
<1> USE DEF TypeOK, Stage, MatchInv, GroupInv, RecordInv
<1>0. \A r \in Joins : pc[r] \in {"idle", "enqueue", "try"} => held[r] = {}
  BY DEF CustodyInv, StageInv
<1>1. ASSUME NEW r \in Joins, JoinEffect(r) PROVE MatchInv'
  BY <1>1, <1>0 DEF JoinEffect, Others
<1>2. ASSUME NEW r \in Joins, PopEffect(r) PROVE MatchInv'
  <2>1. PICK S \in SUBSET queue : PopMin(S) /\ held' = [held EXCEPT ![r] = S]
    BY <1>2 DEF PopEffect, PopMatch, TakeOut
  <2>2. held[r] = {} /\ S # {} /\ S \subseteq Joins
    BY <1>2, <2>1, PositiveSize DEF PopEffect, CustodyInv, StageInv, PopMin
  <2>3. GroupInv'
    BY <1>2, <2>1, <2>2 DEF PopEffect, PopMin, KeysQueued
  <2>4. RecordInv'
    BY <1>2, <2>1, <2>2 DEF PopEffect, Others
  <2> QED
    BY <2>3, <2>4
<1>3. ASSUME NEW r \in Joins, CommitEffect(r) PROVE MatchInv'
  BY <1>3 DEF CommitEffect, CommitMatch, Others
<1>4. ASSUME NEW p \in Players, Leave(p) PROVE MatchInv'
  BY <1>4 DEF Leave, request
<1>5. ASSUME NEW p \in Players, Expire(p) PROVE MatchInv'
  BY <1>5 DEF Expire, request
<1>6. ASSUME QuietEffect PROVE MatchInv'
  BY <1>6, <1>0 DEF QuietEffect, MovesOn
<1>7. ASSUME NEW r \in Joins, DropEffect(r) PROVE MatchInv'
  BY <1>7 DEF DropEffect
<1> QED
  BY <1>1, <1>2, <1>3, <1>4, <1>5, <1>6, <1>7 DEF Effect

\* The layers so far, together.
THEOREM MatchInvHolds == Spec => [](MatchInv /\ CustodyInv /\ KeysQueued /\ TypeOK)
  BY InitMatches, NextMatches, InitCustody, NextCustody, InitKeys, NextKeys,
     InitType, NextType, PTL DEF Spec

\* The players of a set of joins of different players.
LEMMA DistinctPlayers ==
  ASSUME TypeOK, NEW S \in SUBSET Joins,
         \A t, u \in S : player[t] = player[u] => t = u
  PROVE  Cardinality({player[t] : t \in S}) = Cardinality(S)
<1> DEFINE T == {player[t] : t \in S}
           f == [t \in S |-> player[t]]
<1>1. IsFiniteSet(S)
  BY FS_Subset, JoinsAssumption
<1>2. f \in Bijection(S, T)
  BY DEF Bijection, Injection, Surjection, IsInjective
<1> QED
  BY <1>1, <1>2, FS_Bijection DEF ExistsBijection

\* Every stored match seats MatchSize different players and no join twice.
THEOREM ProperMatchesHold == Spec => []ProperMatches
<1>1. TypeOK /\ CustodyInv /\ MatchInv => ProperMatches
  <2> SUFFICES ASSUME TypeOK, CustodyInv, MatchInv PROVE ProperMatches
    OBVIOUS
  <2>1. ASSUME NEW m \in matches
        PROVE  /\ m.by \in Joins /\ m.roster \in SUBSET Joins /\ m.roster = held[m.by]
               /\ m = [by |-> m.by, roster |-> m.roster]
    BY DEF TypeOK, MatchInv, RecordInv
  <2>2. ASSUME NEW m \in matches
        PROVE  /\ Cardinality(m.roster) = MatchSize
               /\ Cardinality({player[t] : t \in m.roster}) = MatchSize
    BY <2>1, DistinctPlayers DEF MatchInv, RecordInv, GroupInv
  <2>3. ASSUME NEW m \in matches, NEW n \in matches, m # n PROVE m.roster \cap n.roster = {}
    BY <2>1, <2>3 DEF CustodyInv, Custody
  <2> QED
    BY <2>2, <2>3 DEF ProperMatches
<1> QED
  BY <1>1, MatchInvHolds, PTL

----------------------------------------------------------------------------
\* Layer 5: counting.

LEMMA FiniteJoins == \A S \in SUBSET Joins : IsFiniteSet(S) /\ Cardinality(S) \in Nat
BY FS_Subset, FS_CardinalityType, JoinsAssumption

LEMMA AddOne ==
    \A S \in SUBSET Joins, r \in Joins :
        /\ Cardinality(S \cup {r}) \in Nat
        /\ Cardinality(S \cup {r}) <= Cardinality(S) + 1
        /\ r \notin S => Cardinality(S \cup {r}) = Cardinality(S) + 1
<1> SUFFICES ASSUME NEW S \in SUBSET Joins, NEW r \in Joins
             PROVE  /\ Cardinality(S \cup {r}) \in Nat
                    /\ Cardinality(S \cup {r}) <= Cardinality(S) + 1
                    /\ r \notin S => Cardinality(S \cup {r}) = Cardinality(S) + 1
  OBVIOUS
<1>1. Cardinality(S \cup {r}) = IF r \in S THEN Cardinality(S) ELSE Cardinality(S) + 1
  BY FiniteJoins, FS_AddElement
<1> QED
  BY <1>1, FiniteJoins

LEMMA RemoveOne ==
    \A S \in SUBSET Joins, r \in Joins :
        /\ Cardinality(S \ {r}) \in Nat
        /\ Cardinality(S) - 1 <= Cardinality(S \ {r})
        /\ r \in S => Cardinality(S \ {r}) = Cardinality(S) - 1
<1> SUFFICES ASSUME NEW S \in SUBSET Joins, NEW r \in Joins
             PROVE  /\ Cardinality(S \ {r}) \in Nat
                    /\ Cardinality(S) - 1 <= Cardinality(S \ {r})
                    /\ r \in S => Cardinality(S \ {r}) = Cardinality(S) - 1
  OBVIOUS
<1>1. Cardinality(S \ {r}) = IF r \in S THEN Cardinality(S) - 1 ELSE Cardinality(S)
  BY FiniteJoins, FS_RemoveElement
<1>2. S \ {r} \in SUBSET Joins
  OBVIOUS
<1> QED
  BY <1>1, <1>2, FiniteJoins

LEMMA Smaller ==
    \A T \in SUBSET Joins : \A S \in SUBSET T : Cardinality(S) <= Cardinality(T)
BY FiniteJoins, FS_Subset

LEMMA InitQuorum == Init => QuorumAccounted
<1> SUFFICES ASSUME Init PROVE QuorumAccounted
  OBVIOUS
<1>1. Cardinality(queue) = 0 /\ Owing = {}
  BY FS_EmptySet DEF Init, Owing, Trying, Abandoned
<1> QED
  BY <1>1, FS_EmptySet, MatchSizeAssumption DEF QuorumAccounted

LEMMA NextQuorum ==
    TypeOK /\ CustodyInv /\ QuorumAccounted /\ [Next]_vars => QuorumAccounted'
<1> SUFFICES ASSUME TypeOK, CustodyInv, QuorumAccounted, Effect, [Next]_vars
             PROVE  QuorumAccounted'
  BY Effects
<1>1. TypeOK'
  BY NextType
<1>2. queue \in SUBSET Joins /\ queue' \in SUBSET Joins /\ Owing \in SUBSET Joins /\ Owing' \in SUBSET Joins
  BY <1>1 DEF TypeOK, Owing, Trying, Abandoned
<1>3. /\ IsFiniteSet(queue) /\ IsFiniteSet(queue') /\ IsFiniteSet(Owing) /\ IsFiniteSet(Owing')
      /\ Cardinality(queue) \in Nat /\ Cardinality(queue') \in Nat
      /\ Cardinality(Owing) \in Nat /\ Cardinality(Owing') \in Nat
  BY <1>2, FiniteJoins
<1>4. MatchSize \in Nat \ {0}
  BY MatchSizeAssumption
<1>5. ASSUME queue' \subseteq queue, Owing \subseteq Owing' PROVE QuorumAccounted'
  <2>1. Cardinality(queue') <= Cardinality(queue) /\ Cardinality(Owing) <= Cardinality(Owing')
    BY <1>3, <1>5, FS_Subset
  <2> QED
    BY <2>1, <1>3, <1>4 DEF QuorumAccounted
<1>6. ASSUME NEW r \in Joins, JoinEffect(r) PROVE QuorumAccounted'
  <2>1. queue' = (queue \ Superseded(r)) \cup {r} /\ r \notin Owing
    BY <1>6 DEF JoinEffect, EnqueueNX, CustodyInv, StageInv, Owing, Trying, Abandoned
  <2>2. Owing \cup {r} \subseteq Owing'
    BY <1>6 DEF JoinEffect, EnqueueNX, Others, TypeOK, CustodyInv, StageInv, Owing, Trying, Abandoned
  <2>3. Cardinality(queue') <= Cardinality(queue) + 1
    <3>1. queue' \subseteq queue \cup {r} /\ queue \cup {r} \subseteq Joins
      BY <2>1, <1>2
    <3>2. Cardinality(queue') <= Cardinality(queue \cup {r})
      BY <3>1, Smaller
    <3> QED
      BY <3>2, <1>2, <1>3, AddOne
  <2>4. Cardinality(Owing) + 1 <= Cardinality(Owing')
    <3>1. Cardinality(Owing \cup {r}) = Cardinality(Owing) + 1
      BY <2>1, <1>2, AddOne
    <3> QED
      BY <3>1, <2>2, <1>2, Smaller
  <2> QED
    BY <2>3, <2>4, <1>3, <1>4 DEF QuorumAccounted
<1>7. ASSUME NEW r \in Joins, PopEffect(r) PROVE QuorumAccounted'
  <2>1. PICK S \in SUBSET queue : PopMin(S) /\ queue' = queue \ S
    BY <1>7 DEF PopEffect, PopMatch, TakeOut
  <2>2. Cardinality(queue') = Cardinality(queue) - MatchSize
    <3>1. queue \cap S = S
      OBVIOUS
    <3> QED
      BY <2>1, <3>1, <1>3, FS_Difference DEF PopMin
  <2>3. Owing \ {r} \subseteq Owing'
    BY <1>7 DEF PopEffect, PopMatch, TakeOut, Others, TypeOK, Owing, Trying, Abandoned
  <2>4. Cardinality(Owing) - 1 <= Cardinality(Owing')
    <3>1. Cardinality(Owing \ {r}) \in Nat /\ Cardinality(Owing) - 1 <= Cardinality(Owing \ {r})
      BY <1>2, RemoveOne
    <3>2. Cardinality(Owing \ {r}) <= Cardinality(Owing')
      BY <2>3, <1>2, Smaller
    <3> QED
      BY <3>1, <3>2, <1>3
  <2> QED
    BY <2>2, <2>4, <1>3, <1>4 DEF QuorumAccounted
<1>8. ASSUME NEW r \in Joins, CommitEffect(r) PROVE QuorumAccounted'
  <2>1. queue' = queue /\ held' = held /\ accepted' = accepted
    BY <1>8 DEF CommitEffect, redis
  <2>2. \A q \in Joins : pc[q] \in {"try", "failed"} => pc'[q] = pc[q]
    BY <1>8 DEF CommitEffect, Others
  <2>3. Owing \subseteq Owing'
    BY <2>1, <2>2, <1>2 DEF Owing, Trying, Abandoned
  <2> QED
    BY <2>1, <2>3, <1>5
<1>9. ASSUME NEW p \in Players, Leave(p) \/ Expire(p) PROVE QuorumAccounted'
  <2>1. queue' \subseteq queue
    BY <1>9 DEF Leave, Expire
  <2>2. pc' = pc /\ held' = held /\ accepted' = accepted
    BY <1>9 DEF Leave, Expire
  <2>3. Owing' = Owing
    BY <2>2 DEF Owing, Trying, Abandoned
  <2> QED
    BY <2>1, <2>3, <1>5
<1>10. ASSUME QuietEffect PROVE QuorumAccounted'
  <2>1. queue' = queue
    BY <1>10 DEF QuietEffect, redis
  <2>2. CASE \E r \in Joins : pc[r] = "try" /\ pc'[r] = "done"
    <3>1. Cardinality(queue) < MatchSize
      BY <1>10, <2>2 DEF QuietEffect, MovesOn
    <3> QED
      BY <3>1, <2>1, <1>3, <1>4 DEF QuorumAccounted
  <2>3. CASE \A r \in Joins : ~(pc[r] = "try" /\ pc'[r] = "done")
    <3>1. Owing \subseteq Owing'
      <4> SUFFICES ASSUME NEW r \in Owing PROVE r \in Owing'
        OBVIOUS
      <4>1. r \in Joins /\ r \in accepted /\ held[r] = {} /\ pc[r] \in {"try", "failed"}
        BY <1>2 DEF CustodyInv, StageInv, Owing, Trying, Abandoned
      <4>2. pc'[r] \in {"try", "failed"}
        BY <4>1, <1>10, <2>3 DEF QuietEffect, MovesOn
      <4>3. r \in accepted' /\ held'[r] = {}
        BY <4>1, <1>10 DEF QuietEffect, redis
      <4> QED
        BY <4>1, <4>2, <4>3 DEF Owing, Trying, Abandoned
    <3> QED
      BY <3>1, <2>1, <1>5
  <2> QED
    BY <2>2, <2>3
<1>11. ASSUME NEW r \in Joins, DropEffect(r) PROVE QuorumAccounted'
  <2>1. queue' \subseteq queue /\ pc' = pc /\ held' = held /\ accepted' = accepted
    BY <1>11 DEF DropEffect, TakeOut
  <2>2. Owing' = Owing
    BY <2>1 DEF Owing, Trying, Abandoned
  <2> QED
    BY <2>1, <2>2, <1>5
<1> QED
  BY <1>6, <1>7, <1>8, <1>9, <1>10, <1>11 DEF Effect

\* Every complete group of waiting players is owed a pop by a join of its own:
\* one that still runs, or one that died.
THEOREM QuorumAccountedHolds == Spec => []QuorumAccounted
  BY InitQuorum, NextQuorum, TypeCorrect, InitCustody, NextCustody, PTL DEF Spec

\* Members whose metadata key is gone: each may be taken over by one more join.
Unkeyed == QueuedPlayers \ keys

DuplicateInv == Cardinality(renewed) + Cardinality(Unkeyed) <= expiries

LEMMA FinitePlayers ==
  ASSUME TypeOK
  PROVE  IsFiniteSet(QueuedPlayers) /\ IsFiniteSet(Unkeyed) /\ Cardinality(Unkeyed) \in Nat
<1> DEFINE f == [t \in queue |-> player[t]]
<1>1. IsFiniteSet(queue)
  BY FiniteJoins DEF TypeOK
<1>2. f \in Surjection(queue, QueuedPlayers)
  BY DEF Surjection, QueuedPlayers
<1>3. IsFiniteSet(QueuedPlayers)
  BY <1>1, <1>2, FS_Surjection
<1>4. Unkeyed \in SUBSET QueuedPlayers
  BY DEF Unkeyed
<1>5. IsFiniteSet(Unkeyed)
  BY <1>3, <1>4, FS_Subset
<1> QED
  BY <1>3, <1>5, FS_CardinalityType

LEMMA NextDuplicate ==
    TypeOK /\ KeysQueued /\ DuplicateInv /\ [Next]_vars => DuplicateInv'
<1> SUFFICES ASSUME TypeOK, TypeOK', KeysQueued, DuplicateInv, Effect PROVE DuplicateInv'
  BY Effects, NextType
<1>1. /\ IsFiniteSet(Unkeyed) /\ Cardinality(Unkeyed) \in Nat
      /\ IsFiniteSet(Unkeyed') /\ Cardinality(Unkeyed') \in Nat
  <2>1. IsFiniteSet(Unkeyed) /\ Cardinality(Unkeyed) \in Nat
    BY FinitePlayers
  <2>2. (TypeOK => IsFiniteSet(Unkeyed) /\ Cardinality(Unkeyed) \in Nat)'
    BY FinitePlayers, PTL
  <2> QED
    BY <2>1, <2>2
<1>2. renewed \in SUBSET Joins /\ renewed' \in SUBSET Joins /\ expiries \in Nat /\ expiries' \in Nat
  BY DEF TypeOK
<1>3. Cardinality(renewed) \in Nat /\ Cardinality(renewed') \in Nat
  BY <1>2, FiniteJoins
<1>4. ASSUME renewed' = renewed, expiries' = expiries, Unkeyed' \subseteq Unkeyed
      PROVE  DuplicateInv'
  <2>1. Cardinality(Unkeyed') <= Cardinality(Unkeyed)
    BY <1>1, <1>4, FS_Subset
  <2> QED
    BY <2>1, <1>1, <1>2, <1>3, <1>4 DEF DuplicateInv
<1>5. ASSUME NEW r \in Joins, JoinEffect(r) PROVE DuplicateInv'
  <2>1. /\ queue' = (queue \ Superseded(r)) \cup {r} /\ keys' = keys \cup {player[r]}
        /\ renewed' = renewed \cup Superseded(r) /\ player[r] \notin keys
        /\ player' = player /\ expiries' = expiries
    BY <1>5 DEF JoinEffect, EnqueueNX
  <2>2. Unkeyed' \subseteq Unkeyed \ {player[r]}
    BY <2>1 DEF Unkeyed, QueuedPlayers, Superseded
  <2>3. CASE Superseded(r) = {}
    BY <2>1, <2>2, <2>3, <1>4
  <2>4. CASE Superseded(r) # {}
    <3>1. PICK t \in queue : player[t] = player[r]
      BY <2>4 DEF Superseded
    <3>2. Superseded(r) = {t} /\ t \in Joins
      BY <3>1 DEF Superseded, KeysQueued, TypeOK
    <3>3. Cardinality(renewed') <= Cardinality(renewed) + 1
      BY <3>2, <2>1, <1>2, AddOne
    <3>4. player[r] \in Unkeyed
      BY <3>1, <2>1 DEF Unkeyed, QueuedPlayers
    <3>5. /\ IsFiniteSet(Unkeyed \ {player[r]})
          /\ Cardinality(Unkeyed \ {player[r]}) = Cardinality(Unkeyed) - 1
      BY <3>4, <1>1, FS_RemoveElement
    <3>6. Cardinality(Unkeyed') <= Cardinality(Unkeyed) - 1
      BY <3>5, <2>2, FS_Subset
    <3> QED
      BY <3>3, <3>6, <2>1, <1>1, <1>2, <1>3 DEF DuplicateInv
  <2> QED
    BY <2>3, <2>4
<1>6. ASSUME NEW r \in Joins, PopEffect(r) PROVE DuplicateInv'
  <2>1. PICK S \in SUBSET queue : queue' = queue \ S /\ keys' = keys \ {player[t] : t \in S}
    BY <1>6 DEF PopEffect, PopMatch, TakeOut
  <2>2. player' = player /\ renewed' = renewed /\ expiries' = expiries
    BY <1>6 DEF PopEffect, PopMatch, TakeOut
  <2>3. Unkeyed' \subseteq Unkeyed
    BY <2>1, <2>2 DEF Unkeyed, QueuedPlayers, KeysQueued
  <2> QED
    BY <2>2, <2>3, <1>4
<1>7. ASSUME NEW r \in Joins, CommitEffect(r) PROVE DuplicateInv'
  BY <1>7, <1>4 DEF CommitEffect, redis, Unkeyed, QueuedPlayers
<1>8. ASSUME NEW p \in Players, Leave(p) PROVE DuplicateInv'
  <2>1. Unkeyed' \subseteq Unkeyed /\ renewed' = renewed /\ expiries' = expiries
    BY <1>8 DEF Leave, request, Unkeyed, QueuedPlayers
  <2> QED
    BY <2>1, <1>4
<1>9. ASSUME NEW p \in Players, Expire(p) PROVE DuplicateInv'
  <2>1. Unkeyed' = Unkeyed \cup {p} /\ p \notin Unkeyed
    BY <1>9 DEF Expire, request, Unkeyed, QueuedPlayers, KeysQueued
  <2>2. Cardinality(Unkeyed') = Cardinality(Unkeyed) + 1
    BY <2>1, <1>1, FS_AddElement
  <2>3. renewed' = renewed /\ expiries' = expiries + 1
    BY <1>9 DEF Expire
  <2> QED
    BY <2>2, <2>3, <1>1, <1>2, <1>3 DEF DuplicateInv
<1>10. ASSUME QuietEffect PROVE DuplicateInv'
  BY <1>10, <1>4 DEF QuietEffect, redis, Unkeyed, QueuedPlayers
<1>11. ASSUME NEW r \in Joins, DropEffect(r) PROVE DuplicateInv'
  <2>1. PICK S \in SUBSET queue : queue' = queue \ S /\ keys' = keys \ {player[t] : t \in S}
    BY <1>11 DEF DropEffect, TakeOut
  <2>2. player' = player /\ renewed' = renewed /\ expiries' = expiries
    BY <1>11 DEF DropEffect
  <2>3. Unkeyed' \subseteq Unkeyed
    BY <2>1, <2>2 DEF Unkeyed, QueuedPlayers, KeysQueued
  <2> QED
    BY <2>2, <2>3, <1>4
<1> QED
  BY <1>5, <1>6, <1>7, <1>8, <1>9, <1>10, <1>11 DEF Effect

\* A place in the queue is taken over by a second accepted join only after its
\* metadata key expired: two concurrent joins never both get 200.
THEOREM NoDuplicateJoinHolds == Spec => []NoDuplicateJoin
<1>1. Init => DuplicateInv
  <2> SUFFICES ASSUME Init PROVE DuplicateInv
    OBVIOUS
  <2>1. renewed = {} /\ Unkeyed = {} /\ expiries = 0
    BY DEF Init, Unkeyed, QueuedPlayers
  <2>2. Cardinality(renewed) = 0 /\ Cardinality(Unkeyed) = 0
    BY <2>1, FS_EmptySet
  <2> QED
    BY <2>1, <2>2 DEF DuplicateInv
<1>2. TypeOK /\ DuplicateInv => NoDuplicateJoin
  <2> SUFFICES ASSUME TypeOK, DuplicateInv PROVE Cardinality(renewed) <= expiries
    BY DEF NoDuplicateJoin
  <2>1. Cardinality(renewed) \in Nat /\ Cardinality(Unkeyed) \in Nat /\ expiries \in Nat
    BY FiniteJoins, FinitePlayers DEF TypeOK
  <2> QED
    BY <2>1 DEF DuplicateInv
<1> QED
  BY <1>1, <1>2, NextDuplicate, MatchInvHolds, PTL DEF Spec

----------------------------------------------------------------------------
\* Layer 6: what a player is told.

LEMMA NextNotices ==
    TypeOK /\ MatchInv /\ ToldOfRealMatches /\ [Next]_vars => ToldOfRealMatches'
<1> SUFFICES ASSUME TypeOK, MatchInv, ToldOfRealMatches, [Next]_vars PROVE ToldOfRealMatches'
  OBVIOUS
<1>1. matches \subseteq matches'
  <2>1. Effect
    BY Effects
  <2>2. ASSUME NEW p \in Players, Leave(p) \/ Expire(p) PROVE matches' = matches
    BY <2>2 DEF Leave, Expire
  <2> QED
    BY <2>1, <2>2 DEF Effect, JoinEffect, PopEffect, DropEffect, CommitEffect, CommitMatch, QuietEffect
<1>2. Matched \subseteq Matched'
  BY <1>1 DEF Matched
<1>3. ASSUME NEW r \in Joins, Announce(r) PROVE ToldOfRealMatches'
  <2>1. held[r] \subseteq Matched
    <3>1. pc[r] = "notify" /\ held[r] # {}
      BY <1>3 DEF Announce, MatchInv, RecordInv
    <3>2. [by |-> r, roster |-> held[r]] \in matches
      BY <3>1 DEF MatchInv, RecordInv
    <3> QED
      BY <3>2 DEF Matched
  <2>2. \A m \in matches : m.roster \subseteq told' \/ pc'[m.by] \in {"notify", "failed"}
    <3> SUFFICES ASSUME NEW m \in matches, ~(m.roster \subseteq told) PROVE m.roster \subseteq told' \/ pc'[m.by] \in {"notify", "failed"}
      BY <1>3 DEF Announce
    <3>1. m.by \in Joins /\ m.roster = held[m.by] /\ pc[m.by] \in {"notify", "failed"}
      BY DEF TypeOK, MatchInv, RecordInv, ToldOfRealMatches
    <3> QED
      BY <1>3, <3>1 DEF Announce, Goto, TypeOK
  <2> QED
    BY <2>1, <2>2, <1>2, <1>3 DEF Announce, ToldOfRealMatches
<1>4. ASSUME told' = told, noting' \subseteq noting, noted' \subseteq noted \cup noting,
             \A m \in matches' : m \in matches \/ pc'[m.by] \in {"notify", "failed"},
             \A q \in Joins : pc[q] \in {"notify", "failed"} => pc'[q] \in {"notify", "failed"}
      PROVE  ToldOfRealMatches'
  <2>1. \A m \in matches : m.by \in Joins
    BY DEF TypeOK
  <2> QED
    BY <2>1, <1>2, <1>4 DEF ToldOfRealMatches
<1>5. ASSUME NEW r \in Joins,
             \/ Receive(r) \/ Enqueue(r) \/ AlreadyQueued(r) \/ Pop(r) \/ PopNone(r)
             \/ EnqueueFails(r) \/ PopFails(r) \/ PopResent(r)
      PROVE  ToldOfRealMatches'
  <2>1. UNCHANGED <<matches, notices>> /\ \A q \in Joins : pc[q] \in {"notify", "failed"} => pc'[q] = pc[q]
    BY <1>5 DEF Receive, Enqueue, AlreadyQueued, Pop, PopNone, EnqueueFails, PopFails, PopResent, Fail, Goto, TypeOK
  <2> QED
    BY <1>4, <2>1 DEF notices
<1>5a. ASSUME NEW r \in Joins, SaveMatch(r) \/ SaveFails(r) PROVE ToldOfRealMatches'
  <2>1. /\ UNCHANGED notices /\ pc'[r] \in {"notify", "failed"} /\ \A q \in Joins \ {r} : pc'[q] = pc[q]
        /\ matches' \subseteq matches \cup {[by |-> r, roster |-> held[r]]}
    BY <1>5a DEF SaveMatch, SaveFails, CommitMatch, Fail, Goto, TypeOK
  <2> QED
    BY <1>4, <2>1 DEF notices
<1>6. ASSUME NEW t \in Joins, NoteStored(t) \/ NoteFails(t) PROVE ToldOfRealMatches'
  BY <1>4, <1>6 DEF NoteStored, NoteFails
<1>7. ASSUME NEW p \in Players, Leave(p) \/ Expire(p) PROVE ToldOfRealMatches'
  BY <1>4, <1>7 DEF Leave, Expire, notices
<1>8. ASSUME NEW i \in Instances, Crash(i) PROVE ToldOfRealMatches'
  BY <1>4, <1>8 DEF Crash
<1>9. CASE Tick \/ UNCHANGED vars
  BY <1>4, <1>9 DEF Tick, vars, notices
<1> QED
  BY <1>3, <1>5, <1>5a, <1>6, <1>7, <1>8, <1>9 DEF Next, Step

\* A player is told of a match only after its commit, a notification is written only
\* for a player who was told, and a match nobody was told of is still to be announced,
\* or its request failed.
THEOREM ToldOfRealMatchesHolds == Spec => []ToldOfRealMatches
<1>1. Init => ToldOfRealMatches
  BY DEF Init, ToldOfRealMatches
<1> QED
  BY <1>1, NextNotices, MatchInvHolds, PTL DEF Spec

----------------------------------------------------------------------------
\* The order of the queue.

\* A join is added when it has been received, by the same clock.
OrderInv ==
    /\ \A r \in Joins : queuedAt[r] <= clock
    /\ \A u \in queue : queuedAt[u] <= entered[u]

LEMMA NextOrder == TypeOK /\ CustodyInv /\ OrderInv /\ [Next]_vars => OrderInv'
<1> SUFFICES ASSUME TypeOK, CustodyInv, OrderInv, [Next]_vars PROVE OrderInv'
  OBVIOUS
<1>0. \A r \in Joins : pc[r] = "idle" => r \notin queue
  BY DEF CustodyInv, StageInv, Custody
<1> USE DEF TypeOK, OrderInv, request, redis
<1>1. ASSUME NEW r \in Joins, Receive(r) PROVE OrderInv'
  BY <1>0, <1>1 DEF Receive
<1>2. ASSUME NEW r \in Joins, EnqueueNX(r), UNCHANGED <<clock, queuedAt>> PROVE OrderInv'
  BY <1>2 DEF EnqueueNX
<1>3. ASSUME queue' \subseteq queue, UNCHANGED <<queuedAt, entered>>, clock <= clock', clock' \in Nat PROVE OrderInv'
  BY <1>3
<1>4. ASSUME NEW r \in Joins, Enqueue(r) \/ EnqueueFails(r) PROVE OrderInv'
  BY <1>2, <1>3, <1>4 DEF Enqueue, EnqueueFails
<1>5. ASSUME NEW r \in Joins, Pop(r) \/ PopFails(r) \/ PopResent(r) PROVE OrderInv'
  BY <1>3, <1>5 DEF Pop, PopFails, PopResent, PopMatch, TakeOut
<1>6. ASSUME NEW r \in Joins, AlreadyQueued(r) \/ PopNone(r) \/ SaveMatch(r) \/ SaveFails(r) \/ Announce(r) PROVE OrderInv'
  BY <1>3, <1>6 DEF AlreadyQueued, PopNone, SaveMatch, SaveFails, Announce
<1>7. ASSUME NEW t \in Joins, NoteStored(t) \/ NoteFails(t) PROVE OrderInv'
  BY <1>3, <1>7 DEF NoteStored, NoteFails
<1>8. ASSUME NEW p \in Players, Leave(p) \/ Expire(p) PROVE OrderInv'
  BY <1>3, <1>8 DEF Leave, Expire
<1>9. ASSUME NEW i \in Instances, Crash(i) PROVE OrderInv'
  BY <1>3, <1>9 DEF Crash
<1>10. CASE Tick \/ UNCHANGED vars
  BY <1>3, <1>10 DEF Tick, vars
<1> HIDE DEF TypeOK, OrderInv, request, redis
<1> QED
  BY <1>1, <1>4, <1>5, <1>6, <1>7, <1>8, <1>9, <1>10 DEF Next, Step

\* A join that was received after another had been added is never popped before it: the
\* pop takes the lowest scores, and a score is no later than the moment of its adding.
THEOREM NoLateOvertakingHolds == Spec => NoLateOvertaking
<1> DEFINE Ordered == \A t \in queue \ queue', u \in queue \cap queue' :
                          t \in Popped' => queuedAt[t] <= entered[u]
<1>1. TypeOK /\ CustodyInv /\ OrderInv /\ [Next]_vars => Ordered
  <2> SUFFICES ASSUME TypeOK, CustodyInv, OrderInv, Effect,
                      NEW t \in queue \ queue', NEW u \in queue \cap queue', t \in Popped'
               PROVE  queuedAt[t] <= entered[u]
    BY Effects
  <2>1. t \notin Popped
    BY DEF CustodyInv, Custody
  <2>2. held' # held \/ dropped' # dropped
    BY <2>1 DEF Popped
  <2>3. PICK r \in Joins : PopEffect(r) \/ DropEffect(r)
    BY <2>2 DEF Effect, JoinEffect, EnqueueNX, CommitEffect, Leave, Expire, QuietEffect, redis
  <2>4. PICK S \in SUBSET queue : PopMin(S) /\ queue' = queue \ S
    BY <2>3 DEF PopEffect, PopMatch, DropEffect, TakeOut
  <2>5. queuedAt[t] <= queuedAt[u]
    BY <2>4 DEF PopMin
  <2>6. queuedAt[u] <= entered[u]
    BY DEF OrderInv
  <2> QED
    BY <2>5, <2>6 DEF TypeOK
<1>2. TypeOK /\ CustodyInv /\ OrderInv /\ [Next]_vars => [Ordered]_vars
  BY <1>1
<1>3. Init => OrderInv
  BY DEF Init, OrderInv
<1> QED
  BY <1>2, <1>3, NextOrder, MatchInvHolds, PTL DEF Spec, NoLateOvertaking

----------------------------------------------------------------------------
\* Without faults the sentences of the API documentation and of the tests hold.

\* A failed request has spent a fault, and faults stay within their bound.
FaultInv ==
    /\ faults <= MaxFaults
    /\ (\E r \in Joins : pc[r] = "failed") \/ dropped # {} => faults > 0

LEMMA NextFaults == TypeOK /\ FaultInv /\ [Next]_vars => FaultInv'
<1> SUFFICES ASSUME TypeOK, FaultInv, [Next]_vars PROVE FaultInv'
  OBVIOUS
<1> USE BoundsAssumption DEF TypeOK, Stage, FaultInv, Goto
<1>1. ASSUME NEW r \in Joins, EnqueueFails(r) \/ PopFails(r) \/ SaveFails(r) PROVE FaultInv'
  BY <1>1 DEF EnqueueFails, EnqueueNX, PopFails, SaveFails, Fail
<1>2. ASSUME NEW r \in Joins, Receive(r) \/ Step(r) PROVE FaultInv'
  BY <1>2 DEF Receive, Step, Enqueue, EnqueueNX, AlreadyQueued, Pop, PopMatch, PopNone, SaveMatch,
     Announce, redis
<1>3. ASSUME NEW t \in Joins, NoteStored(t) \/ NoteFails(t) PROVE FaultInv'
  BY <1>3 DEF NoteStored, NoteFails, redis
<1>4. ASSUME NEW p \in Players, Leave(p) \/ Expire(p) PROVE FaultInv'
  BY <1>4 DEF Leave, Expire
<1>5. ASSUME NEW i \in Instances, Crash(i) PROVE FaultInv'
  BY <1>5 DEF Crash, redis
<1>6. CASE Tick \/ UNCHANGED vars
  BY <1>6 DEF Tick, vars, redis
<1>7. ASSUME NEW r \in Joins, PopResent(r) PROVE FaultInv'
  BY <1>7 DEF PopResent
<1> HIDE DEF TypeOK, Stage, FaultInv, Goto
<1> QED
  BY <1>1, <1>2, <1>3, <1>4, <1>5, <1>6, <1>7 DEF Next

LEMMA FaultInvHolds == Spec => []FaultInv
<1>1. Init => FaultInv
  BY BoundsAssumption DEF Init, FaultInv
<1> QED
  BY <1>1, NextFaults, TypeCorrect, PTL DEF Spec

\* While no call fails and no instance dies, no popped player is lost, for any
\* number of concurrent joins and leaves: the window is only a fault's.
THEOREM NoLossWithoutFaults ==
  ASSUME MaxFaults = 0
  PROVE  Spec => []NoPlayerLost
<1>1. TypeOK /\ MatchInv /\ FaultInv => NoPlayerLost
  <2> SUFFICES ASSUME TypeOK, MatchInv, FaultInv, NEW r \in Joins,
                      pc[r] \in {"notify", "done", "failed"}, held[r] # {}
               PROVE  held[r] \subseteq Matched
    BY DEF NoPlayerLost, FaultInv, TypeOK
  <2>1. pc[r] # "failed"
    BY DEF FaultInv, TypeOK
  <2>2. [by |-> r, roster |-> held[r]] \in matches
    BY <2>1 DEF MatchInv, RecordInv
  <2> QED
    BY <2>2 DEF Matched
<1> QED
  BY <1>1, MatchInvHolds, FaultInvHolds, PTL

\* And then a quorum never waits without a join that is about to pop it.
THEOREM QuorumServedWithoutFaults ==
  ASSUME MaxFaults = 0
  PROVE  Spec => []QuorumServed
<1>1. TypeOK /\ QuorumAccounted /\ FaultInv => QuorumServed
  <2> SUFFICES ASSUME TypeOK, QuorumAccounted, FaultInv, Trying = {}
               PROVE  ~(Cardinality(queue) >= MatchSize)
    BY DEF QuorumServed
  <2>1. Owing = {}
    BY DEF FaultInv, TypeOK, Owing, Abandoned
  <2>2. Cardinality(Owing) = 0
    BY <2>1, FS_EmptySet
  <2>3. Cardinality(queue) \in Nat
    BY FiniteJoins DEF TypeOK
  <2> QED
    BY <2>2, <2>3, MatchSizeAssumption DEF QuorumAccounted
<1> QED
  BY <1>1, TypeCorrect, QuorumAccountedHolds, FaultInvHolds, PTL

\* While no metadata key reaches its TTL, every member of the sorted set has its key, and
\* GET /status answers inQueue for every player who waits, whatever fails or crashes.
THEOREM StatusTruthfulWithoutExpiry ==
  ASSUME MaxExpiries = 0
  PROVE  Spec => []StatusTruthful
<1>1. Init => StatusTruthful
  BY DEF Init, StatusTruthful, QueuedPlayers
<1>2. TypeOK /\ KeysQueued /\ StatusTruthful /\ [Next]_vars => StatusTruthful'
  <2> SUFFICES ASSUME TypeOK, KeysQueued, StatusTruthful, Effect PROVE StatusTruthful'
    BY Effects
  <2> USE DEF TypeOK, StatusTruthful, QueuedPlayers
  <2>1. ASSUME NEW r \in Joins, JoinEffect(r) PROVE StatusTruthful'
    BY <2>1 DEF JoinEffect, EnqueueNX
  <2>2. ASSUME NEW r \in Joins, PopEffect(r) PROVE StatusTruthful'
    BY <2>2 DEF PopEffect, PopMatch, TakeOut, KeysQueued
  <2>3. ASSUME NEW r \in Joins, DropEffect(r) PROVE StatusTruthful'
    BY <2>3 DEF DropEffect, TakeOut, KeysQueued
  <2>4. ASSUME NEW r \in Joins, CommitEffect(r) PROVE StatusTruthful'
    BY <2>4 DEF CommitEffect, redis
  <2>5. ASSUME NEW p \in Players, Leave(p) PROVE StatusTruthful'
    BY <2>5 DEF Leave, request
  <2>6. ASSUME NEW p \in Players, Expire(p) PROVE StatusTruthful'
    BY <2>6 DEF Expire
  <2>7. ASSUME QuietEffect PROVE StatusTruthful'
    BY <2>7 DEF QuietEffect, redis
  <2> QED
    BY <2>1, <2>2, <2>3, <2>4, <2>5, <2>6, <2>7 DEF Effect
<1> QED
  BY <1>1, <1>2, TypeCorrect, KeysQueuedHolds, PTL DEF Spec

----------------------------------------------------------------------------
\* The abstract service.

LEMMA NextService ==
    TypeOK /\ CustodyInv /\ KeysQueued /\ MatchInv /\ [Next]_vars => [Service!Next]_(Service!vars)
<1> SUFFICES ASSUME TypeOK, CustodyInv, KeysQueued, MatchInv, Effect
             PROVE  Service!Next \/ UNCHANGED Service!vars
  BY Effects
<1> DEFINE waiting == queue \cup (Popped \ Matched)
           rosters == {m.roster : m \in matches}
<1>1. Matched = UNION rosters /\ Matched \subseteq Popped /\ Popped \subseteq Joins
  BY DEF Matched, Popped, MatchInv, RecordInv, TypeOK
<1>2. accepted = waiting \cup left \cup renewed \cup UNION rosters
  BY <1>1 DEF CustodyInv, Custody
<1>3. ASSUME UNCHANGED <<player, queue, left, renewed, held, dropped, matches>> PROVE UNCHANGED Service!vars
  BY <1>3 DEF Service!vars, Popped, Matched
<1>4. ASSUME NEW r \in Joins, JoinEffect(r) PROVE Service!Next
  <2>1. r \notin accepted
    BY <1>4 DEF JoinEffect, CustodyInv, StageInv
  <2>2. Popped' = Popped /\ Matched' = Matched /\ rosters' = rosters
    BY <1>4 DEF JoinEffect, EnqueueNX, Popped, Matched
  <2>3. /\ queue' = (queue \ Superseded(r)) \cup {r}
        /\ renewed' = renewed \cup Superseded(r) /\ left' = left /\ player' = player
    BY <1>4 DEF JoinEffect, EnqueueNX
  <2>4. Superseded(r) \in SUBSET {u \in waiting : player[u] = player[r]}
    BY DEF Superseded
  <2>5. waiting' = (waiting \ Superseded(r)) \cup {r}
    BY <2>2, <2>3 DEF Superseded, CustodyInv, Custody
  <2>6. r \notin waiting \cup Service!Settled
    BY <2>1, <1>2 DEF Service!Settled
  <2>7. Service!Join(r)
    BY <2>2, <2>3, <2>4, <2>5, <2>6 DEF Service!Join
  <2> QED
    BY <2>7 DEF Service!Next
<1>5. ASSUME NEW r \in Joins, PopEffect(r) PROVE UNCHANGED Service!vars
  <2>1. PICK S \in SUBSET queue : queue' = queue \ S /\ held' = [held EXCEPT ![r] = S]
    BY <1>5 DEF PopEffect, PopMatch, TakeOut
  <2>2. held[r] = {}
    BY <1>5 DEF PopEffect, CustodyInv, StageInv
  <2>3. Popped' = Popped \cup S
    BY <1>5, <2>1, <2>2 DEF PopEffect, PopMatch, Popped, TypeOK
  <2>4. Matched' = Matched /\ rosters' = rosters
    BY <1>5 DEF PopEffect, Matched
  <2>5. waiting' = waiting
    BY <2>1, <2>3, <2>4, <1>1 DEF CustodyInv, Custody
  <2> QED
    BY <1>5, <2>4, <2>5 DEF Service!vars, PopEffect, PopMatch
<1>6. ASSUME NEW r \in Joins, CommitEffect(r) PROVE Service!Next
  <2>1. pc[r] = "save" /\ held[r] # {} /\ held[r] \subseteq Popped
    BY <1>6 DEF CommitEffect, MatchInv, RecordInv, Popped
  <2>2. held[r] \cap Matched = {}
    <3>1. ASSUME NEW m \in matches PROVE held[r] \cap m.roster = {}
      <4>1. m.by \in Joins /\ m.roster = held[m.by] /\ m.by # r
        BY <2>1 DEF MatchInv, RecordInv, TypeOK
      <4> QED
        BY <4>1 DEF CustodyInv, Custody
    <3> QED
      BY <3>1 DEF Matched
  <2>3. held[r] \cap queue = {}
    BY <2>1 DEF CustodyInv, Custody
  <2>4. Popped' = Popped /\ UNCHANGED <<player, queue, left, renewed>>
    BY <1>6 DEF CommitEffect, redis, Popped
  <2>5. PICK S \in SUBSET waiting : S = held[r]
    BY <2>1, <2>2
  <2>6. matches' = matches \cup {[by |-> r, roster |-> S]} /\ [by |-> r, roster |-> S].roster = S
    BY <1>6, <2>5 DEF CommitEffect, CommitMatch
  <2>7. rosters' = rosters \cup {S} /\ Matched' = Matched \cup S
    <3>1. rosters' = rosters \cup {S}
      BY <2>6
    <3>2. Matched = UNION rosters /\ Matched' = UNION rosters'
      BY DEF Matched
    <3> HIDE DEF rosters
    <3> QED
      BY <3>1, <3>2
  <2>8. waiting' = waiting \ S
    BY <2>3, <2>4, <2>5, <2>7
  <2>9. /\ S \in {T \in SUBSET Joins : Cardinality(T) = MatchSize}
        /\ \A t, u \in S : player[t] = player[u] => t = u
    BY <2>1, <2>5, <1>1 DEF MatchInv, GroupInv
  <2>10. Service!Form(S)
    BY <2>4, <2>7, <2>8, <2>9 DEF Service!Form
  <2> QED
    BY <2>10 DEF Service!Next, Service!FormAny
<1>7. ASSUME NEW p \in Players, Leave(p) PROVE Service!Next \/ UNCHANGED Service!vars
  <2>1. /\ queue' = {t \in queue : player[t] # p}
        /\ left' = left \cup {t \in queue : player[t] = p}
        /\ UNCHANGED <<player, renewed, held, dropped, matches>>
    BY <1>7 DEF Leave, request
  <2>2. Popped' = Popped /\ Matched' = Matched /\ rosters' = rosters
    BY <2>1 DEF Popped, Matched
  <2>3. CASE {t \in queue : player[t] = p} = {}
    BY <2>1, <2>3, <1>3
  <2>4. CASE {t \in queue : player[t] = p} # {}
    <3>1. PICK t \in queue : player[t] = p
      BY <2>4
    <3>2. {u \in queue : player[u] = p} = {t}
      BY <3>1 DEF KeysQueued
    <3>3. waiting' = waiting \ {t} /\ t \in waiting /\ left' = left \cup {t}
      BY <2>1, <2>2, <3>1, <3>2 DEF CustodyInv, Custody
    <3>4. Service!Leave(t) /\ t \in Joins
      BY <2>1, <2>2, <3>3 DEF Service!Leave, TypeOK
    <3> QED
      BY <3>4 DEF Service!Next
  <2> QED
    BY <2>3, <2>4
<1>8. ASSUME NEW p \in Players, Expire(p) PROVE UNCHANGED Service!vars
  BY <1>8, <1>3 DEF Expire, request
<1>9. ASSUME QuietEffect PROVE UNCHANGED Service!vars
  BY <1>9, <1>3 DEF QuietEffect, redis
<1>10. ASSUME NEW r \in Joins, DropEffect(r) PROVE UNCHANGED Service!vars
  <2>1. PICK S \in SUBSET queue : queue' = queue \ S /\ dropped' = dropped \cup S
    BY <1>10 DEF DropEffect, TakeOut
  <2>2. Popped' = Popped \cup S /\ Matched' = Matched /\ rosters' = rosters
    BY <1>10, <2>1 DEF DropEffect, Popped, Matched
  <2>3. waiting' = waiting
    BY <2>1, <2>2, <1>1 DEF CustodyInv, Custody
  <2> QED
    BY <1>10, <2>2, <2>3 DEF Service!vars, DropEffect
<1> QED
  BY <1>4, <1>5, <1>6, <1>7, <1>8, <1>9, <1>10 DEF Effect

\* Matchmaking implements MatchService: seats are filled in one step, from
\* waiting joins of different players, and a join settles once.
THEOREM Implements == Spec => ServiceSpec
<1>1. Init => Service!Init
  BY DEF Init, Service!Init, Popped, Matched
<1>2. TypeOK /\ CustodyInv /\ KeysQueued /\ MatchInv /\ [Next]_vars => [Service!Next]_(Service!vars)
  BY NextService
<1> QED
  BY <1>1, <1>2, MatchInvHolds, PTL DEF Spec, ServiceSpec, Service!Spec

=============================================================================
