---------------------------- MODULE FriendsProofs ----------------------------
(***************************************************************************)
(* What is proved of Friends for all users and requests: types, consent,   *)
(* that an accepted request has its friendship, that the sends are         *)
(* accounted for, and that friendships are stored both ways.               *)
(***************************************************************************)
EXTENDS Friends, FiniteSetTheorems, TLAPS

----------------------------------------------------------------------------
\* Types.

PcType ==
    /\ pc \in [Ops -> SendStage \cup AcceptStage \cup RejectStage \cup RemoveStage]
    /\ \A s \in Sends : pc[s] \in SendStage
    /\ \A a \in Accepts : pc[a] \in AcceptStage
    /\ \A r \in Rejects : pc[r] \in RejectStage
    /\ \A d \in Removes : pc[d] \in RemoveStage

DataType ==
    /\ pair \in [Ops -> Pairs]
    /\ status \in [Pairs -> {"none", "pending", "accepted", "rejected"}]
    /\ rows \in SUBSET Friendship
    /\ adding \in [Accepts -> SUBSET Friendship]
    /\ victims \in [Removes -> SUBSET Friendship]
    /\ deleting \in [Removes -> SUBSET Friendship]
    /\ undercut \in SUBSET Accepts /\ unfriended \in SUBSET Pairs /\ clashed \in SUBSET Pairs
    /\ faults \in Nat

LEMMA TypeParts == TypeOK <=> PcType /\ DataType
    BY DEF TypeOK, PcType, DataType

LEMMA InitType == Init => TypeOK
    BY DEF Init, TypeOK, SendStage, AcceptStage, RejectStage, RemoveStage, Ops, Pairs

\* One handler moves to a stage of its own kind.
LEMMA StageType ==
    ASSUME PcType, NEW o \in Ops, NEW g, Goto(o, g),
           \/ o \in Sends /\ g \in SendStage
           \/ o \in Accepts /\ g \in AcceptStage
           \/ o \in Rejects /\ g \in RejectStage
           \/ o \in Removes /\ g \in RemoveStage
    PROVE  PcType'
<1>1. /\ g \in SendStage \cup AcceptStage \cup RejectStage \cup RemoveStage
      /\ pc' = [pc EXCEPT ![o] = g]
    BY DEF Goto
<1>2. pc' \in [Ops -> SendStage \cup AcceptStage \cup RejectStage \cup RemoveStage]
    BY <1>1 DEF PcType
<1>3. \A q \in Ops : pc'[q] = IF q = o THEN g ELSE pc[q]
    BY <1>1 DEF PcType
<1> QED
    BY <1>2, <1>3, OpsAssumption DEF PcType, Ops

LEMMA Couples == \A p \in Pairs : Rev(p) \in Pairs /\ Couple(p) \subseteq Pairs /\ Rev(Rev(p)) = p /\ p \in Couple(p)
    BY DEF Pairs, Rev, Couple

\* The data that the actions write keep their types.
LEMMA NextData == TypeOK /\ [Next]_vars => DataType'
<1> SUFFICES ASSUME TypeOK, [Next]_vars PROVE DataType'
    OBVIOUS
<1> USE DEF DataType, locks, past, Answer, Lose, Fault, Ops
<1>0. DataType /\ \A a \in Accepts : pair[a] \in Pairs /\ Rev(pair[a]) \in Pairs /\ Couple(pair[a]) \subseteq Pairs
    BY TypeParts, Couples
<1>00. \A d \in Removes : pair[d] \in Pairs /\ Rev(pair[d]) \in Pairs /\ Couple(pair[d]) \subseteq Pairs
    BY TypeParts, Couples
<1>1. CASE UNCHANGED vars
    BY <1>1, <1>0 DEF vars
<1>2. ASSUME NEW s \in Sends, CheckFriends(s) \/ CheckPending(s) \/ Refuse(s) PROVE DataType'
    BY <1>2, <1>0 DEF CheckFriends, CheckPending, Refuse
<1>3. ASSUME NEW s \in Sends, Create(s) PROVE DataType'
    BY <1>3, <1>0 DEF Create
<1>4. ASSUME NEW o \in Accepts \cup Rejects, FindPending(o) PROVE DataType'
    BY <1>4, <1>0 DEF FindPending
<1>5. ASSUME NEW a \in Accepts, MarkAccepted(a) PROVE DataType'
    BY <1>5, <1>0 DEF MarkAccepted
<1>6. ASSUME NEW a \in Accepts, NEW k \in Pairs, InsertKey(a, k) PROVE adding' \in [Accepts -> SUBSET Friendship]
    <2>1. [key |-> k, by |-> a] \in Friendship
        BY DEF Friendship
    <2> QED
        BY <2>1, <1>6, <1>0 DEF InsertKey
<1>7. ASSUME NEW a \in Accepts, InsertFirst(a) \/ InsertSecond(a) PROVE DataType'
    BY <1>7, <1>6, <1>0 DEF InsertFirst, InsertSecond
<1>8. ASSUME NEW a \in Accepts, CommitAccept(a) PROVE DataType'
    <2>1. clashed' \in SUBSET Pairs /\ unfriended' \in SUBSET Pairs
        BY <1>8, <1>0 DEF CommitAccept
    <2>2. rows' \in SUBSET Friendship
        BY <1>8, <1>0 DEF CommitAccept, Befriend
    <2> QED
        BY <2>1, <2>2, <1>8, <1>0 DEF CommitAccept
<1>9. ASSUME NEW r \in Rejects, Reject(r) PROVE DataType'
    BY <1>9, <1>0 DEF Reject
<1>10. ASSUME NEW d \in Removes, NEW k \in Pairs, FindRow(d, k) PROVE victims' \in [Removes -> SUBSET Friendship]
    BY <1>10, <1>0 DEF FindRow
<1>11. ASSUME NEW d \in Removes, BeginRemove(d) \/ DeleteReverse(d) PROVE DataType'
    BY <1>11, <1>10, <1>0, <1>00 DEF BeginRemove, DeleteReverse
<1>12. ASSUME NEW d \in Removes, DeleteRow(d) PROVE DataType'
    <2>1. PICK r \in victims[d] : deleting' = [deleting EXCEPT ![d] = @ \cup ({r} \cap rows)]
        BY <1>12 DEF DeleteRow
    <2>2. deleting' \in [Removes -> SUBSET Friendship]
        BY <2>1, <1>0
    <2> QED
        BY <2>2, <1>12, <1>0 DEF DeleteRow
<1>13. ASSUME NEW d \in Removes, CommitRemove(d) PROVE DataType'
    <2>1. clashed' \in SUBSET Pairs /\ unfriended' \in SUBSET Pairs /\ undercut' \in SUBSET Accepts
        BY <1>13, <1>0, <1>00 DEF CommitRemove, Accepting
    <2> QED
        BY <2>1, <1>13, <1>0 DEF CommitRemove
<1>14. ASSUME NEW a \in Accepts, AbortAccept(a) PROVE DataType'
    BY <1>14, <1>0 DEF AbortAccept
<1>15. ASSUME NEW d \in Removes, AbortRemove(d) PROVE DataType'
    BY <1>15, <1>0 DEF AbortRemove
<1>16. ASSUME NEW o \in Ops, Fail(o) PROVE DataType'
    BY <1>16, <1>0 DEF Fail
<1> QED
    BY <1>1, <1>2, <1>3, <1>4, <1>5, <1>7, <1>8, <1>9, <1>11, <1>12, <1>13, <1>14, <1>15, <1>16
       DEF Next, SendRuns, AcceptRuns, RemoveRuns
LEMMA NextPc == TypeOK /\ [Next]_vars => PcType'
<1> SUFFICES ASSUME TypeOK, [Next]_vars PROVE PcType'
    OBVIOUS
<1> USE DEF Answer, Lose, Ops
<1>0. PcType
    BY TypeParts
<1>1. ASSUME NEW s \in Sends, CheckFriends(s) \/ SendRuns(s) PROVE PcType'
    <2>1. PICK g \in SendStage : Goto(s, g)
        BY <1>1 DEF CheckFriends, SendRuns, CheckPending, Create, Refuse, SendStage
    <2> QED
        BY <2>1, <1>0, StageType
<1>2. ASSUME NEW o \in Accepts \cup Rejects, FindPending(o) PROVE PcType'
    <2>1. PICK g \in {"update", "denied"} : Goto(o, g)
        BY <1>2 DEF FindPending
    <2> QED
        BY <2>1, <1>0, StageType DEF AcceptStage, RejectStage
<1>3. ASSUME NEW a \in Accepts, AcceptRuns(a) \/ AbortAccept(a) PROVE PcType'
    <2>1. PICK g \in AcceptStage : Goto(a, g)
        BY <1>3 DEF AcceptRuns, MarkAccepted, InsertFirst, InsertSecond, CommitAccept, AbortAccept, AcceptStage
    <2> QED
        BY <2>1, <1>0, StageType
<1>4. ASSUME NEW r \in Rejects, Reject(r) PROVE PcType'
    <2>1. PICK g \in RejectStage : Goto(r, g)
        BY <1>4 DEF Reject, RejectStage
    <2> QED
        BY <2>1, <1>0, StageType
<1>5. ASSUME NEW d \in Removes, BeginRemove(d) \/ DeleteReverse(d) \/ CommitRemove(d) \/ AbortRemove(d) PROVE PcType'
    <2>1. PICK g \in RemoveStage : Goto(d, g)
        BY <1>5 DEF BeginRemove, DeleteReverse, CommitRemove, AbortRemove, RemoveStage
    <2> QED
        BY <2>1, <1>0, StageType
<1>6. ASSUME NEW o \in Ops, Fail(o) PROVE PcType'
    <2>1. Goto(o, "failed") /\ o \in Sends \cup Rejects
        BY <1>6 DEF Fail
    <2> QED
        BY <2>1, <1>0, StageType DEF SendStage, RejectStage
<1>7. CASE UNCHANGED vars \/ \E d \in Removes : DeleteRow(d)
    BY <1>7, <1>0 DEF vars, DeleteRow, PcType
<1> QED
    BY <1>1, <1>2, <1>3, <1>4, <1>5, <1>6, <1>7 DEF Next, AcceptRuns, RemoveRuns

LEMMA NextType == TypeOK /\ [Next]_vars => TypeOK'
<1>1. PcType' /\ DataType' => TypeOK'
    BY DEF TypeOK, PcType, DataType
<1> QED
    BY <1>1, NextPc, NextData

\* Handlers and rows keep their types.
THEOREM TypeCorrect == Spec => []TypeOK
    BY InitType, NextType, PTL DEF Spec
----------------------------------------------------------------------------
\* Answers and requests do not change any more.

Answered == {"sent", "lost", "done"}

LEMMA Steady ==
    ASSUME TypeOK, [Next]_vars
    PROVE  pair' = pair /\ \A o \in Ops : pc[o] \in Answered => pc'[o] = pc[o]
<1> USE DEF locks, past, Answer, Lose, Goto, Answered, Ops, TypeOK
<1>1. ASSUME NEW s \in Sends, CheckFriends(s) \/ SendRuns(s)
      PROVE  pair' = pair /\ \A o \in Ops : pc[o] \in Answered => pc'[o] = pc[o]
    BY <1>1 DEF CheckFriends, SendRuns, CheckPending, Create, Refuse
<1>2. ASSUME NEW o \in Accepts \cup Rejects, FindPending(o)
      PROVE  pair' = pair /\ \A q \in Ops : pc[q] \in Answered => pc'[q] = pc[q]
    BY <1>2 DEF FindPending
<1>3. ASSUME NEW a \in Accepts, AcceptRuns(a) \/ AbortAccept(a)
      PROVE  pair' = pair /\ \A o \in Ops : pc[o] \in Answered => pc'[o] = pc[o]
    BY <1>3 DEF AcceptRuns, MarkAccepted, InsertFirst, InsertSecond, CommitAccept, AbortAccept
<1>4. ASSUME NEW r \in Rejects, Reject(r)
      PROVE  pair' = pair /\ \A o \in Ops : pc[o] \in Answered => pc'[o] = pc[o]
    BY <1>4 DEF Reject
<1>5. ASSUME NEW d \in Removes, BeginRemove(d) \/ RemoveRuns(d) \/ AbortRemove(d)
      PROVE  pair' = pair /\ \A o \in Ops : pc[o] \in Answered => pc'[o] = pc[o]
    BY <1>5 DEF BeginRemove, RemoveRuns, DeleteRow, DeleteReverse, CommitRemove, AbortRemove
<1>6. ASSUME NEW o \in Ops, Fail(o)
      PROVE  pair' = pair /\ \A q \in Ops : pc[q] \in Answered => pc'[q] = pc[q]
    BY <1>6, OpsAssumption DEF Fail
<1>7. CASE UNCHANGED vars
    BY <1>7 DEF vars
<1> QED
    BY <1>1, <1>2, <1>3, <1>4, <1>5, <1>6, <1>7 DEF Next

----------------------------------------------------------------------------
\* Consent.  A request row, a decision under way and a friendship that is being
\* inserted each go back to a send that succeeded.

Sent(p) == \E s \in Sends : pair[s] = p /\ pc[s] \in {"sent", "lost"}

RowsSent    == \A p \in Pairs : status[p] # "none" => Sent(p)
DecidedSent == \A o \in Accepts \cup Rejects :
                  pc[o] \in {"update", "first", "second", "commit"} => Sent(pair[o])
AddsOwn     == \A a \in Accepts : \A r \in adding[a] : r.by = a /\ r.key \in Couple(pair[a])
ConsentInv  == RowsSent /\ DecidedSent /\ AddsOwn /\ FriendsConsented

LEMMA SentStays ==
    ASSUME TypeOK, [Next]_vars
    PROVE  \A p : Sent(p) => Sent(p)'
BY Steady DEF Sent, Answered, Ops

LEMMA RowsSentStep == TypeOK /\ ConsentInv /\ [Next]_vars => RowsSent'
<1> SUFFICES ASSUME TypeOK, ConsentInv, [Next]_vars PROVE RowsSent'
    OBVIOUS
<1> DEFINE Same == status' = status \/ \E p \in Pairs : Sent(p)' /\ \E x : status' = [status EXCEPT ![p] = x]
<1>0. \A p : Sent(p) => Sent(p)'
    BY SentStays
<1>1. Same => RowsSent'
    BY <1>0 DEF ConsentInv, RowsSent, TypeOK
<1>2. \A o \in Ops : pair[o] \in Pairs
    BY DEF TypeOK
<1>3. ASSUME NEW s \in Sends, Create(s) PROVE Same
    <2>1. pair' = pair /\ pc'[s] \in {"sent", "lost"}
        BY <1>3 DEF Create, Answer, Lose, Goto, TypeOK, Ops
    <2>2. Sent(pair[s])'
        BY <2>1 DEF Sent
    <2> QED
        BY <2>2, <1>3, <1>2 DEF Create, Ops
<1>4. ASSUME NEW a \in Accepts, CommitAccept(a) PROVE Same
    <2>1. Sent(pair[a])
        BY <1>4 DEF CommitAccept, ConsentInv, DecidedSent
    <2> QED
        BY <2>1, <1>0, <1>4, <1>2 DEF CommitAccept, Ops
<1>5. ASSUME NEW r \in Rejects, Reject(r) PROVE Same
    <2>1. Sent(pair[r])
        BY <1>5 DEF Reject, ConsentInv, DecidedSent
    <2> QED
        BY <2>1, <1>0, <1>5, <1>2 DEF Reject, Ops
<1> HIDE DEF Same
<1>6. ASSUME status' = status PROVE Same
    BY <1>6 DEF Same
<1> QED
    BY <1>1, <1>3, <1>4, <1>5, <1>6
       DEF Next, vars, locks, past, CheckFriends, SendRuns, CheckPending, Refuse, FindPending, AcceptRuns, MarkAccepted,
           InsertFirst, InsertSecond, AbortAccept, BeginRemove, RemoveRuns, DeleteRow, DeleteReverse,
           CommitRemove, AbortRemove, Fail

LEMMA DecidedSentStep == TypeOK /\ ConsentInv /\ [Next]_vars => DecidedSent'
<1> SUFFICES ASSUME TypeOK, ConsentInv, [Next]_vars,
                    NEW o \in Accepts \cup Rejects, pc'[o] \in {"update", "first", "second", "commit"}
             PROVE  Sent(pair[o])'
    BY DEF DecidedSent
<1>0. /\ \A p : Sent(p) => Sent(p)'
      /\ pair' = pair
    BY SentStays, Steady
<1>1. CASE pc[o] \in {"update", "first", "second", "commit"}
    BY <1>0, <1>1 DEF ConsentInv, DecidedSent, Sent
<1>2. ASSUME pc[o] \notin {"update", "first", "second", "commit"} PROVE FindPending(o)
    BY <1>2, OpsAssumption
       DEF Next, vars, TypeOK, Ops, Goto, Answer, Lose, locks, past, CheckFriends, SendRuns, CheckPending, Create, Refuse,
           FindPending, AcceptRuns, MarkAccepted, InsertFirst, InsertSecond, CommitAccept, AbortAccept, Reject,
           BeginRemove, RemoveRuns, DeleteRow, DeleteReverse, CommitRemove, AbortRemove, Fail
<1>3. ASSUME FindPending(o) PROVE Sent(pair[o])
    <2>1. pc'[o] = IF Open(pair[o]) THEN "update" ELSE "denied"
        BY <1>3 DEF FindPending, Goto, TypeOK, Ops
    <2>2. pair[o] \in Pairs /\ status[pair[o]] = "pending"
        BY <2>1 DEF Open, TypeOK, Ops
    <2> QED
        BY <2>2 DEF ConsentInv, RowsSent
<1> QED
    BY <1>0, <1>1, <1>2, <1>3 DEF Sent

LEMMA AddsOwnStep == TypeOK /\ ConsentInv /\ [Next]_vars => AddsOwn'
<1> SUFFICES ASSUME TypeOK, ConsentInv, [Next]_vars PROVE AddsOwn'
    OBVIOUS
<1>0. pair' = pair /\ AddsOwn /\ adding \in [Accepts -> SUBSET Friendship] /\ \A a \in Accepts : pair[a] \in Pairs
    BY Steady DEF ConsentInv, TypeOK, Ops
<1>1. ASSUME adding' = adding PROVE AddsOwn'
    BY <1>0, <1>1 DEF AddsOwn, Couple, Rev
<1>2. ASSUME NEW a \in Accepts, adding' = [adding EXCEPT ![a] = {}] PROVE AddsOwn'
    BY <1>0, <1>2 DEF AddsOwn, Couple, Rev
<1>3. ASSUME NEW a \in Accepts, NEW k \in Couple(pair[a]), InsertKey(a, k) PROVE AddsOwn'
    BY <1>0, <1>3 DEF InsertKey, AddsOwn, Couple, Rev
<1>4. \A a \in Accepts : InsertFirst(a) \/ InsertSecond(a) => AddsOwn'
    BY <1>3 DEF InsertFirst, InsertSecond, Couple
<1>5. \A a \in Accepts : CommitAccept(a) \/ AbortAccept(a) => AddsOwn'
    BY <1>2 DEF CommitAccept, AbortAccept
<1> QED
    BY <1>1, <1>4, <1>5
       DEF Next, vars, locks, past, CheckFriends, SendRuns, CheckPending, Create, Refuse, FindPending, AcceptRuns, MarkAccepted,
           Reject, BeginRemove, RemoveRuns, DeleteRow, DeleteReverse, CommitRemove, AbortRemove, Fail

LEMMA ConsentStep == TypeOK /\ ConsentInv /\ [Next]_vars => ConsentInv'
<1> SUFFICES ASSUME TypeOK, ConsentInv, [Next]_vars PROVE FriendsConsented'
    BY RowsSentStep, DecidedSentStep, AddsOwnStep DEF ConsentInv
<1>0. /\ \A p : Sent(p) => Sent(p)'
      /\ pair' = pair
    BY SentStays, Steady
<1>1. FriendsConsented <=> \A r \in rows : r.key \in Couple(pair[r.by]) /\ Sent(pair[r.by])
    BY DEF FriendsConsented, Sent
<1>2. FriendsConsented' <=> \A r \in rows' : r.key \in Couple(pair[r.by]) /\ Sent(pair[r.by])'
    BY <1>0 DEF FriendsConsented, Sent, Couple, Rev
<1>3. ASSUME rows' \subseteq rows PROVE FriendsConsented'
    <2>1. FriendsConsented
        BY DEF ConsentInv
    <2> QED
        BY <2>1, <1>0, <1>1, <1>2, <1>3 DEF Sent
<1>4. ASSUME NEW a \in Accepts, CommitAccept(a) PROVE FriendsConsented'
    <2>1. FriendsConsented /\ Sent(pair[a]) /\ \A r \in adding[a] : r.by = a /\ r.key \in Couple(pair[a])
        BY <1>4 DEF CommitAccept, ConsentInv, DecidedSent, AddsOwn
    <2>2. rows' = rows \cup adding[a]
        BY <1>4 DEF CommitAccept, Befriend
    <2> QED
        BY <2>1, <2>2, <1>0, <1>1, <1>2 DEF Sent
<1> QED
    BY <1>3, <1>4
       DEF Next, vars, locks, past, CheckFriends, SendRuns, CheckPending, Create, Refuse, FindPending, AcceptRuns, MarkAccepted,
           InsertFirst, InsertSecond, AbortAccept, Reject, BeginRemove, RemoveRuns, DeleteRow, DeleteReverse,
           CommitRemove, AbortRemove, Fail

LEMMA ConsentInit == Init => ConsentInv
    BY DEF Init, ConsentInv, RowsSent, DecidedSent, AddsOwn, FriendsConsented, Ops

\* Every friendship goes back to a request that its sender's POST created and its
\* receiver accepted.
THEOREM FriendsConsentedHolds == Spec => []FriendsConsented
<1>1. ConsentInv => FriendsConsented
    BY DEF ConsentInv
<1> QED
    BY <1>1, TypeCorrect, ConsentInit, ConsentStep, PTL DEF Spec
----------------------------------------------------------------------------
\* An accepted request has its friendship.  Until its COMMIT an accept knows of
\* each of its two keys that the row is committed, its own to commit, or was
\* removed meanwhile by a removal of the two users, which undercut it.  Such an
\* accept leaves the two users unfriended, or friends by another accept.

Covered(a, k) == k \in Keys \/ (\E r \in adding[a] : r.key = k) \/ a \in undercut
Settled(p)    == p \in unfriended \/ Couple(p) \subseteq Keys

FirstCovered  == \A a \in Accepts : pc[a] \in {"second", "commit"} => Covered(a, pair[a])
SecondCovered == \A a \in Accepts : pc[a] = "commit" => Covered(a, Rev(pair[a]))
DeletesOwn    == \A d \in Removes : \A r \in victims[d] \cup deleting[d] : r.key \in Couple(pair[d])
UndercutSettled == \A a \in undercut : Settled(pair[a])
PairInv == FirstCovered /\ SecondCovered /\ DeletesOwn /\ UndercutSettled /\ AcceptedAreFriends

LEMMA PairInit == Init => PairInv
    BY DEF Init, PairInv, FirstCovered, SecondCovered, DeletesOwn, UndercutSettled, AcceptedAreFriends, Ops

LEMMA DeletesOwnStep == TypeOK /\ PairInv /\ [Next]_vars => DeletesOwn'
<1> SUFFICES ASSUME TypeOK, PairInv, [Next]_vars PROVE DeletesOwn'
    OBVIOUS
<1>0. /\ pair' = pair /\ DeletesOwn
      /\ victims \in [Removes -> SUBSET Friendship] /\ deleting \in [Removes -> SUBSET Friendship]
      /\ \A d \in Removes : pair[d] \in Pairs
    BY Steady DEF PairInv, TypeOK, Ops
<1>2. ASSUME NEW d \in Removes, NEW k \in Couple(pair[d]), FindRow(d, k), deleting' = deleting
      PROVE  DeletesOwn'
    BY <1>0, <1>2 DEF FindRow, DeletesOwn, Couple, Rev
<1>3. ASSUME NEW d \in Removes, BeginRemove(d) \/ DeleteReverse(d) PROVE DeletesOwn'
    BY <1>2, <1>3 DEF BeginRemove, DeleteReverse, Couple
<1>4. ASSUME NEW d \in Removes, DeleteRow(d) PROVE DeletesOwn'
    <2>1. PICK r \in victims[d] : deleting' = [deleting EXCEPT ![d] = @ \cup ({r} \cap rows)]
        BY <1>4 DEF DeleteRow
    <2>2. victims' = [victims EXCEPT ![d] = {}]
        BY <1>4 DEF DeleteRow
    <2> QED
        BY <1>0, <2>1, <2>2 DEF DeletesOwn, Couple, Rev
<1>5. ASSUME NEW d \in Removes, deleting' = [deleting EXCEPT ![d] = {}],
             victims' = victims \/ victims' = [victims EXCEPT ![d] = {}]
      PROVE  DeletesOwn'
    BY <1>0, <1>5 DEF DeletesOwn, Couple, Rev
<1>6. \A d \in Removes : CommitRemove(d) \/ AbortRemove(d) => DeletesOwn'
    BY <1>5 DEF CommitRemove, AbortRemove
<1>7. ASSUME victims' = victims, deleting' = deleting PROVE DeletesOwn'
    BY <1>0, <1>7 DEF DeletesOwn, Couple, Rev
<1> QED
    BY <1>3, <1>4, <1>6, <1>7
       DEF Next, vars, locks, past, CheckFriends, SendRuns, CheckPending, Create, Refuse, FindPending, AcceptRuns, MarkAccepted,
           InsertFirst, InsertSecond, CommitAccept, AbortAccept, Reject, RemoveRuns, Fail

\* Only a COMMIT changes friendships and what is remembered of removals.
LEMMA RowSteps ==
    ASSUME [Next]_vars
    PROVE  \/ \E a \in Accepts : CommitAccept(a)
           \/ \E d \in Removes : CommitRemove(d)
           \/ UNCHANGED <<rows, undercut, unfriended>>
BY DEF Next, vars, locks, past, CheckFriends, SendRuns, CheckPending, Create, Refuse, FindPending, AcceptRuns, MarkAccepted,
       InsertFirst, InsertSecond, AbortAccept, Reject, BeginRemove, RemoveRuns, DeleteRow, DeleteReverse, AbortRemove, Fail

\* A key leaves the committed rows only by a removal of its couple.
LEMMA RemovedKey ==
    ASSUME TypeOK, PairInv, NEW d \in Removes, CommitRemove(d),
           NEW p \in Pairs, NEW k \in Couple(p), k \in Keys, k \notin Keys'
    PROVE  p \in Couple(pair[d])
<1>1. PICK r \in rows : r.key = k
    BY DEF Keys
<1>2. r \in deleting[d]
    BY <1>1 DEF CommitRemove, Keys
<1>3. k \in Couple(pair[d]) /\ pair[d] \in Pairs
    BY <1>1, <1>2 DEF PairInv, DeletesOwn, TypeOK, Ops
<1> QED
    BY <1>3 DEF Couple, Rev, Pairs

\* What an accept knows of a key stays true while it is not at its end.
LEMMA CoverStays ==
    ASSUME TypeOK, PairInv, [Next]_vars, NEW a \in Accepts, NEW k \in Couple(pair[a]), Covered(a, k),
           pc[a] \in {"second", "commit"}, pc'[a] \in {"second", "commit"}
    PROVE  Covered(a, k)'
<1>0. /\ pair' = pair /\ pair[a] \in Pairs
      /\ adding \in [Accepts -> SUBSET Friendship]
    BY Steady DEF TypeOK, Ops
<1>1. adding[a] \subseteq adding'[a]
    BY <1>0, OpsAssumption
       DEF Next, vars, locks, past, CheckFriends, SendRuns, CheckPending, Create, Refuse, FindPending, AcceptRuns, MarkAccepted,
           InsertFirst, InsertSecond, InsertKey, CommitAccept, Answer, Lose, Goto, AbortAccept, Reject,
           BeginRemove, RemoveRuns, DeleteRow, DeleteReverse, CommitRemove, AbortRemove, Fail, TypeOK, Ops
<1>2. ASSUME NEW d \in Removes, CommitRemove(d) PROVE Covered(a, k)'
    <2>1. undercut' = undercut \cup Accepting(pair[d])
        BY <1>2 DEF CommitRemove
    <2>2. k \in Keys /\ k \notin Keys' => a \in Accepting(pair[d])
        BY <1>0, <1>2, RemovedKey DEF Accepting
    <2> QED
        BY <1>0, <1>1, <2>1, <2>2 DEF Covered
<1>3. ASSUME rows \subseteq rows', undercut' = undercut PROVE Covered(a, k)'
    BY <1>0, <1>1, <1>3 DEF Covered, Keys
<1> QED
    BY <1>2, <1>3, RowSteps DEF CommitAccept, Befriend

\* The INSERT of a tuple leaves the key covered.
LEMMA InsertCovers ==
    ASSUME TypeOK, NEW a \in Accepts, NEW k \in Couple(pair[a]), InsertKey(a, k), UNCHANGED <<pair, rows, undercut>>
    PROVE  Covered(a, k)'
<1>1. adding'[a] = adding[a] \cup (IF k \in Keys THEN {} ELSE {[key |-> k, by |-> a]})
    BY DEF InsertKey, TypeOK
<1>2. CASE k \in Keys
    BY <1>2 DEF Covered, Keys
<1>3. CASE k \notin Keys
    <2>1. [key |-> k, by |-> a] \in adding'[a]
        BY <1>1, <1>3
    <2> QED
        BY <2>1 DEF Covered
<1> QED
    BY <1>2, <1>3

LEMMA CoveredStep == TypeOK /\ PairInv /\ [Next]_vars => FirstCovered' /\ SecondCovered'
<1> SUFFICES ASSUME TypeOK, PairInv, [Next]_vars, NEW a \in Accepts
             PROVE  /\ pc'[a] \in {"second", "commit"} => Covered(a, pair[a])'
                    /\ pc'[a] = "commit" => Covered(a, Rev(pair[a]))'
    BY DEF FirstCovered, SecondCovered
<1>0. /\ pair' = pair /\ pair[a] \in Couple(pair[a]) /\ Rev(pair[a]) \in Couple(pair[a])
      /\ pc[a] \in {"second", "commit"} => Covered(a, pair[a])
      /\ pc[a] = "commit" => Covered(a, Rev(pair[a]))
    BY Steady DEF Couple, PairInv, FirstCovered, SecondCovered
<1>1. ASSUME pc'[a] = "second", pc[a] # "second" PROVE InsertFirst(a)
    BY <1>1, OpsAssumption
       DEF Next, vars, TypeOK, Ops, Goto, Answer, Lose, locks, past, CheckFriends, SendRuns, CheckPending, Create, Refuse,
           FindPending, AcceptRuns, MarkAccepted, InsertFirst, InsertSecond, CommitAccept, AbortAccept, Reject,
           BeginRemove, RemoveRuns, DeleteRow, DeleteReverse, CommitRemove, AbortRemove, Fail
<1>2. ASSUME pc'[a] = "commit", pc[a] # "commit" PROVE InsertSecond(a)
    BY <1>2, OpsAssumption
       DEF Next, vars, TypeOK, Ops, Goto, Answer, Lose, locks, past, CheckFriends, SendRuns, CheckPending, Create, Refuse,
           FindPending, AcceptRuns, MarkAccepted, InsertFirst, InsertSecond, CommitAccept, AbortAccept, Reject,
           BeginRemove, RemoveRuns, DeleteRow, DeleteReverse, CommitRemove, AbortRemove, Fail
<1>3. ASSUME InsertFirst(a) PROVE Covered(a, pair[a])'
    BY <1>3, <1>0, InsertCovers DEF InsertFirst, past, Covered
<1>4. ASSUME InsertSecond(a) PROVE pc[a] = "second" /\ Covered(a, Rev(pair[a]))'
    BY <1>4, <1>0, InsertCovers DEF InsertSecond, past, Covered, Rev
<1>5. ASSUME NEW k \in Couple(pair[a]), Covered(a, k), pc[a] \in {"second", "commit"}, pc'[a] \in {"second", "commit"}
      PROVE  Covered(a, k)'
    BY <1>5, CoverStays
<1>6. pc'[a] \in {"second", "commit"} => Covered(a, pair[a])'
    <2>1. ASSUME pc[a] \in {"second", "commit"}, pc'[a] \in {"second", "commit"} PROVE Covered(a, pair[a])'
        BY <2>1, <1>0, <1>5 DEF Covered
    <2> QED
        BY <2>1, <1>0, <1>1, <1>2, <1>3, <1>4
<1>7. pc'[a] = "commit" => Covered(a, Rev(pair[a]))'
    <2>1. ASSUME pc[a] = "commit", pc'[a] = "commit" PROVE Covered(a, Rev(pair[a]))'
        BY <2>1, <1>0, <1>5 DEF Covered, Rev
    <2> QED
        BY <2>1, <1>0, <1>2, <1>4
<1> QED
    BY <1>6, <1>7

\* An accept that no removal undercut leaves both rows.
LEMMA CommitBefriends ==
    ASSUME TypeOK, PairInv, NEW a \in Accepts, CommitAccept(a), a \notin undercut
    PROVE  Couple(pair[a]) \subseteq Keys'
<1>1. Covered(a, pair[a]) /\ Covered(a, Rev(pair[a]))
    BY DEF CommitAccept, PairInv, FirstCovered, SecondCovered
<1>2. rows' = rows \cup adding[a]
    BY DEF CommitAccept, Befriend
<1> QED
    BY <1>1, <1>2 DEF Covered, Keys, Couple

LEMMA SettledStays ==
    ASSUME TypeOK, PairInv, [Next]_vars, NEW p \in Pairs, Settled(p)
    PROVE  Settled(p)'
<1>1. ASSUME NEW a \in Accepts, CommitAccept(a) PROVE Settled(p)'
    <2>1. Keys \subseteq Keys'
        BY <1>1 DEF CommitAccept, Befriend, Keys
    <2>2. CASE p \in unfriended => p \in unfriended'
        BY <2>1, <2>2 DEF Settled
    <2>3. CASE p \notin unfriended' /\ p \in unfriended
        <3>1. a \notin undercut /\ p \in Couple(pair[a]) /\ pair[a] \in Pairs
            BY <1>1, <2>3 DEF CommitAccept, TypeOK, Ops
        <3>2. Couple(p) = Couple(pair[a])
            BY <3>1 DEF Couple, Rev, Pairs
        <3> QED
            BY <1>1, <3>1, <3>2, CommitBefriends DEF Settled
    <2> QED
        BY <2>2, <2>3
<1>2. ASSUME NEW d \in Removes, CommitRemove(d) PROVE Settled(p)'
    <2>1. unfriended' = unfriended \cup Couple(pair[d])
        BY <1>2 DEF CommitRemove
    <2>2. \A k \in Couple(p) : k \in Keys /\ k \notin Keys' => p \in Couple(pair[d])
        BY <1>2, RemovedKey
    <2> QED
        BY <2>1, <2>2 DEF Settled
<1>3. CASE UNCHANGED <<rows, undercut, unfriended>>
    BY <1>3 DEF Settled, Keys
<1> QED
    BY <1>1, <1>2, <1>3, RowSteps

LEMMA UndercutStep == TypeOK /\ PairInv /\ [Next]_vars => UndercutSettled'
<1> SUFFICES ASSUME TypeOK, PairInv, [Next]_vars, NEW a \in undercut' PROVE Settled(pair[a])'
    BY DEF UndercutSettled
<1>0. pair' = pair
    BY Steady
<1>1. CASE a \in undercut
    <2>1. pair[a] \in Pairs /\ Settled(pair[a])
        BY <1>1 DEF PairInv, UndercutSettled, TypeOK, Ops
    <2>2. \A p \in Pairs : Settled(p) => Settled(p)'
        BY SettledStays
    <2> QED
        BY <1>0, <2>1, <2>2 DEF Settled
<1>2. CASE a \notin undercut
    <2>1. PICK d \in Removes : CommitRemove(d)
        BY <1>2, RowSteps DEF CommitAccept
    <2>2. pair[a] \in unfriended'
        BY <1>2, <2>1 DEF CommitRemove, Accepting
    <2> QED
        BY <1>0, <2>2 DEF Settled
<1> QED
    BY <1>1, <1>2

LEMMA AcceptedStep == TypeOK /\ PairInv /\ [Next]_vars => AcceptedAreFriends'
<1> SUFFICES ASSUME TypeOK, PairInv, [Next]_vars, NEW p \in Pairs, status'[p] = "accepted"
             PROVE  Settled(p)'
    BY DEF AcceptedAreFriends, Settled
<1>1. CASE status[p] = "accepted"
    <2>1. Settled(p)
        BY <1>1 DEF PairInv, AcceptedAreFriends, Settled
    <2> QED
        BY <2>1, SettledStays
<1>2. ASSUME status[p] # "accepted" PROVE \E a \in Accepts : pair[a] = p /\ CommitAccept(a)
    BY <1>2
       DEF Next, vars, TypeOK, Ops, locks, past, CheckFriends, SendRuns, CheckPending, Create, Refuse,
           FindPending, AcceptRuns, MarkAccepted, InsertFirst, InsertSecond, CommitAccept, AbortAccept, Reject,
           BeginRemove, RemoveRuns, DeleteRow, DeleteReverse, CommitRemove, AbortRemove, Fail
<1>3. ASSUME NEW a \in Accepts, pair[a] = p, CommitAccept(a) PROVE Settled(p)'
    <2>1. CASE a \in undercut
        BY <1>3, <2>1, SettledStays DEF PairInv, UndercutSettled
    <2>2. CASE a \notin undercut
        BY <1>3, <2>2, CommitBefriends DEF Settled
    <2> QED
        BY <2>1, <2>2
<1> QED
    BY <1>1, <1>2, <1>3

\* A request that reads accepted has both rows, unless the users parted and were not
\* made friends again since.
THEOREM AcceptedAreFriendsHolds == Spec => []AcceptedAreFriends
<1>1. TypeOK /\ PairInv /\ [Next]_vars => PairInv'
    BY DeletesOwnStep, CoveredStep, UndercutStep, AcceptedStep DEF PairInv
<1>2. PairInv => AcceptedAreFriends
    BY DEF PairInv
<1> QED
    BY <1>1, <1>2, TypeCorrect, PairInit, PTL DEF Spec
----------------------------------------------------------------------------
\* Sends accounted for.  A row that is pending or accepted is the one success that no
\* rejection has answered yet.

SentOf(p)   == {s \in Sends : pair[s] = p /\ pc[s] \in {"sent", "lost"}}
RejectsOf(p) == {r \in Rejects : pair[r] = p /\ pc[r] \in {"done", "lost"}}
Unanswered(p) == IF status[p] \in {"pending", "accepted"} THEN 1 ELSE 0

SendInv == \A p \in Pairs : Cardinality(SentOf(p)) <= Cardinality(RejectsOf(p)) + Unanswered(p)

LEMMA CountTypes ==
    \A p : /\ IsFiniteSet(SentOf(p)) /\ Cardinality(SentOf(p)) \in Nat
           /\ IsFiniteSet(RejectsOf(p)) /\ Cardinality(RejectsOf(p)) \in Nat
           /\ Unanswered(p) \in {0, 1}
<1> SUFFICES ASSUME NEW p PROVE /\ IsFiniteSet(SentOf(p)) /\ Cardinality(SentOf(p)) \in Nat
                                /\ IsFiniteSet(RejectsOf(p)) /\ Cardinality(RejectsOf(p)) \in Nat
                                /\ Unanswered(p) \in {0, 1}
    OBVIOUS
<1>1. SentOf(p) \subseteq Sends /\ RejectsOf(p) \subseteq Rejects
    BY DEF SentOf, RejectsOf
<1>2. IsFiniteSet(SentOf(p)) /\ IsFiniteSet(RejectsOf(p))
    BY <1>1, OpsAssumption, FS_Subset
<1> QED
    BY <1>2, FS_CardinalityType DEF Unanswered

LEMMA SendInit == Init => SendInv
<1> SUFFICES ASSUME Init, NEW p \in Pairs
             PROVE  Cardinality(SentOf(p)) <= Cardinality(RejectsOf(p)) + Unanswered(p)
    BY DEF SendInv
<1>1. SentOf(p) = {}
    BY DEF Init, SentOf, Ops
<1> QED
    BY <1>1, FS_EmptySet, CountTypes

\* Who has succeeded changes only by a Create or a Reject, and by one request.
LEMMA QuietCounts ==
    ASSUME TypeOK, [Next]_vars, \A s \in Sends : ~Create(s), \A r \in Rejects : ~Reject(r), NEW p \in Pairs
    PROVE  /\ SentOf(p)' = SentOf(p) /\ RejectsOf(p)' = RejectsOf(p)
           /\ status[p] \in {"pending", "accepted"} => status'[p] \in {"pending", "accepted"}
<1>1. \A o \in Sends \cup Rejects : pc'[o] \in {"sent", "lost", "done"} <=> pc[o] \in {"sent", "lost", "done"}
    BY OpsAssumption
       DEF Next, vars, TypeOK, Ops, Goto, Answer, Lose, locks, past, CheckFriends, SendRuns, CheckPending, Refuse,
           FindPending, AcceptRuns, MarkAccepted, InsertFirst, InsertSecond, CommitAccept, AbortAccept,
           BeginRemove, RemoveRuns, DeleteRow, DeleteReverse, CommitRemove, AbortRemove, Fail
<1>2. /\ pair' = pair
      /\ \A s \in Sends : pc[s] \in SendStage /\ pc'[s] \in SendStage
      /\ \A r \in Rejects : pc[r] \in RejectStage /\ pc'[r] \in RejectStage
    BY Steady, NextType DEF TypeOK
<1>3. /\ \A s \in Sends : pc'[s] \in {"sent", "lost"} <=> pc[s] \in {"sent", "lost"}
      /\ \A r \in Rejects : pc'[r] \in {"done", "lost"} <=> pc[r] \in {"done", "lost"}
    BY <1>1, <1>2 DEF SendStage, RejectStage
<1>4. SentOf(p)' = SentOf(p)
    BY <1>2, <1>3 DEF SentOf
<1>5. RejectsOf(p)' = RejectsOf(p)
    BY <1>2, <1>3 DEF RejectsOf
<1>6. status[p] \in {"pending", "accepted"} => status'[p] \in {"pending", "accepted"}
    BY DEF Next, vars, TypeOK, locks, past, CheckFriends, SendRuns, CheckPending, Refuse,
           FindPending, AcceptRuns, MarkAccepted, InsertFirst, InsertSecond, CommitAccept, AbortAccept,
           BeginRemove, RemoveRuns, DeleteRow, DeleteReverse, CommitRemove, AbortRemove, Fail
<1> QED
    BY <1>4, <1>5, <1>6

LEMMA CreateCounts ==
    ASSUME TypeOK, [Next]_vars, NEW s \in Sends, Create(s), NEW p \in Pairs,
           Cardinality(SentOf(p)) <= Cardinality(RejectsOf(p)) + Unanswered(p)
    PROVE  Cardinality(SentOf(p)') <= Cardinality(RejectsOf(p)') + Unanswered(p)'
<1>1. /\ pair' = pair
      /\ \A o \in Ops \ {s} : pc'[o] = pc[o]
      /\ pc[s] = "create" /\ pc'[s] \in {"sent", "lost"}
      /\ s \notin Rejects /\ Sends \subseteq Ops /\ Rejects \subseteq Ops
      /\ status[pair[s]] \in {"none", "rejected"} /\ status' = [status EXCEPT ![pair[s]] = "pending"]
    BY OpsAssumption DEF Create, Creatable, Answer, Lose, Goto, TypeOK, Ops
<1>2. RejectsOf(p)' = RejectsOf(p)
    BY <1>1 DEF RejectsOf
<1>3. CASE pair[s] # p
    <2>1. SentOf(p)' = SentOf(p)
        BY <1>1, <1>3 DEF SentOf
    <2>2. Unanswered(p)' = Unanswered(p)
        BY <1>1, <1>3 DEF Unanswered, TypeOK
    <2> QED
        BY <2>1, <2>2, <1>2
<1>4. CASE pair[s] = p
    <2>1. SentOf(p)' = SentOf(p) \cup {s} /\ s \notin SentOf(p)
        BY <1>1, <1>4 DEF SentOf
    <2>2. Cardinality(SentOf(p)') = Cardinality(SentOf(p)) + 1
        BY <2>1, CountTypes, FS_AddElement
    <2>3. Unanswered(p) = 0 /\ Unanswered(p)' = 1
        BY <1>1, <1>4 DEF Unanswered, TypeOK
    <2> QED
        BY <2>2, <2>3, <1>2, CountTypes
<1> QED
    BY <1>3, <1>4

LEMMA RejectCounts ==
    ASSUME TypeOK, [Next]_vars, NEW r \in Rejects, Reject(r), NEW p \in Pairs,
           Cardinality(SentOf(p)) <= Cardinality(RejectsOf(p)) + Unanswered(p)
    PROVE  Cardinality(SentOf(p)') <= Cardinality(RejectsOf(p)') + Unanswered(p)'
<1>1. /\ pair' = pair /\ \A o \in Ops \ {r} : pc'[o] = pc[o]
      /\ pc[r] = "update" /\ pc'[r] \in {"done", "lost"}
      /\ r \notin Sends /\ Sends \subseteq Ops /\ Rejects \subseteq Ops
      /\ status' = [status EXCEPT ![pair[r]] = "rejected"]
    BY OpsAssumption DEF Reject, Answer, Lose, Goto, TypeOK, Ops
<1>2. SentOf(p)' = SentOf(p)
    BY <1>1 DEF SentOf
<1>3. CASE pair[r] # p
    <2>1. RejectsOf(p)' = RejectsOf(p)
        BY <1>1, <1>3 DEF RejectsOf
    <2>2. Unanswered(p)' = Unanswered(p)
        BY <1>1, <1>3 DEF Unanswered, TypeOK
    <2> QED
        BY <2>1, <2>2, <1>2
<1>4. CASE pair[r] = p
    <2>1. RejectsOf(p)' = RejectsOf(p) \cup {r} /\ r \notin RejectsOf(p)
        BY <1>1, <1>4 DEF RejectsOf
    <2>2. Cardinality(RejectsOf(p)') = Cardinality(RejectsOf(p)) + 1
        BY <2>1, CountTypes, FS_AddElement
    <2>3. Unanswered(p)' \in {0, 1}
        BY DEF Unanswered
    <2> QED
        BY <2>2, <2>3, <1>2, CountTypes
<1> QED
    BY <1>3, <1>4

LEMMA SendStep == TypeOK /\ SendInv /\ [Next]_vars => SendInv'
<1> SUFFICES ASSUME TypeOK, SendInv, [Next]_vars, NEW p \in Pairs
             PROVE  Cardinality(SentOf(p)') <= Cardinality(RejectsOf(p)') + Unanswered(p)'
    BY DEF SendInv
<1>0. Cardinality(SentOf(p)) <= Cardinality(RejectsOf(p)) + Unanswered(p)
    BY DEF SendInv
<1>1. ASSUME NEW s \in Sends, Create(s)
      PROVE  Cardinality(SentOf(p)') <= Cardinality(RejectsOf(p)') + Unanswered(p)'
    BY <1>0, <1>1, CreateCounts
<1>2. ASSUME NEW r \in Rejects, Reject(r)
      PROVE  Cardinality(SentOf(p)') <= Cardinality(RejectsOf(p)') + Unanswered(p)'
    BY <1>0, <1>2, RejectCounts
<1>3. ASSUME \A s \in Sends : ~Create(s), \A r \in Rejects : ~Reject(r)
      PROVE  Cardinality(SentOf(p)') <= Cardinality(RejectsOf(p)') + Unanswered(p)'
    <2>1. /\ SentOf(p)' = SentOf(p) /\ RejectsOf(p)' = RejectsOf(p)
          /\ status[p] \in {"pending", "accepted"} => status'[p] \in {"pending", "accepted"}
        BY <1>3, QuietCounts
    <2>2. Unanswered(p) <= Unanswered(p)'
        BY <2>1 DEF Unanswered
    <2>3. Unanswered(p)' \in {0, 1}
        BY DEF Unanswered
    <2> QED
        BY <2>1, <2>2, <2>3, <1>0, CountTypes
<1> QED
    BY <1>1, <1>2, <1>3

\* However the sends race, at most one more succeeds than rejections reopened.
THEOREM SendsAccountedHolds == Spec => []SendsAccounted
<1>1. ASSUME SendInv PROVE SendsAccounted
    <2> SUFFICES ASSUME NEW p \in Pairs PROVE Cardinality(SentOf(p)) <= 1 + Cardinality(RejectsOf(p))
        BY DEF SendsAccounted, SentOf, RejectsOf
    <2> QED
        BY <1>1, CountTypes DEF SendInv
<1> QED
    BY <1>1, TypeCorrect, SendInit, SendStep, PTL DEF Spec
----------------------------------------------------------------------------
\* Friendships are stored both ways.  While no removal overlaps an accept of the
\* couple, an accept holds the keys it has passed, and a removal has reached the
\* rows of those it has passed: both commit for the couple, or for neither key.

KeysUnique == \A r, s \in rows : r.key = s.key => r = s
AddsNew ==
    \A a \in Accepts : \A r \in adding[a] :
        /\ r.key \notin Keys
        /\ \A b \in Accepts \ {a} : \A s \in adding[b] : s.key # r.key

Held(a, k)  == k \in Keys \/ (\E r \in adding[a] : r.key = k) \/ pair[a] \in clashed
FirstHeld   == \A a \in Accepts : pc[a] \in {"second", "commit"} => Held(a, pair[a])
SecondHeld  == \A a \in Accepts : pc[a] = "commit" => Held(a, Rev(pair[a]))

Reached(d, k) == pair[d] \in clashed \/ \A r \in rows : r.key = k => r \in victims[d] \cup deleting[d]
FirstReached  == \A d \in Removes : pc[d] \in {"delete1", "delete2"} => Reached(d, pair[d])
SecondReached == \A d \in Removes : pc[d] = "delete2" => Reached(d, Rev(pair[d]))

OneVictim   == \A d \in Removes : \A r, s \in victims[d] : r = s
ClashedBoth == \A p \in clashed : Rev(p) \in clashed

CoupleInv == /\ KeysUnique /\ AddsNew /\ FirstHeld /\ SecondHeld
             /\ FirstReached /\ SecondReached /\ OneVictim /\ ClashedBoth

LEMMA CoupleInit == Init => CoupleInv /\ SymmetricWithoutRace
    BY DEF Init, CoupleInv, KeysUnique, AddsNew, FirstHeld, SecondHeld, FirstReached, SecondReached,
           OneVictim, ClashedBoth, SymmetricWithoutRace, Keys, Ops

LEMMA ClashedStep == TypeOK /\ CoupleInv /\ [Next]_vars => clashed \subseteq clashed' /\ ClashedBoth'
<1> SUFFICES ASSUME TypeOK, CoupleInv, [Next]_vars PROVE clashed \subseteq clashed' /\ ClashedBoth'
    OBVIOUS
<1>0. ClashedBoth /\ \A o \in Ops : pair[o] \in Pairs
    BY DEF CoupleInv, TypeOK
<1>1. clashed' = clashed \/ \E o \in Ops : clashed' = clashed \cup Couple(pair[o])
    BY DEF Next, vars, locks, past, Ops, CheckFriends, SendRuns, CheckPending, Create, Refuse, FindPending,
           AcceptRuns, MarkAccepted, InsertFirst, InsertSecond, CommitAccept, AbortAccept, Reject, BeginRemove,
           RemoveRuns, DeleteRow, DeleteReverse, CommitRemove, AbortRemove, Fail
<1> QED
    BY <1>0, <1>1, Couples DEF ClashedBoth, Couple

\* What the INSERT of a tuple adds is a new key, which nobody else is writing.
LEMMA UniqueStep == TypeOK /\ ConsentInv /\ CoupleInv /\ [Next]_vars => KeysUnique' /\ AddsNew'
<1> SUFFICES ASSUME TypeOK, ConsentInv, CoupleInv, [Next]_vars PROVE KeysUnique' /\ AddsNew'
    OBVIOUS
<1>0. /\ KeysUnique /\ AddsNew /\ AddsOwn
      /\ adding \in [Accepts -> SUBSET Friendship] /\ \A a \in Accepts : pair[a] \in Pairs
    BY DEF CoupleInv, ConsentInv, TypeOK, Ops
<1>1. ASSUME rows' \subseteq rows, \A a \in Accepts : adding'[a] \subseteq adding[a]
      PROVE  KeysUnique' /\ AddsNew'
    BY <1>0, <1>1 DEF KeysUnique, AddsNew, Keys
<1>2. ASSUME NEW a \in Accepts, NEW k \in Pairs, InsertKey(a, k), rows' = rows
      PROVE  KeysUnique' /\ AddsNew'
    <2>1. /\ \A b \in Accepts \ {a} : adding'[b] = adding[b] /\ \A r \in adding[b] : r.key # k
          /\ \A r \in adding'[a] : r \in adding[a] \/ (r.key = k /\ k \notin Keys)
        BY <1>0, <1>2 DEF InsertKey, Writes, Txns
    <2>2. \A b \in Accepts : \A r \in adding'[b] : r.key \notin Keys
        BY <1>0, <2>1 DEF AddsNew
    <2>3. ASSUME NEW b \in Accepts, NEW c \in Accepts \ {b}, NEW r \in adding'[b], NEW s \in adding'[c]
          PROVE  s.key # r.key
        BY <1>0, <2>1, <2>3 DEF AddsNew
    <2> QED
        BY <1>0, <1>2, <2>2, <2>3 DEF KeysUnique, AddsNew, Keys
<1>3. \A a \in Accepts : InsertFirst(a) \/ InsertSecond(a) => KeysUnique' /\ AddsNew'
    BY <1>0, <1>2, Couples DEF InsertFirst, InsertSecond
<1>4. ASSUME NEW a \in Accepts, CommitAccept(a) PROVE KeysUnique' /\ AddsNew'
    <2>1. rows' = rows \cup adding[a] /\ adding' = [adding EXCEPT ![a] = {}]
        BY <1>4 DEF CommitAccept, Befriend
    <2>2. \A r, s \in adding[a] : r.key = s.key => r = s
        BY <1>0 DEF AddsOwn, Friendship
    <2>3. KeysUnique'
        BY <1>0, <2>1, <2>2 DEF KeysUnique, AddsNew, Keys
    <2>4. AddsNew'
        BY <1>0, <2>1 DEF AddsNew, Keys
    <2> QED
        BY <2>3, <2>4
<1>5. \A a \in Accepts : AbortAccept(a) => KeysUnique' /\ AddsNew'
    BY <1>0, <1>1 DEF AbortAccept
<1>6. \A d \in Removes : CommitRemove(d) => KeysUnique' /\ AddsNew'
    BY <1>1 DEF CommitRemove
<1> QED
    BY <1>1, <1>3, <1>4, <1>5, <1>6
       DEF Next, vars, locks, past, CheckFriends, SendRuns, CheckPending, Create, Refuse, FindPending, AcceptRuns,
           MarkAccepted, Reject, BeginRemove, RemoveRuns, DeleteRow, DeleteReverse, AbortRemove, Fail

\* What an accept holds it keeps until its end.
LEMMA HeldStays ==
    ASSUME TypeOK, PairInv, CoupleInv, [Next]_vars, NEW a \in Accepts, NEW k \in Couple(pair[a]), Held(a, k),
           pc[a] \in {"second", "commit"}, pc'[a] \in {"second", "commit"}
    PROVE  Held(a, k)'
<1>0. /\ pair' = pair /\ pair[a] \in Pairs /\ \A d \in Removes : pair[d] \in Pairs
      /\ adding \in [Accepts -> SUBSET Friendship] /\ clashed \subseteq clashed'
    BY Steady, ClashedStep DEF TypeOK, Ops
<1>1. adding[a] \subseteq adding'[a]
    BY <1>0, OpsAssumption
       DEF Next, vars, locks, past, CheckFriends, SendRuns, CheckPending, Create, Refuse, FindPending, AcceptRuns, MarkAccepted,
           InsertFirst, InsertSecond, InsertKey, CommitAccept, Answer, Lose, Goto, AbortAccept, Reject,
           BeginRemove, RemoveRuns, DeleteRow, DeleteReverse, CommitRemove, AbortRemove, Fail, TypeOK, Ops
<1>2. ASSUME NEW d \in Removes, CommitRemove(d), NEW r \in rows \cap deleting[d], r.key = k
      PROVE  pair[a] \in clashed'
    <2>1. k \in Couple(pair[d])
        BY <1>2 DEF PairInv, DeletesOwn
    <2>2. pair[a] \in Couple(pair[d])
        BY <1>0, <2>1 DEF Couple, Rev, Pairs
    <2> QED
        BY <1>2, <2>2 DEF CommitRemove, Accepting
<1>3. (\E d \in Removes : CommitRemove(d)) \/ rows \subseteq rows'
    BY DEF Next, vars, locks, past, CheckFriends, SendRuns, CheckPending, Create, Refuse, FindPending, AcceptRuns, MarkAccepted,
           InsertFirst, InsertSecond, CommitAccept, Befriend, AbortAccept, Reject, BeginRemove, RemoveRuns,
           DeleteRow, DeleteReverse, AbortRemove, Fail
<1>4. CASE rows \subseteq rows'
    BY <1>0, <1>1, <1>4 DEF Held, Keys
<1>5. ASSUME NEW d \in Removes, CommitRemove(d) PROVE Held(a, k)'
    <2>1. rows' = rows \ deleting[d]
        BY <1>5 DEF CommitRemove
    <2>2. k \in Keys => k \in Keys' \/ pair[a] \in clashed'
        BY <1>2, <1>5, <2>1 DEF Keys
    <2> QED
        BY <1>0, <1>1, <2>2 DEF Held
<1> QED
    BY <1>3, <1>4, <1>5

LEMMA InsertHolds ==
    ASSUME TypeOK, NEW a \in Accepts, NEW k \in Couple(pair[a]), InsertKey(a, k), rows' = rows
    PROVE  Held(a, k)'
<1>1. adding'[a] = adding[a] \cup (IF k \in Keys THEN {} ELSE {[key |-> k, by |-> a]})
    BY DEF InsertKey, TypeOK
<1>2. CASE k \in Keys
    BY <1>2 DEF Held, Keys
<1>3. CASE k \notin Keys
    <2>1. [key |-> k, by |-> a] \in adding'[a]
        BY <1>1, <1>3
    <2> QED
        BY <2>1 DEF Held
<1> QED
    BY <1>2, <1>3

LEMMA HeldStep == TypeOK /\ PairInv /\ CoupleInv /\ [Next]_vars => FirstHeld' /\ SecondHeld'
<1> SUFFICES ASSUME TypeOK, PairInv, CoupleInv, [Next]_vars, NEW a \in Accepts
             PROVE  /\ pc'[a] \in {"second", "commit"} => Held(a, pair[a])'
                    /\ pc'[a] = "commit" => Held(a, Rev(pair[a]))'
    BY DEF FirstHeld, SecondHeld
<1>0. /\ pair' = pair /\ pair[a] \in Couple(pair[a]) /\ Rev(pair[a]) \in Couple(pair[a])
      /\ pc[a] \in {"second", "commit"} => Held(a, pair[a])
      /\ pc[a] = "commit" => Held(a, Rev(pair[a]))
    BY Steady DEF Couple, CoupleInv, FirstHeld, SecondHeld
<1>1. \/ pc'[a] = pc[a] \/ pc'[a] \notin {"second", "commit"}
      \/ InsertFirst(a) /\ pc'[a] = "second"
      \/ InsertSecond(a) /\ pc[a] = "second" /\ pc'[a] = "commit"
    BY OpsAssumption
       DEF Next, vars, TypeOK, Ops, Goto, Answer, Lose, locks, past, CheckFriends, SendRuns, CheckPending, Create, Refuse,
           FindPending, AcceptRuns, MarkAccepted, InsertFirst, InsertSecond, CommitAccept, AbortAccept, Reject,
           BeginRemove, RemoveRuns, DeleteRow, DeleteReverse, CommitRemove, AbortRemove, Fail
<1>2. ASSUME InsertFirst(a) PROVE Held(a, pair[a])'
    <2>1. \A k : k = pair[a] => Held(a, k)'
        BY <1>0, <1>2, InsertHolds DEF InsertFirst
    <2> QED
        BY <1>0, <2>1 DEF Held
<1>3. ASSUME InsertSecond(a) PROVE Held(a, Rev(pair[a]))'
    <2>1. \A k : k = Rev(pair[a]) => Held(a, k)'
        BY <1>0, <1>3, InsertHolds DEF InsertSecond
    <2> QED
        BY <1>0, <2>1 DEF Held, Rev
<1>4. ASSUME pc[a] \in {"second", "commit"}, pc'[a] \in {"second", "commit"}
      PROVE  \A k \in Couple(pair[a]) : Held(a, k) => Held(a, k)'
    BY <1>4, HeldStays
<1>5. pc'[a] \in {"second", "commit"} => Held(a, pair[a])'
    <2>1. ASSUME pc[a] \in {"second", "commit"}, pc'[a] \in {"second", "commit"} PROVE Held(a, pair[a])'
        BY <1>0, <1>4, <2>1 DEF Held
    <2> QED
        BY <1>1, <1>2, <2>1
<1>6. pc'[a] = "commit" => Held(a, Rev(pair[a]))'
    <2>1. ASSUME pc[a] = "commit", pc'[a] = "commit" PROVE Held(a, Rev(pair[a]))'
        BY <1>0, <1>4, <2>1 DEF Held, Rev
    <2> QED
        BY <1>1, <1>3, <2>1
<1> QED
    BY <1>5, <1>6

\* A row that a removal has reached it keeps in hand until its end.
LEMMA ReachedStays ==
    ASSUME TypeOK, ConsentInv, PairInv, CoupleInv, [Next]_vars, NEW d \in Removes, NEW k \in Couple(pair[d]),
           Reached(d, k), pc[d] \in {"delete1", "delete2"}, pc'[d] \in {"delete1", "delete2"}
    PROVE  Reached(d, k)'
<1>0. /\ pair' = pair /\ pair[d] \in Pairs /\ \A a \in Accepts : pair[a] \in Pairs
      /\ victims \in [Removes -> SUBSET Friendship] /\ deleting \in [Removes -> SUBSET Friendship]
      /\ clashed \subseteq clashed'
    BY Steady, ClashedStep DEF TypeOK, Ops
<1>1. ASSUME NEW a \in Accepts, CommitAccept(a) PROVE Reached(d, k)'
    <2>1. rows' = rows \cup adding[a] /\ UNCHANGED <<victims, deleting>>
        BY <1>1 DEF CommitAccept, Befriend
    <2>2. CASE k \in Couple(pair[a])
        <3>1. pair[d] \in Couple(pair[a])
            BY <1>0, <2>2 DEF Couple, Rev, Pairs
        <3>2. pair[d] \in clashed'
            BY <1>1, <3>1 DEF CommitAccept, Removing
        <3> QED
            BY <1>0, <3>2 DEF Reached
    <2>3. CASE k \notin Couple(pair[a])
        <3>1. \A r \in adding[a] : r.key # k
            BY <2>3 DEF ConsentInv, AddsOwn
        <3> QED
            BY <1>0, <2>1, <3>1 DEF Reached
    <2> QED
        BY <2>2, <2>3
<1>2. ASSUME DeleteRow(d) PROVE Reached(d, k)'
    <2>1. PICK r \in victims[d] : deleting' = [deleting EXCEPT ![d] = @ \cup ({r} \cap rows)]
        BY <1>2 DEF DeleteRow
    <2>2. rows' = rows /\ \A s \in victims[d] : s = r
        BY <1>2 DEF DeleteRow, CoupleInv, OneVictim
    <2> QED
        BY <1>0, <2>1, <2>2 DEF Reached
<1>3. ASSUME rows' \subseteq rows, victims[d] \subseteq victims'[d] \cup deleting'[d], deleting[d] \subseteq deleting'[d]
      PROVE  Reached(d, k)'
    BY <1>0, <1>3 DEF Reached
<1>4. \/ \E a \in Accepts : CommitAccept(a)
      \/ DeleteRow(d)
      \/ /\ rows' \subseteq rows
         /\ victims[d] \subseteq victims'[d] \cup deleting'[d] /\ deleting[d] \subseteq deleting'[d]
    <2>1. ASSUME NEW e \in Removes, BeginRemove(e) \/ DeleteReverse(e)
          PROVE  rows' = rows /\ deleting' = deleting /\ victims[d] \subseteq victims'[d]
        BY <1>0, <2>1 DEF BeginRemove, DeleteReverse, FindRow, locks
    <2>2. ASSUME NEW e \in Removes \ {d}, DeleteRow(e)
          PROVE  rows' = rows /\ deleting'[d] = deleting[d] /\ victims'[d] = victims[d]
        BY <1>0, <2>2 DEF DeleteRow
    <2>3. ASSUME NEW e \in Removes, CommitRemove(e) \/ AbortRemove(e)
          PROVE  e # d /\ rows' \subseteq rows /\ deleting'[d] = deleting[d] /\ victims'[d] = victims[d]
        BY <1>0, <2>3 DEF CommitRemove, AbortRemove, Goto, Answer, Lose, TypeOK, Ops
    <2> QED
        BY <2>1, <2>2, <2>3
           DEF Next, vars, locks, past, CheckFriends, SendRuns, CheckPending, Create, Refuse, FindPending,
               AcceptRuns, MarkAccepted, InsertFirst, InsertSecond, AbortAccept, Reject, RemoveRuns, Fail
<1> QED
    BY <1>1, <1>2, <1>3, <1>4

LEMMA FindReaches ==
    ASSUME TypeOK, CoupleInv, NEW d \in Removes, NEW k, FindRow(d, k), UNCHANGED <<rows, deleting>>
    PROVE  /\ \A r \in rows : r.key = k => r \in victims'[d] \cup deleting'[d]
           /\ OneVictim'
<1>1. /\ victims'[d] = {r \in rows \ deleting[d] : r.key = k}
      /\ \A e \in Removes \ {d} : victims'[e] = victims[e]
    BY DEF FindRow, TypeOK
<1> QED
    BY <1>1 DEF CoupleInv, KeysUnique, OneVictim

LEMMA ReachedStep ==
    TypeOK /\ ConsentInv /\ PairInv /\ CoupleInv /\ [Next]_vars => FirstReached' /\ SecondReached' /\ OneVictim'
<1> SUFFICES ASSUME TypeOK, ConsentInv, PairInv, CoupleInv, [Next]_vars
             PROVE  FirstReached' /\ SecondReached' /\ OneVictim'
    OBVIOUS
<1>0. /\ pair' = pair /\ victims \in [Removes -> SUBSET Friendship]
      /\ \A d \in Removes : pair[d] \in Couple(pair[d]) /\ Rev(pair[d]) \in Couple(pair[d])
    BY Steady DEF Couple, TypeOK
<1>1. OneVictim'
    <2>1. ASSUME NEW d \in Removes, BeginRemove(d) \/ DeleteReverse(d) PROVE OneVictim'
        BY <2>1, FindReaches DEF BeginRemove, DeleteReverse
    <2>2. ASSUME NEW d \in Removes, victims' = victims \/ victims' = [victims EXCEPT ![d] = {}] PROVE OneVictim'
        BY <1>0, <2>2 DEF CoupleInv, OneVictim
    <2>3. ASSUME NEW d \in Removes, DeleteRow(d) \/ CommitRemove(d) \/ AbortRemove(d) PROVE OneVictim'
        BY <2>2, <2>3 DEF DeleteRow, CommitRemove, AbortRemove
    <2>4. ASSUME victims' = victims PROVE OneVictim'
        BY <2>4 DEF CoupleInv, OneVictim
    <2> QED
        BY <2>1, <2>3, <2>4
           DEF Next, vars, locks, past, CheckFriends, SendRuns, CheckPending, Create, Refuse, FindPending,
               AcceptRuns, MarkAccepted, InsertFirst, InsertSecond, CommitAccept, AbortAccept, Reject, RemoveRuns, Fail
<1>2. ASSUME NEW d \in Removes
      PROVE  /\ pc'[d] \in {"delete1", "delete2"} => Reached(d, pair[d])'
             /\ pc'[d] = "delete2" => Reached(d, Rev(pair[d]))'
    <2>1. \/ pc'[d] = pc[d] \/ pc'[d] \notin {"delete1", "delete2"}
          \/ BeginRemove(d) /\ pc'[d] = "delete1"
          \/ DeleteReverse(d) /\ pc[d] = "delete1" /\ pc'[d] = "delete2"
        BY OpsAssumption
           DEF Next, vars, TypeOK, Ops, Goto, Answer, Lose, locks, past, CheckFriends, SendRuns, CheckPending, Create, Refuse,
               FindPending, AcceptRuns, MarkAccepted, InsertFirst, InsertSecond, CommitAccept, AbortAccept, Reject,
               BeginRemove, RemoveRuns, DeleteRow, DeleteReverse, CommitRemove, AbortRemove, Fail
    <2>2. ASSUME BeginRemove(d) PROVE Reached(d, pair[d])'
        <3>1. \A r \in rows : r.key = pair[d] => r \in victims'[d] \cup deleting'[d]
            BY <2>2, FindReaches DEF BeginRemove
        <3> QED
            BY <1>0, <2>2, <3>1 DEF BeginRemove, Reached
    <2>3. ASSUME DeleteReverse(d) PROVE Reached(d, Rev(pair[d]))'
        <3>1. \A r \in rows : r.key = Rev(pair[d]) => r \in victims'[d] \cup deleting'[d]
            BY <2>3, FindReaches DEF DeleteReverse
        <3> QED
            BY <1>0, <2>3, <3>1 DEF DeleteReverse, Reached, Rev
    <2>4. ASSUME pc[d] \in {"delete1", "delete2"}, pc'[d] \in {"delete1", "delete2"}
          PROVE  \A k \in Couple(pair[d]) : Reached(d, k) => Reached(d, k)'
        BY <2>4, ReachedStays
    <2>5. pc[d] \in {"delete1", "delete2"} /\ pc'[d] \in {"delete1", "delete2"} => Reached(d, pair[d])'
        BY <1>0, <2>4 DEF CoupleInv, FirstReached, Reached
    <2>6. pc[d] = "delete2" /\ pc'[d] = "delete2" => Reached(d, Rev(pair[d]))'
        BY <1>0, <2>4 DEF CoupleInv, SecondReached, Reached, Rev
    <2> QED
        BY <2>1, <2>2, <2>3, <2>5, <2>6
<1> QED
    BY <1>1, <1>2 DEF FirstReached, SecondReached

LEMMA SymmetricStep ==
    TypeOK /\ ConsentInv /\ PairInv /\ CoupleInv /\ SymmetricWithoutRace /\ [Next]_vars => SymmetricWithoutRace'
<1> SUFFICES ASSUME TypeOK, ConsentInv, PairInv, CoupleInv, SymmetricWithoutRace, [Next]_vars
             PROVE  SymmetricWithoutRace'
    OBVIOUS
<1> SUFFICES ASSUME NEW k \in Pairs, k \notin clashed'
             PROVE  k \in Keys' => Rev(k) \in Keys'
    <2>1. \A k \in Pairs : Rev(k) \in Pairs /\ Rev(Rev(k)) = k /\ (Rev(k) \in clashed' => k \in clashed')
        BY Couples, ClashedStep DEF ClashedBoth
    <2> QED
        BY <2>1 DEF SymmetricWithoutRace
<1>0. /\ k \notin clashed /\ (k \in Keys <=> Rev(k) \in Keys)
      /\ \A o \in Ops : pair[o] \in Pairs
    BY ClashedStep DEF SymmetricWithoutRace, TypeOK
<1>1. \A p \in Pairs : k \in Couple(p) => p \notin clashed /\ Couple(p) = {k, Rev(k)}
    BY <1>0 DEF Couple, Rev, Pairs, CoupleInv, ClashedBoth
<1>2. \A p \in Pairs : k \notin Couple(p) => Rev(k) \notin Couple(p)
    BY DEF Couple, Rev, Pairs
<1>3. ASSUME NEW a \in Accepts, CommitAccept(a) PROVE k \in Keys' => Rev(k) \in Keys'
    <2>1. rows' = rows \cup adding[a] /\ pc[a] = "commit" /\ pair[a] \in Pairs
        BY <1>0, <1>3 DEF CommitAccept, Befriend, Ops
    <2>2. CASE k \in Couple(pair[a])
        <3>1. Held(a, pair[a]) /\ Held(a, Rev(pair[a]))
            BY <2>1 DEF CoupleInv, FirstHeld, SecondHeld
        <3>2. pair[a] \in Keys' /\ Rev(pair[a]) \in Keys'
            BY <1>1, <2>1, <2>2, <3>1 DEF Held, Keys
        <3> QED
            BY <1>1, <2>1, <2>2, <3>2 DEF Couple
    <2>3. CASE k \notin Couple(pair[a])
        <3>1. \A r \in adding[a] : r.key # k
            BY <2>3 DEF ConsentInv, AddsOwn
        <3> QED
            BY <1>0, <2>1, <3>1 DEF Keys
    <2> QED
        BY <2>2, <2>3
<1>4. ASSUME NEW d \in Removes, CommitRemove(d) PROVE k \in Keys' => Rev(k) \in Keys'
    <2>1. rows' = rows \ deleting[d] /\ pc[d] = "delete2" /\ victims[d] = {} /\ pair[d] \in Pairs
        BY <1>0, <1>4 DEF CommitRemove, Ops
    <2>2. CASE k \in Couple(pair[d])
        <3>1. Reached(d, pair[d]) /\ Reached(d, Rev(pair[d]))
            BY <2>1 DEF CoupleInv, FirstReached, SecondReached
        <3>2. \A r \in rows : r.key = k => r \in deleting[d]
            BY <1>1, <2>1, <2>2, <3>1 DEF Reached, Couple
        <3> QED
            BY <2>1, <3>2 DEF Keys
    <2>3. CASE k \notin Couple(pair[d])
        <3>1. \A r \in deleting[d] : r.key # Rev(k)
            BY <1>2, <2>1, <2>3 DEF PairInv, DeletesOwn
        <3> QED
            BY <1>0, <2>1, <3>1 DEF Keys
    <2> QED
        BY <2>2, <2>3
<1>5. ASSUME rows' = rows PROVE k \in Keys' => Rev(k) \in Keys'
    BY <1>0, <1>5 DEF Keys
<1> QED
    BY <1>3, <1>4, <1>5
       DEF Next, vars, locks, past, CheckFriends, SendRuns, CheckPending, Create, Refuse, FindPending, AcceptRuns,
           MarkAccepted, InsertFirst, InsertSecond, AbortAccept, Reject, BeginRemove, RemoveRuns, DeleteRow,
           DeleteReverse, AbortRemove, Fail

\* A couple for which no removal overlapped an accept is stored both ways or not at
\* all, however many accepts and removals of it wait for one another, fail or deadlock
\* (acceptAndCreateFriendship and removeFriendship of FriendsRepository).
THEOREM SymmetricWithoutRaceHolds == Spec => []SymmetricWithoutRace
<1>1. TypeOK /\ PairInv /\ [Next]_vars => PairInv'
    BY DeletesOwnStep, CoveredStep, UndercutStep, AcceptedStep DEF PairInv
<1>2. TypeOK /\ ConsentInv /\ PairInv /\ CoupleInv /\ [Next]_vars => CoupleInv'
    BY ClashedStep, UniqueStep, HeldStep, ReachedStep DEF CoupleInv
<1> DEFINE Inv == ConsentInv /\ PairInv /\ CoupleInv /\ SymmetricWithoutRace
<1>3. Init => Inv
    BY ConsentInit, PairInit, CoupleInit
<1>4. TypeOK /\ Inv /\ [Next]_vars => Inv'
    BY <1>1, <1>2, ConsentStep, SymmetricStep
<1>5. Inv => SymmetricWithoutRace
    OBVIOUS
<1> QED
    BY <1>3, <1>4, <1>5, TypeCorrect, PTL DEF Spec
=============================================================================
