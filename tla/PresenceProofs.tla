--------------------------- MODULE PresenceProofs ---------------------------
(***************************************************************************)
(* What is proved of Presence for all users, instances, sockets and calls: *)
(* its type invariant, that fetchSockets counts every socket that stays    *)
(* connected while it counts, that whoever has left is offline, and that a *)
(* connected user is online but for the race of a connection with a        *)
(* removal.                                                                *)
(***************************************************************************)
EXTENDS Presence, FiniteSetTheorems, TLAPS

----------------------------------------------------------------------------
\* The connections.

LEMMA SendPending ==
    ASSUME TypeOK, NEW i \in Instances, NEW cmds \in Seq(Command), Send(i, cmds)
    PROVE  /\ pipe' \in [Instances -> Seq(Command)]
           /\ \A j \in Instances : \A c \in Pending(j)' :
                c \in Pending(j) \/ (j = i /\ \E n \in 1 .. Len(cmds) : c = cmds[n])
<1> DEFINE q == pipe[i]
<1>1. q \in Seq(Command) /\ pipe \in [Instances -> Seq(Command)]
    BY DEF TypeOK
<1>2. q \o cmds \in Seq(Command)
    BY <1>1
<1>3. \A n \in 1 .. Len(q \o cmds) :
        (n \in 1 .. Len(q) /\ (q \o cmds)[n] = q[n])
        \/ (n - Len(q) \in 1 .. Len(cmds) /\ (q \o cmds)[n] = cmds[n - Len(q)])
    BY <1>1
<1>4. pipe' = [pipe EXCEPT ![i] = q \o cmds]
    BY DEF Send
<1> HIDE DEF q
<1>5. pipe' \in [Instances -> Seq(Command)]
    BY <1>1, <1>2, <1>4
<1>6. ASSUME NEW j \in Instances, NEW c \in Pending(j)'
      PROVE  c \in Pending(j) \/ (j = i /\ \E n \in 1 .. Len(cmds) : c = cmds[n])
    <2>1. CASE j # i
        BY <2>1, <1>6, <1>4, <1>1 DEF Pending
    <2>2. CASE j = i
        <3>1. pipe'[i] = q \o cmds
            BY <1>4, <1>1
        <3>2. PICK n \in 1 .. Len(q \o cmds) : c = (q \o cmds)[n]
            BY <2>2, <3>1, <1>6 DEF Pending
        <3> QED
            BY <2>2, <3>2, <1>3 DEF Pending, q
    <2> QED
        BY <2>1, <2>2
<1> QED
    BY <1>5, <1>6

LEMMA SendOne ==
    ASSUME TypeOK, NEW i \in Instances, NEW d \in Command, Send(i, <<d>>)
    PROVE  /\ pipe' \in [Instances -> Seq(Command)]
           /\ \A j \in Instances : \A c \in Pending(j)' : c \in Pending(j) \/ (j = i /\ c = d)
<1>1. <<d>> \in Seq(Command) /\ Len(<<d>>) = 1 /\ <<d>>[1] = d
    OBVIOUS
<1> QED
    BY <1>1, SendPending

LEMMA SendWrites ==
    ASSUME TypeOK, NEW i \in Instances, NEW u \in Users,
           Send(i, SetOnline(u)) \/ Send(i, SetOffline(u))
    PROVE  /\ pipe' \in [Instances -> Seq(Command)]
           /\ \A j \in Instances : \A c \in Pending(j)' : c \in Pending(j) \/ c.op \in {"set", "sadd", "del", "srem"}
<1> DEFINE w(op) == [op |-> op, users |-> {u}]
<1>1. \A op \in {"set", "sadd", "del", "srem"} : w(op) \in Command /\ w(op).op = op
    BY DEF Command, Write
<1> HIDE DEF w
<1>2. ASSUME NEW a \in {"set", "sadd", "del", "srem"}, NEW b \in {"set", "sadd", "del", "srem"},
             Send(i, <<w(a), w(b)>>)
      PROVE  /\ pipe' \in [Instances -> Seq(Command)]
             /\ \A j \in Instances : \A c \in Pending(j)' :
                    c \in Pending(j) \/ c.op \in {"set", "sadd", "del", "srem"}
    <2> DEFINE cmds == <<w(a), w(b)>>
    <2>1. cmds \in Seq(Command) /\ Len(cmds) = 2
        BY <1>1
    <2>2. \A n \in 1 .. 2 : cmds[n].op \in {"set", "sadd", "del", "srem"}
        BY <1>1
    <2>3. Send(i, cmds)
        BY <1>2
    <2> HIDE DEF cmds
    <2>4. /\ pipe' \in [Instances -> Seq(Command)]
          /\ \A j \in Instances : \A c \in Pending(j)' :
                c \in Pending(j) \/ (j = i /\ \E n \in 1 .. Len(cmds) : c = cmds[n])
        BY <2>1, <2>3, SendPending
    <2> QED
        BY <2>1, <2>2, <2>4
<1>3. SetOnline(u) = <<w("set"), w("sadd")>> /\ SetOffline(u) = <<w("del"), w("srem")>>
    BY DEF SetOnline, SetOffline, w
<1>4. CASE Send(i, SetOnline(u))
    <2>1. Send(i, <<w("set"), w("sadd")>>)
        BY <1>4, <1>3
    <2> QED
        BY <2>1, <1>2
<1>5. CASE Send(i, SetOffline(u))
    <2>1. Send(i, <<w("del"), w("srem")>>)
        BY <1>5, <1>3
    <2> QED
        BY <2>1, <1>2
<1> QED
    BY <1>4, <1>5

LEMMA DequeuePending ==
    ASSUME TypeOK, NEW i \in Instances, pipe[i] # <<>>
    PROVE  /\ Head(pipe[i]) \in Pending(i) /\ Head(pipe[i]) \in Command
           /\ Dequeue(i) => /\ pipe' \in [Instances -> Seq(Command)]
                            /\ \A j \in Instances : Pending(j)' \subseteq Pending(j)
<1> DEFINE q == pipe[i]
<1>1. q \in Seq(Command) /\ q # <<>> /\ pipe \in [Instances -> Seq(Command)]
    BY DEF TypeOK
<1>2. Head(q) = q[1] /\ 1 \in 1 .. Len(q) /\ q[1] \in Command
    BY <1>1
<1>3. Tail(q) \in Seq(Command) /\ \A n \in 1 .. Len(Tail(q)) : n + 1 \in 1 .. Len(q) /\ Tail(q)[n] = q[n + 1]
    BY <1>1
<1> HIDE DEF q
<1>4. ASSUME Dequeue(i)
      PROVE  /\ pipe' \in [Instances -> Seq(Command)]
             /\ \A j \in Instances : Pending(j)' \subseteq Pending(j)
    <2>1. pipe' = [pipe EXCEPT ![i] = Tail(q)]
        BY <1>4 DEF Dequeue, q
    <2>2. \A j \in Instances : pipe'[j] = IF j = i THEN Tail(q) ELSE pipe[j]
        BY <2>1, <1>1
    <2> QED
        BY <2>1, <2>2, <1>1, <1>3 DEF Pending, q
<1> QED
    BY <1>2, <1>4 DEF Pending, q

LEMMA CutPending ==
    ASSUME TypeOK, NEW i \in Instances, NEW n \in 0 .. Len(pipe[i]),
           pipe' = [pipe EXCEPT ![i] = SubSeq(@, 1, n)]
    PROVE  /\ pipe' \in [Instances -> Seq(Command)]
           /\ \A j \in Instances : Pending(j)' \subseteq Pending(j)
<1> DEFINE q == pipe[i]
<1>1. q \in Seq(Command) /\ n \in 0 .. Len(q) /\ pipe \in [Instances -> Seq(Command)]
    BY DEF TypeOK
<1>2. SubSeq(q, 1, n) \in Seq(Command)
    BY <1>1
<1>3. \A m \in 1 .. Len(SubSeq(q, 1, n)) : m \in 1 .. Len(q) /\ SubSeq(q, 1, n)[m] = q[m]
    BY <1>1
<1> HIDE DEF q
<1>4. \A j \in Instances : pipe'[j] = IF j = i THEN SubSeq(q, 1, n) ELSE pipe[j]
    BY <1>1 DEF q
<1> QED
    BY <1>1, <1>2, <1>3, <1>4 DEF Pending, q

----------------------------------------------------------------------------
\* Types.

\* Everything that TypeOK says, but for the pipes.
RestType ==
    /\ owner \in [Ops -> Users] /\ at \in [Ops -> Instances]
    /\ pc \in [Ops -> {"new", "open", "counting", "closed", "checking"}]
    /\ found \in [Sockets -> SUBSET Sockets] /\ since \in [Sockets -> SUBSET Sockets]
    /\ waiting \in [Sockets -> SUBSET Instances] /\ asked \in [Sockets -> SUBSET Instances]
    /\ seen \in [Calls -> SUBSET Users]
    /\ keys \in SUBSET Users /\ online \in SUBSET Users
    /\ manual \in SUBSET Users /\ raced \in SUBSET Users
    /\ expiries \in Nat /\ faults \in Nat

LEMMA TypeParts == TypeOK <=> RestType /\ pipe \in [Instances -> Seq(Command)]
    BY DEF TypeOK, RestType

LEMMA InitType == Init => TypeOK
    BY DEF Init, TypeOK, Ops

LEMMA HeadTypes ==
    ASSUME TypeOK, NEW i \in Instances, pipe[i] # <<>>
    PROVE  LET c == Head(pipe[i])
           IN  /\ c.op \in {"set", "sadd", "del", "srem"} => c.users \in SUBSET Users
               /\ c.op = "ask" => c.socket \in Sockets
               /\ c.op = "reply" => c.socket \in Sockets /\ c.sockets \in SUBSET Sockets
<1>1. Head(pipe[i]) \in Command
    BY DequeuePending
<1> QED
    BY <1>1 DEF Command, Write, Ask, Reply

LEMMA LocalTypes ==
    ASSUME TypeOK, NEW i \in Instances, NEW u \in Users
    PROVE  Local(i, u) \in SUBSET Sockets /\ Room(u) \in SUBSET Sockets /\ Others(i) \in SUBSET Instances
    BY DEF Local, Room, Others

LEMMA NextType == TypeOK /\ [Next]_vars => TypeOK'
<1> SUFFICES ASSUME TypeOK, [Next]_vars PROVE RestType' /\ (pipe \in [Instances -> Seq(Command)])'
    BY TypeParts DEF TypeOK, RestType
<1> USE DEF Ops, bounds, history, fetch, store, ops
<1>0. RestType /\ pipe \in [Instances -> Seq(Command)]
    BY TypeParts
<1>1. CASE UNCHANGED vars
    BY <1>1, <1>0 DEF RestType, vars
<1>2. ASSUME NEW s \in Sockets, Connect(s) PROVE RestType' /\ (pipe \in [Instances -> Seq(Command)])'
    <2>1. at[s] \in Instances /\ owner[s] \in Users
        BY DEF TypeOK
    <2>2. pipe' \in [Instances -> Seq(Command)]
        BY <2>1, <1>2, SendWrites DEF Connect
    <2> QED
        BY <2>1, <2>2, <1>0, <1>2 DEF RestType, Connect, Goto
<1>3. ASSUME NEW s \in Sockets, Disconnect(s) PROVE RestType' /\ (pipe \in [Instances -> Seq(Command)])'
    <2>1. at[s] \in Instances /\ owner[s] \in Users
        BY DEF TypeOK
    <2>2. [op |-> "ask", socket |-> s] \in Command
        BY DEF Command, Ask
    <2>3. pipe' \in [Instances -> Seq(Command)]
        BY <2>1, <2>2, <1>3, SendOne DEF Disconnect
    <2> QED
        BY <2>1, <2>3, <1>0, <1>3, LocalTypes DEF RestType, Disconnect, Goto, Snapshot
<1>4. ASSUME NEW s \in Sockets, Decide(s) PROVE RestType' /\ (pipe \in [Instances -> Seq(Command)])'
    <2>1. at[s] \in Instances /\ owner[s] \in Users
        BY DEF TypeOK
    <2>2. pipe' \in [Instances -> Seq(Command)]
        BY <2>1, <1>0, <1>4, SendWrites DEF Decide
    <2> QED
        BY <2>2, <1>0, <1>4 DEF RestType, Decide, Settle, Goto
<1>5. ASSUME NEW s \in Sockets, Timeout(s) PROVE RestType' /\ (pipe \in [Instances -> Seq(Command)])'
    BY <1>5, <1>0 DEF RestType, Timeout, Settle, Goto, Fault
<1>6. ASSUME NEW i \in Instances, RunWrite(i) PROVE RestType' /\ (pipe \in [Instances -> Seq(Command)])'
    <2>1. pipe[i] # <<>> /\ Head(pipe[i]).op \in {"set", "sadd", "del", "srem"}
        BY <1>6 DEF RunWrite, HeadIs
    <2>2. pipe' \in [Instances -> Seq(Command)]
        BY <2>1, <1>6, DequeuePending DEF RunWrite
    <2>3. Head(pipe[i]).users \in SUBSET Users
        BY <2>1, HeadTypes
    <2> QED
        BY <2>2, <2>3, <1>0, <1>6 DEF RestType, RunWrite
<1>7. ASSUME NEW i \in Instances, WriteFails(i) PROVE RestType' /\ (pipe \in [Instances -> Seq(Command)])'
    <2>1. pipe[i] # <<>>
        BY <1>7 DEF WriteFails, HeadIs
    <2>2. pipe' \in [Instances -> Seq(Command)]
        BY <2>1, <1>7, DequeuePending DEF WriteFails
    <2> QED
        BY <2>2, <1>0, <1>7 DEF RestType, WriteFails, Fault
<1>8. ASSUME NEW i \in Instances, RunAsk(i) PROVE RestType' /\ (pipe \in [Instances -> Seq(Command)])'
    <2>1. pipe[i] # <<>> /\ Head(pipe[i]).op = "ask"
        BY <1>8 DEF RunAsk, HeadIs
    <2>2. pipe' \in [Instances -> Seq(Command)]
        BY <2>1, <1>8, DequeuePending DEF RunAsk
    <2>3. Head(pipe[i]).socket \in Sockets /\ Others(i) \in SUBSET Instances
        BY <2>1, HeadTypes DEF Others
    <2> QED
        BY <2>2, <2>3, <1>0, <1>8 DEF RestType, RunAsk
<1>9. ASSUME NEW i \in Instances, NEW s \in Sockets, Answer(i, s)
      PROVE  RestType' /\ (pipe \in [Instances -> Seq(Command)])'
    <2>1. [op |-> "reply", socket |-> s, sockets |-> Local(i, owner[s])] \in Command
        BY LocalTypes DEF Command, Reply, TypeOK
    <2>2. pipe' \in [Instances -> Seq(Command)]
        BY <2>1, <1>9, SendOne DEF Answer
    <2> QED
        BY <2>2, <1>0, <1>9 DEF RestType, Answer
<1>10. ASSUME NEW i \in Instances, RunReply(i) PROVE RestType' /\ (pipe \in [Instances -> Seq(Command)])'
    <2>1. pipe[i] # <<>> /\ Head(pipe[i]).op = "reply"
        BY <1>10 DEF RunReply, HeadIs
    <2>2. pipe' \in [Instances -> Seq(Command)]
        BY <2>1, <1>10, DequeuePending DEF RunReply
    <2>3. Head(pipe[i]).socket \in Sockets /\ Head(pipe[i]).sockets \in SUBSET Sockets
        BY <2>1, HeadTypes
    <2>4. found' \in [Sockets -> SUBSET Sockets] /\ waiting' \in [Sockets -> SUBSET Instances]
        <3> DEFINE h == Head(pipe[i])
        <3>1. CASE pc[h.socket] = "counting"
            <4>1. /\ found' = [found EXCEPT ![h.socket] = @ \cup h.sockets]
                  /\ waiting' = [waiting EXCEPT ![h.socket] = @ \ {i}]
                BY <3>1, <1>10 DEF RunReply
            <4>2. h.socket \in Sockets /\ h.sockets \in SUBSET Sockets
                BY <2>3
            <4>3. found \in [Sockets -> SUBSET Sockets] /\ waiting \in [Sockets -> SUBSET Instances]
                BY <1>0 DEF RestType
            <4> HIDE DEF h
            <4> QED
                BY <4>1, <4>2, <4>3
        <3>2. CASE pc[h.socket] # "counting"
            <4>1. found' = found /\ waiting' = waiting
                BY <3>2, <1>10 DEF RunReply
            <4> QED
                BY <4>1, <1>0 DEF RestType
        <3> QED
            BY <3>1, <3>2
    <2> QED
        BY <2>2, <2>4, <1>0, <1>10 DEF RestType, RunReply
<1>11. ASSUME NEW i \in Instances, Crash(i) PROVE RestType' /\ (pipe \in [Instances -> Seq(Command)])'
    <2>1. pipe' \in [Instances -> Seq(Command)]
        BY <1>11, CutPending DEF Crash
    <2> QED
        BY <2>1, <1>0, <1>11 DEF RestType, Crash, Fault
<1>12. ASSUME NEW p \in Calls, Put(p) PROVE RestType' /\ (pipe \in [Instances -> Seq(Command)])'
    <2>1. at[p] \in Instances /\ owner[p] \in Users
        BY DEF TypeOK
    <2>2. pipe' \in [Instances -> Seq(Command)]
        BY <2>1, <1>12, SendWrites DEF Put
    <2> QED
        BY <2>1, <2>2, <1>0, <1>12 DEF RestType, Put, Goto
<1>13. ASSUME NEW l \in Calls, ListMembers(l) PROVE RestType' /\ (pipe \in [Instances -> Seq(Command)])'
    BY <1>13, <1>0 DEF RestType, ListMembers, Goto
<1>14. ASSUME NEW l \in Calls, ListPrune(l) PROVE RestType' /\ (pipe \in [Instances -> Seq(Command)])'
    <2>1. at[l] \in Instances /\ [op |-> "srem", users |-> seen[l] \ keys] \in Command
        BY DEF TypeOK, Command, Write
    <2>2. pipe' \in [Instances -> Seq(Command)]
        BY <2>1, <1>0, <1>14, SendOne DEF ListPrune
    <2> QED
        BY <2>2, <1>0, <1>14 DEF RestType, ListPrune, Goto
<1>15. ASSUME NEW u \in Users, Expire(u) PROVE RestType' /\ (pipe \in [Instances -> Seq(Command)])'
    BY <1>15, <1>0 DEF RestType, Expire
<1> QED
    BY <1>1, <1>2, <1>3, <1>4, <1>5, <1>6, <1>7, <1>8, <1>9, <1>10, <1>11, <1>12, <1>13, <1>14, <1>15
       DEF Next

\* Every variable keeps its type.
THEOREM TypeCorrect == Spec => []TypeOK
<1> QED
    BY InitType, NextType, PTL DEF Spec

----------------------------------------------------------------------------
\* What fetchSockets counts.

\* Requests and replies are on their way only for sockets that disconnected.
MailInv ==
    /\ \A i \in Instances : \A c \in Pending(i) :
        c.op \in {"ask", "reply"} => pc[c.socket] \in {"counting", "closed"}
    /\ \A s \in Sockets : asked[s] # {} => pc[s] \in {"counting", "closed"}

\* A reply names every socket of its instance that s has to count.
ReplyInv ==
    \A i \in Instances : \A c \in Pending(i) :
        c.op = "reply" /\ pc[c.socket] = "counting" =>
            \A t \in since[c.socket] : pc[t] = "open" /\ at[t] = i => t \in c.sockets

\* A socket that s has to count was counted or is on an instance that s waits for.
FoundInv ==
    \A s \in Sockets : pc[s] = "counting" =>
        /\ s \in found[s]
        /\ \A t \in since[s] :
            /\ owner[t] = owner[s] /\ pc[t] # "new"
            /\ pc[t] = "open" => t \in found[s] \/ at[t] \in waiting[s]

CountInv == MailInv /\ ReplyInv /\ FoundInv

LEMMA InitCount == Init => CountInv
<1> SUFFICES ASSUME Init PROVE CountInv
    OBVIOUS
<1>1. \A i \in Instances : Pending(i) = {}
    BY DEF Init, Pending
<1>2. \A s \in Sockets : pc[s] = "new" /\ asked[s] = {}
    BY DEF Init, Ops
<1> QED
    BY <1>1, <1>2 DEF CountInv, MailInv, ReplyInv, FoundInv

\* A step that sends nothing but writes, opens no socket again and starts no
\* count keeps the invariant, if the sockets it stops counting for are closed.
Quiet ==
    /\ UNCHANGED <<owner, at>>
    /\ \A i \in Instances : \A c \in Pending(i)' :
        c \in Pending(i) \/ c.op \in {"set", "sadd", "del", "srem"}
    /\ \A s \in Sockets :
        /\ pc'[s] = "open" => pc[s] \in {"new", "open"}
        /\ pc'[s] = "new" => pc[s] = "new"
        /\ pc[s] = "counting" => pc'[s] \in {"counting", "closed"}
        /\ pc[s] = "closed" => pc'[s] = "closed"
        /\ pc'[s] = "counting" =>
            /\ pc[s] = "counting" /\ found'[s] = found[s] /\ waiting'[s] = waiting[s]
            /\ since'[s] = since[s]
        /\ asked'[s] \subseteq asked[s]

LEMMA PendingTypes ==
    ASSUME TypeOK, NEW i \in Instances, NEW c \in Pending(i)
    PROVE  /\ c.op \in {"ask", "reply"} => c.socket \in Sockets
           /\ c.op = "reply" => c.sockets \in SUBSET Sockets
<1>1. pipe[i] \in Seq(Command)
    BY DEF TypeOK
<1>2. c \in Command
    BY <1>1 DEF Pending
<1> QED
    BY <1>2 DEF Command, Write, Ask, Reply

LEMMA QuietCount == TypeOK /\ CountInv /\ Quiet => CountInv'
<1> SUFFICES ASSUME TypeOK, CountInv, Quiet PROVE CountInv'
    OBVIOUS
<1> USE DEF CountInv
<1>1. \A i \in Instances : \A c \in Pending(i)' :
        c.op \in {"ask", "reply"} => c \in Pending(i) /\ c.socket \in Sockets
    BY PendingTypes DEF Quiet
<1>2. MailInv'
    BY <1>1 DEF MailInv, Quiet
<1>3. \A s \in Sockets : since[s] \subseteq Sockets
    BY DEF TypeOK
<1>4. ASSUME NEW s \in Sockets, pc'[s] = "counting", NEW t \in since'[s]
      PROVE  /\ pc[s] = "counting" /\ t \in since[s] /\ t \in Sockets
             /\ owner'[t] = owner'[s] /\ pc'[t] # "new"
             /\ pc'[t] = "open" => pc[t] = "open"
    <2>1. pc[s] = "counting" /\ t \in since[s]
        BY <1>4 DEF Quiet
    <2>2. t \in Sockets /\ owner[t] = owner[s] /\ pc[t] # "new"
        BY <2>1, <1>3 DEF FoundInv
    <2> QED
        BY <2>1, <2>2 DEF Quiet
<1>5. ReplyInv'
    <2> SUFFICES ASSUME NEW i \in Instances, NEW c \in Pending(i)', c.op = "reply",
                        pc'[c.socket] = "counting",
                        NEW t \in since'[c.socket], pc'[t] = "open", at'[t] = i
                 PROVE  t \in c.sockets
        BY DEF ReplyInv
    <2>1. c \in Pending(i) /\ c.socket \in Sockets
        BY <1>1
    <2>2. pc[c.socket] = "counting" /\ t \in since[c.socket] /\ pc[t] = "open" /\ at[t] = i
        BY <2>1, <1>4 DEF Quiet
    <2> QED
        BY <2>1, <2>2 DEF ReplyInv
<1>6. FoundInv'
    <2> SUFFICES ASSUME NEW s \in Sockets, pc'[s] = "counting"
                 PROVE  /\ s \in found'[s]
                        /\ \A t \in since'[s] :
                            /\ owner'[t] = owner'[s] /\ pc'[t] # "new"
                            /\ pc'[t] = "open" => t \in found'[s] \/ at'[t] \in waiting'[s]
        BY DEF FoundInv
    <2>1. pc[s] = "counting" /\ found'[s] = found[s] /\ waiting'[s] = waiting[s] /\ at' = at
        BY DEF Quiet
    <2> QED
        BY <2>1, <1>4 DEF FoundInv
<1> QED
    BY <1>2, <1>5, <1>6

LEMMA QuietSteps ==
    ASSUME TypeOK,
           \/ UNCHANGED vars
           \/ \E s \in Sockets : Connect(s) \/ Decide(s) \/ Timeout(s)
           \/ \E i \in Instances : RunWrite(i) \/ WriteFails(i) \/ Crash(i)
           \/ \E c \in Calls : Put(c) \/ ListMembers(c) \/ ListPrune(c)
           \/ \E u \in Users : Expire(u)
    PROVE  Quiet
<1> USE DEF Ops, bounds, history, fetch, store, ops
<1>0. /\ owner \in [Ops -> Users] /\ at \in [Ops -> Instances]
      /\ pc \in [Ops -> {"new", "open", "counting", "closed", "checking"}]
      /\ found \in [Sockets -> SUBSET Sockets] /\ since \in [Sockets -> SUBSET Sockets]
      /\ waiting \in [Sockets -> SUBSET Instances] /\ asked \in [Sockets -> SUBSET Instances]
    BY DEF TypeOK
<1>a. pipe' = pipe => \A i \in Instances : Pending(i)' = Pending(i)
    BY DEF Pending
<1>1. CASE UNCHANGED vars
    BY <1>1, <1>a DEF Quiet, vars
<1>2. ASSUME NEW s \in Sockets, Connect(s) PROVE Quiet
    <2>1. \A i \in Instances : \A c \in Pending(i)' : c \in Pending(i) \/ c.op \in {"set", "sadd", "del", "srem"}
        BY <1>0, <1>2, SendWrites DEF Connect
    <2> QED
        BY <1>0, <1>2, <2>1 DEF Quiet, Connect, Goto
<1>3. ASSUME NEW s \in Sockets, Decide(s) PROVE Quiet
    <2>1. \A i \in Instances : \A c \in Pending(i)' : c \in Pending(i) \/ c.op \in {"set", "sadd", "del", "srem"}
        BY <1>0, <1>a, <1>3, SendWrites DEF Decide
    <2> QED
        BY <1>0, <1>3, <2>1 DEF Quiet, Decide, Settle, Goto
<1>4. ASSUME NEW s \in Sockets, Timeout(s) PROVE Quiet
    BY <1>0, <1>a, <1>4 DEF Quiet, Timeout, Settle, Goto
<1>5. ASSUME NEW i \in Instances, RunWrite(i) \/ WriteFails(i) PROVE Quiet
    <2>1. pipe[i] # <<>> /\ Dequeue(i)
        BY <1>5 DEF RunWrite, WriteFails, HeadIs
    <2>2. \A j \in Instances : Pending(j)' \subseteq Pending(j)
        BY <2>1, DequeuePending
    <2> QED
        BY <1>0, <1>5, <2>2 DEF Quiet, RunWrite, WriteFails
<1>6. ASSUME NEW i \in Instances, Crash(i) PROVE Quiet
    <2>1. \A j \in Instances : Pending(j)' \subseteq Pending(j)
        BY <1>6, CutPending DEF Crash
    <2>2. \A s \in Sockets : at[s] # i => /\ pc'[s] = pc[s] /\ found'[s] = found[s]
                                          /\ waiting'[s] = waiting[s] /\ since'[s] = since[s]
        BY <1>6 DEF Crash
    <2>3. \A s \in Sockets : at[s] = i => pc'[s] = IF pc[s] = "new" THEN "new" ELSE "closed"
        BY <1>6 DEF Crash
    <2>4. owner' = owner /\ at' = at /\ \A s \in Sockets : asked'[s] \subseteq asked[s]
        BY <1>6 DEF Crash
    <2> QED
        BY <2>1, <2>2, <2>3, <2>4 DEF Quiet
<1>7. ASSUME NEW c \in Calls, Put(c) PROVE Quiet
    <2>1. \A i \in Instances : \A d \in Pending(i)' : d \in Pending(i) \/ d.op \in {"set", "sadd", "del", "srem"}
        BY <1>0, <1>7, SendWrites DEF Put
    <2> QED
        BY <1>0, <1>7, <2>1, SetsAssumption DEF Quiet, Put, Goto
<1>8. ASSUME NEW c \in Calls, ListMembers(c) PROVE Quiet
    BY <1>0, <1>a, <1>8, SetsAssumption DEF Quiet, ListMembers, Goto
<1>9. ASSUME NEW c \in Calls, ListPrune(c) PROVE Quiet
    <2> DEFINE w == [op |-> "srem", users |-> seen[c] \ keys]
    <2>1. at[c] \in Instances /\ w \in Command /\ w.op = "srem"
        BY DEF TypeOK, Command, Write
    <2>3. pipe' = pipe \/ Send(at[c], <<w>>)
        BY <1>9 DEF ListPrune
    <2> HIDE DEF w
    <2>2. \A i \in Instances : \A d \in Pending(i)' : d \in Pending(i) \/ d.op \in {"set", "sadd", "del", "srem"}
        BY <2>1, <2>3, <1>a, SendOne
    <2> QED
        BY <1>0, <1>9, <2>2, SetsAssumption DEF Quiet, ListPrune, Goto
<1>10. ASSUME NEW u \in Users, Expire(u) PROVE Quiet
    BY <1>0, <1>a, <1>10 DEF Quiet, Expire
<1> QED
    BY <1>1, <1>2, <1>3, <1>4, <1>5, <1>6, <1>7, <1>8, <1>9, <1>10

LEMMA DisconnectCount == TypeOK /\ CountInv /\ (\E s \in Sockets : Disconnect(s)) => CountInv'
<1> SUFFICES ASSUME TypeOK, CountInv, NEW s \in Sockets, Disconnect(s) PROVE CountInv'
    OBVIOUS
<1> USE DEF CountInv
<1> DEFINE ask == [op |-> "ask", socket |-> s]
<1>1. ask \in Command /\ ask.op = "ask" /\ ask.socket = s
    BY DEF Command, Ask
<1>2. at[s] \in Instances /\ owner[s] \in Users /\ Send(at[s], <<ask>>)
    BY DEF TypeOK, Disconnect, Ops
<1> HIDE DEF ask
<1>3. \A i \in Instances : \A c \in Pending(i)' : c \in Pending(i) \/ c = ask
    BY <1>1, <1>2, SendOne
<1>4. /\ pc[s] = "open" /\ pc'[s] = "counting"
      /\ \A t \in Sockets \ {s} : /\ pc'[t] = pc[t] /\ found'[t] = found[t]
                                 /\ waiting'[t] = waiting[t] /\ since'[t] = since[t]
      /\ found'[s] = Local(at[s], owner[s]) /\ since'[s] = Room(owner[s])
      /\ waiting'[s] = Others(at[s])
      /\ owner' = owner /\ at' = at /\ asked' = asked
    BY DEF TypeOK, Disconnect, Goto, Ops, Snapshot, fetch, ops
<1>5. MailInv'
    BY <1>1, <1>3, <1>4, PendingTypes DEF MailInv
<1>6. \A r \in Sockets : since[r] \subseteq Sockets
    BY DEF TypeOK
<1>7. ReplyInv'
    <2> SUFFICES ASSUME NEW i \in Instances, NEW c \in Pending(i)', c.op = "reply",
                        pc'[c.socket] = "counting",
                        NEW t \in since'[c.socket], pc'[t] = "open", at'[t] = i
                 PROVE  t \in c.sockets
        BY DEF ReplyInv
    <2>1. c \in Pending(i) /\ c.socket \in Sockets
        BY <1>1, <1>3, PendingTypes
    <2>2. c.socket # s
        BY <2>1, <1>4 DEF MailInv
    <2>3. t \in since[c.socket] /\ t \in Sockets /\ pc[c.socket] = "counting"
        BY <2>1, <2>2, <1>4, <1>6
    <2> QED
        BY <2>1, <2>3, <1>4 DEF ReplyInv
<1>8. FoundInv'
    <2> SUFFICES ASSUME NEW r \in Sockets, pc'[r] = "counting"
                 PROVE  /\ r \in found'[r]
                        /\ \A t \in since'[r] :
                            /\ owner'[t] = owner'[r] /\ pc'[t] # "new"
                            /\ pc'[t] = "open" => t \in found'[r] \/ at'[t] \in waiting'[r]
        BY DEF FoundInv
    <2>1. CASE r = s
        <3>1. s \in found'[s]
            BY <1>4 DEF Local, Room
        <3>2. ASSUME NEW t \in since'[s]
              PROVE  /\ t \in Sockets /\ owner[t] = owner[s] /\ pc[t] = "open"
                     /\ t \in found'[s] \/ at[t] \in waiting'[s]
            <4>1. t \in Sockets /\ owner[t] = owner[s] /\ pc[t] = "open"
                BY <1>4 DEF Room
            <4>2. at[t] \in Instances
                BY <4>1 DEF TypeOK, Ops
            <4> QED
                BY <1>4, <4>1, <4>2 DEF Local, Room, Others
        <3>3. \A t \in since'[s] : pc'[t] # "new"
            BY <3>2, <1>4
        <3> QED
            BY <2>1, <3>1, <3>2, <3>3, <1>4
    <2>2. CASE r # s
        <3>1. /\ pc[r] = "counting" /\ found'[r] = found[r] /\ waiting'[r] = waiting[r]
              /\ since'[r] = since[r] /\ since[r] \subseteq Sockets
            BY <2>2, <1>4, <1>6
        <3>2. ASSUME NEW t \in since[r] PROVE pc'[t] # "new" /\ (pc'[t] = "open" => pc[t] = "open")
            <4>1. t \in Sockets /\ pc[t] # "new"
                BY <3>1 DEF FoundInv
            <4> QED
                BY <4>1, <1>4
        <3> QED
            BY <3>1, <3>2, <1>4 DEF FoundInv
    <2> QED
        BY <2>1, <2>2
<1> QED
    BY <1>5, <1>7, <1>8

LEMMA MailCount ==
    ASSUME TypeOK, CountInv, NEW i \in Instances,
           RunAsk(i) \/ (\E s \in Sockets : Answer(i, s))
    PROVE  CountInv'
<1> USE DEF CountInv
<1>1. UNCHANGED <<owner, at, pc, found, waiting, since>>
    BY DEF RunAsk, Answer, ops
<1>2. FoundInv'
    BY <1>1 DEF FoundInv
<1>3. CASE RunAsk(i)
    <2>1. pipe[i] # <<>> /\ Head(pipe[i]).op = "ask" /\ Dequeue(i)
        BY <1>3 DEF RunAsk, HeadIs
    <2>2. /\ Head(pipe[i]) \in Pending(i) /\ Head(pipe[i]).socket \in Sockets
          /\ \A j \in Instances : Pending(j)' \subseteq Pending(j)
        BY <2>1, DequeuePending, HeadTypes
    <2> DEFINE s == Head(pipe[i]).socket
    <2>3. pc[s] \in {"counting", "closed"} /\ \A r \in Sockets \ {s} : asked'[r] = asked[r]
        BY <2>1, <2>2, <1>3 DEF MailInv, RunAsk, TypeOK
    <2> HIDE DEF s
    <2>4. MailInv'
        BY <2>2, <2>3, <1>1 DEF MailInv
    <2>5. ReplyInv'
        BY <2>2, <1>1 DEF ReplyInv
    <2> QED
        BY <2>4, <2>5, <1>2
<1>4. ASSUME NEW s \in Sockets, Answer(i, s) PROVE CountInv'
    <2> DEFINE d == [op |-> "reply", socket |-> s, sockets |-> Local(i, owner[s])]
    <2>1. d \in Command /\ d.op = "reply" /\ d.socket = s /\ d.sockets = Local(i, owner[s])
        BY LocalTypes DEF Command, Reply, TypeOK, Ops
    <2>2. Send(i, <<d>>)
        BY <1>4 DEF Answer
    <2> HIDE DEF d
    <2>3. \A j \in Instances : \A c \in Pending(j)' : c \in Pending(j) \/ (j = i /\ c = d)
        BY <2>1, <2>2, SendOne
    <2>4. pc[s] \in {"counting", "closed"} /\ \A r \in Sockets : asked'[r] \subseteq asked[r]
        BY <1>4 DEF Answer, MailInv, TypeOK
    <2>5. MailInv'
        BY <2>1, <2>3, <2>4, <1>1 DEF MailInv
    <2>6. ASSUME pc[s] = "counting", NEW t \in since[s], pc[t] = "open", at[t] = i PROVE t \in d.sockets
        <3>1. t \in Sockets /\ owner[t] = owner[s]
            BY <2>6 DEF FoundInv, TypeOK
        <3> QED
            BY <3>1, <2>1, <2>6 DEF Local, Room
    <2>7. ReplyInv'
        BY <2>1, <2>3, <2>6, <1>1 DEF ReplyInv
    <2> QED
        BY <2>5, <2>7, <1>2
<1> QED
    BY <1>3, <1>4

LEMMA ReplyCount ==
    ASSUME TypeOK, CountInv, NEW i \in Instances, RunReply(i)
    PROVE  CountInv'
<1> USE DEF CountInv
<1> DEFINE c == Head(pipe[i])
<1>1. UNCHANGED <<owner, at, pc, asked, since>> /\ pipe[i] # <<>> /\ c.op = "reply" /\ Dequeue(i)
    BY DEF RunReply, HeadIs, ops
<1>2. /\ c \in Pending(i) /\ c.socket \in Sockets
      /\ \A j \in Instances : Pending(j)' \subseteq Pending(j)
    BY <1>1, DequeuePending, HeadTypes
<1>3. MailInv' /\ ReplyInv'
    BY <1>1, <1>2 DEF MailInv, ReplyInv
<1>4. CASE pc[c.socket] # "counting"
    <2>1. found' = found /\ waiting' = waiting
        BY <1>4 DEF RunReply
    <2> QED
        BY <2>1, <1>1, <1>3 DEF FoundInv
<1>5. CASE pc[c.socket] = "counting"
    <2>1. /\ found' = [found EXCEPT ![c.socket] = @ \cup c.sockets]
          /\ waiting' = [waiting EXCEPT ![c.socket] = @ \ {i}]
        BY <1>5 DEF RunReply
    <2>2. \A t \in since[c.socket] : pc[t] = "open" /\ at[t] = i => t \in c.sockets
        BY <1>1, <1>2, <1>5 DEF ReplyInv
    <2>3. found \in [Sockets -> SUBSET Sockets] /\ waiting \in [Sockets -> SUBSET Instances]
        BY DEF TypeOK
    <2> HIDE DEF c
    <2>4. /\ found'[c.socket] = found[c.socket] \cup c.sockets
          /\ waiting'[c.socket] = waiting[c.socket] \ {i}
          /\ \A r \in Sockets \ {c.socket} : found'[r] = found[r] /\ waiting'[r] = waiting[r]
        BY <2>1, <2>3, <1>2
    <2>5. FoundInv'
        BY <2>2, <2>4, <1>1, <1>2 DEF FoundInv
    <2> QED
        BY <2>5, <1>3
<1> QED
    BY <1>4, <1>5

LEMMA NextCount == TypeOK /\ CountInv /\ [Next]_vars => CountInv'
<1> SUFFICES ASSUME TypeOK, CountInv, [Next]_vars PROVE CountInv'
    OBVIOUS
<1>1. CASE Quiet
    BY <1>1, QuietCount
<1>2. CASE \E s \in Sockets : Disconnect(s)
    BY <1>2, DisconnectCount
<1>3. CASE \E i \in Instances : RunAsk(i) \/ \E s \in Sockets : Answer(i, s)
    BY <1>3, MailCount
<1>4. CASE \E i \in Instances : RunReply(i)
    BY <1>4, ReplyCount
<1> QED
    BY <1>1, <1>2, <1>3, <1>4, QuietSteps DEF Next

LEMMA CountInvHolds == Spec => []CountInv
<1> QED
    BY InitCount, NextCount, TypeCorrect, PTL DEF Spec

LEMMA LastIsAlone == TypeOK /\ CountInv => LastMeansLast
<1> SUFFICES ASSUME TypeOK, CountInv, NEW s \in Sockets,
                    pc[s] = "counting", waiting[s] = {}, IsLast(s),
                    NEW t \in since[s], t \in Room(owner[s])
             PROVE  FALSE
    BY DEF LastMeansLast
<1>1. s \in found[s] /\ t \in found[s] /\ s # t
    BY DEF CountInv, FoundInv, Room
<1>2. IsFiniteSet(found[s])
    BY SetsAssumption, FS_Subset DEF TypeOK
<1>3. \E x : found[s] = {x}
    BY <1>2, FS_Singleton DEF IsLast
<1> QED
    BY <1>1, <1>3

\* fetchSockets counts every socket that stays connected, on whatever instance: a
\* handler that finds its socket to be the last is right about all sockets that
\* were connected when it began, under crashes, timeouts and late replies.
THEOREM LastMeansLastHolds == Spec => []LastMeansLast
<1> QED
    BY LastIsAlone, TypeCorrect, CountInvHolds, PTL

----------------------------------------------------------------------------
\* Commands and their places in the pipes.

Places(i) == 1 .. Len(pipe[i])

\* The command at place n of pipe i writes u.
Is(i, n, op, u) == pipe[i][n].op = op /\ u \in pipe[i][n].users

\* A step that only appends, and the places it adds to a pipe.
Kept == \A j \in Instances :
            Places(j) \subseteq Places(j)' /\ \A n \in Places(j) : pipe'[j][n] = pipe[j][n]
Fresh(j) == Places(j)' \ Places(j)

LEMMA SendPlaces ==
    ASSUME TypeOK, NEW i \in Instances, NEW cmds \in Seq(Command), Send(i, cmds)
    PROVE  /\ Kept
           /\ \A j \in Instances : \A n \in Fresh(j) :
                /\ j = i /\ n - Len(pipe[i]) \in 1 .. Len(cmds)
                /\ pipe'[j][n] = cmds[n - Len(pipe[i])]
                /\ \A m \in Places(j) : m < n
           /\ \A k \in 1 .. Len(cmds) :
                Len(pipe[i]) + k \in Fresh(i) /\ pipe'[i][Len(pipe[i]) + k] = cmds[k]
<1> DEFINE q == pipe[i]
<1>1. q \in Seq(Command) /\ pipe \in [Instances -> Seq(Command)]
    BY DEF TypeOK
<1>2. /\ Len(q \o cmds) = Len(q) + Len(cmds) /\ Len(q) \in Nat /\ Len(cmds) \in Nat
      /\ \A n \in 1 .. Len(q) : (q \o cmds)[n] = q[n]
      /\ \A n \in 1 .. Len(q) + Len(cmds) : n > Len(q) => (q \o cmds)[n] = cmds[n - Len(q)]
    BY <1>1
<1>3. pipe' = [pipe EXCEPT ![i] = q \o cmds]
    BY DEF Send
<1> HIDE DEF q
<1>4. pipe'[i] = q \o cmds /\ \A j \in Instances \ {i} : pipe'[j] = pipe[j]
    BY <1>1, <1>3
<1>5. /\ Places(i) = 1 .. Len(q) /\ Places(i)' = 1 .. Len(q) + Len(cmds) /\ pipe[i] = q
      /\ \A j \in Instances \ {i} : Places(j)' = Places(j)
    BY <1>2, <1>4 DEF Places, q
<1>6. Kept
    BY <1>2, <1>4, <1>5 DEF Kept
<1>7. ASSUME NEW j \in Instances, NEW n \in Fresh(j)
      PROVE  /\ j = i /\ n - Len(pipe[i]) \in 1 .. Len(cmds)
             /\ pipe'[j][n] = cmds[n - Len(pipe[i])]
             /\ \A m \in Places(j) : m < n
    <2>1. j = i
        BY <1>5, <1>7 DEF Fresh
    <2>2. n \in 1 .. Len(q) + Len(cmds) /\ n \notin 1 .. Len(q)
        BY <1>5, <1>7, <2>1 DEF Fresh
    <2>3. n > Len(q) /\ n - Len(q) \in 1 .. Len(cmds)
        BY <1>2, <2>2
    <2>4. pipe'[i][n] = cmds[n - Len(q)]
        BY <1>2, <1>4, <2>2, <2>3
    <2>5. \A m \in 1 .. Len(q) : m < n
        BY <1>2, <2>2, <2>3
    <2> QED
        BY <1>5, <2>1, <2>3, <2>4, <2>5
<1>8. ASSUME NEW k \in 1 .. Len(cmds)
      PROVE  Len(pipe[i]) + k \in Fresh(i) /\ pipe'[i][Len(pipe[i]) + k] = cmds[k]
    <2>1. Len(q) + k \in 1 .. Len(q) + Len(cmds) /\ Len(q) + k > Len(q) /\ (Len(q) + k) - Len(q) = k
        BY <1>2
    <2> QED
        BY <1>2, <1>4, <1>5, <2>1 DEF Fresh
<1> QED
    BY <1>6, <1>7, <1>8

LEMMA DequeuePlaces ==
    ASSUME TypeOK, NEW i \in Instances, pipe[i] # <<>>, Dequeue(i)
    PROVE  /\ \A j \in Instances \ {i} : pipe'[j] = pipe[j]
           /\ 1 \in Places(i) /\ Head(pipe[i]) = pipe[i][1]
           /\ \A n \in Places(i)' : n + 1 \in Places(i) /\ pipe'[i][n] = pipe[i][n + 1]
           /\ \A n \in Places(i) : n > 1 => n - 1 \in Places(i)' /\ pipe'[i][n - 1] = pipe[i][n]
<1> DEFINE q == pipe[i]
<1>1. q \in Seq(Command) /\ q # <<>> /\ pipe \in [Instances -> Seq(Command)]
    BY DEF TypeOK
<1>2. /\ Head(q) = q[1] /\ Len(q) \in Nat /\ Len(q) > 0 /\ Len(Tail(q)) = Len(q) - 1
      /\ \A n \in 1 .. Len(q) - 1 : Tail(q)[n] = q[n + 1]
    BY <1>1
<1>3. pipe' = [pipe EXCEPT ![i] = Tail(q)]
    BY DEF Dequeue
<1> HIDE DEF q
<1>4. pipe'[i] = Tail(q) /\ \A j \in Instances \ {i} : pipe'[j] = pipe[j]
    BY <1>1, <1>3
<1>5. Places(i) = 1 .. Len(q) /\ Places(i)' = 1 .. Len(q) - 1 /\ pipe[i] = q
    BY <1>2, <1>4 DEF Places, q
<1>6. ASSUME NEW n \in Places(i), n > 1 PROVE n - 1 \in Places(i)' /\ pipe'[i][n - 1] = pipe[i][n]
    <2>1. n - 1 \in 1 .. Len(q) - 1 /\ (n - 1) + 1 = n
        BY <1>2, <1>5, <1>6
    <2> QED
        BY <1>2, <1>4, <1>5, <2>1
<1> QED
    BY <1>2, <1>4, <1>5, <1>6

\* Every write of u by on is undone by a later off of the same pipe.
Undone(on, off, u) ==
    \A i \in Instances : \A n \in Places(i) : Is(i, n, on, u) =>
        \E m \in Places(i) : m > n /\ Is(i, m, off, u)

OnItsWay(op, u) == \E i \in Instances : \E n \in Places(i) : Is(i, n, op, u)

LEMMA UndoneKept ==
    ASSUME TypeOK, Kept, NEW u, NEW on, NEW off, Undone(on, off, u),
           \A j \in Instances : \A n \in Fresh(j) : ~ Is(j, n, on, u)'
    PROVE  Undone(on, off, u)'
    BY DEF Undone, Kept, Fresh, Is

LEMMA OnItsWayKept ==
    ASSUME Kept, NEW u, NEW op, OnItsWay(op, u)
    PROVE  OnItsWay(op, u)'
    BY DEF OnItsWay, Kept, Is

LEMMA UndoneDequeue ==
    ASSUME TypeOK, NEW i \in Instances, pipe[i] # <<>>, Dequeue(i), NEW u, NEW on, NEW off, Undone(on, off, u)
    PROVE  /\ Undone(on, off, u)'
           /\ Is(i, 1, on, u) => OnItsWay(off, u)'
           /\ OnItsWay(off, u) => OnItsWay(off, u)' \/ Is(i, 1, off, u)
<1>0. \A j \in Instances : Places(j) \subseteq Nat
    BY DEF Places
<1>1. ASSUME NEW j \in Instances, NEW n \in Places(j)', Is(j, n, on, u)'
      PROVE  \E m \in Places(j)' : m > n /\ Is(j, m, off, u)'
    <2>1. CASE j # i
        BY <1>1, <2>1, DequeuePlaces DEF Undone, Is, Places
    <2>2. CASE j = i
        <3>1. n + 1 \in Places(i) /\ Is(i, n + 1, on, u) /\ n \in Nat
            BY <1>1, <2>2, DequeuePlaces DEF Is, Places
        <3>2. PICK m \in Places(i) : m > n + 1 /\ Is(i, m, off, u)
            BY <3>1 DEF Undone
        <3>3. m - 1 > n /\ m > 1
            BY <1>0, <3>1, <3>2
        <3> QED
            BY <2>2, <3>2, <3>3, DequeuePlaces DEF Is
    <2> QED
        BY <2>1, <2>2
<1>2. ASSUME NEW j \in Instances, NEW n \in Places(j), Is(j, n, off, u), j # i \/ n > 1
      PROVE  OnItsWay(off, u)'
    <2>1. CASE j # i
        BY <1>2, <2>1, DequeuePlaces DEF OnItsWay, Is, Places
    <2>2. CASE j = i
        <3>1. n - 1 \in Places(i)' /\ Is(i, n - 1, off, u)'
            BY <1>2, <2>2, DequeuePlaces DEF Is
        <3> QED
            BY <3>1 DEF OnItsWay
    <2> QED
        BY <2>1, <2>2
<1>3. ASSUME Is(i, 1, on, u) PROVE OnItsWay(off, u)'
    <2>1. PICK m \in Places(i) : m > 1 /\ Is(i, m, off, u)
        BY <1>3, DequeuePlaces DEF Undone
    <2> QED
        BY <2>1, <1>2
<1>4. ASSUME OnItsWay(off, u) PROVE OnItsWay(off, u)' \/ Is(i, 1, off, u)
    <2>1. PICK j \in Instances : \E n \in Places(j) : Is(j, n, off, u)
        BY <1>4 DEF OnItsWay
    <2>2. PICK n \in Places(j) : Is(j, n, off, u)
        BY <2>1
    <2>3. j = i /\ ~(n > 1) => n = 1
        BY DEF Places
    <2> QED
        BY <1>2, <2>2, <2>3
<1> QED
    BY <1>1, <1>3, <1>4 DEF Undone

----------------------------------------------------------------------------
\* Whoever has left is offline.  When the last socket of a user disconnects, the
\* writes of earlier connections are ahead of the replies it waits for, so that they
\* run before its setOffline does.

Puts(i, n, u) == Is(i, n, "set", u) \/ Is(i, n, "sadd", u)
IsReply(i, n, z) == pipe[i][n].op = "reply" /\ pipe[i][n].socket = z

\* Whatever puts u online is followed by what removes it.
Off(u) ==
    /\ Undone("set", "del", u) /\ Undone("sadd", "srem", u)
    /\ u \in keys => OnItsWay("del", u)
    /\ u \in online => OnItsWay("srem", u)

\* Socket z will find itself the last one of u, and nothing puts u online after that.
Removing(u, z) ==
    /\ owner[z] = u /\ pc[z] = "counting" /\ found[z] = {z}
    /\ \A i \in Instances \ {at[z]} : i \notin waiting[z] => \A n \in Places(i) : ~ Puts(i, n, u)
    /\ \A i \in Instances : \A n \in Places(i) : IsReply(i, n, z) =>
        /\ pipe[i][n].sockets = {}
        /\ \A m \in Places(i) : m > n => ~ Puts(i, m, u)

GoneInv ==
    \A u \in Users : faults = 0 /\ u \notin manual /\ Room(u) = {} =>
        Off(u) \/ \E z \in Sockets : Removing(u, z)

LEMMA OffAppends ==
    ASSUME TypeOK, Kept, NEW u, Off(u), keys' \subseteq keys, online' \subseteq online,
           \A j \in Instances : \A n \in Fresh(j) : ~ Puts(j, n, u)'
    PROVE  Off(u)'
<1>1. Undone("set", "del", u)' /\ Undone("sadd", "srem", u)'
    BY UndoneKept DEF Off, Puts
<1>2. /\ OnItsWay("del", u) => OnItsWay("del", u)'
      /\ OnItsWay("srem", u) => OnItsWay("srem", u)'
    BY OnItsWayKept
<1> QED
    BY <1>1, <1>2 DEF Off

LEMMA OffDequeues ==
    ASSUME TypeOK, NEW i \in Instances, pipe[i] # <<>>, Dequeue(i), NEW u, Off(u),
           u \in keys' => (u \in keys /\ ~ Is(i, 1, "del", u)) \/ Is(i, 1, "set", u),
           u \in online' => (u \in online /\ ~ Is(i, 1, "srem", u)) \/ Is(i, 1, "sadd", u)
    PROVE  Off(u)'
<1>1. /\ Undone("set", "del", u)'
      /\ Is(i, 1, "set", u) => OnItsWay("del", u)'
      /\ OnItsWay("del", u) => OnItsWay("del", u)' \/ Is(i, 1, "del", u)
    BY UndoneDequeue DEF Off
<1>2. /\ Undone("sadd", "srem", u)'
      /\ Is(i, 1, "sadd", u) => OnItsWay("srem", u)'
      /\ OnItsWay("srem", u) => OnItsWay("srem", u)' \/ Is(i, 1, "srem", u)
    BY UndoneDequeue DEF Off
<1> QED
    BY <1>1, <1>2 DEF Off

LEMMA RemovingAppends ==
    ASSUME TypeOK, Kept, NEW u, NEW z \in Sockets, Removing(u, z), UNCHANGED <<owner, at>>,
           pc'[z] = "counting", found'[z] = found[z], waiting'[z] = waiting[z],
           \A j \in Instances : \A n \in Fresh(j) :
              ~ Puts(j, n, u)' /\ (IsReply(j, n, z)' => pipe'[j][n].sockets = {})
    PROVE  Removing(u, z)'
<1>1. ASSUME NEW i \in Instances, NEW n \in Places(i)'
      PROVE  \/ n \in Fresh(i)
             \/ n \in Places(i) /\ pipe'[i][n] = pipe[i][n]
    BY DEF Fresh, Kept
<1>2. ASSUME NEW i \in Instances \ {at[z]}, i \notin waiting[z], NEW n \in Places(i)'
      PROVE  ~ Puts(i, n, u)'
    BY <1>1, <1>2 DEF Removing, Puts, Is
<1>3. ASSUME NEW i \in Instances, NEW n \in Places(i)', IsReply(i, n, z)'
      PROVE  /\ pipe'[i][n].sockets = {}
             /\ \A m \in Places(i)' : m > n => ~ Puts(i, m, u)'
    <2>1. CASE n \in Places(i) /\ pipe'[i][n] = pipe[i][n]
        <3>1. IsReply(i, n, z)
            BY <1>3, <2>1 DEF IsReply
        <3> QED
            BY <1>1, <2>1, <3>1 DEF Removing, Puts, Is
    <2>2. CASE n \in Fresh(i)
        <3>1. \A m \in Places(i)' : m > n => m \in Fresh(i)
            BY <2>2 DEF Fresh, Places, TypeOK
        <3> QED
            BY <1>3, <2>2, <3>1
    <2> QED
        BY <1>1, <2>1, <2>2
<1> QED
    BY <1>2, <1>3 DEF Removing

LEMMA RemovingDequeues ==
    ASSUME TypeOK, NEW i \in Instances, pipe[i] # <<>>, Dequeue(i), NEW u, NEW z \in Sockets, Removing(u, z),
           UNCHANGED <<owner, at>>, pc'[z] = "counting", found'[z] = {z},
           \A j \in Instances : j \in waiting[z] => j \in waiting'[z] \/ (j = i /\ IsReply(i, 1, z))
    PROVE  Removing(u, z)'
<1>0. \A j \in Instances : Places(j) \subseteq Nat /\ Places(j)' \subseteq Nat \ {0}
    BY DEF Places
<1>1. ASSUME NEW j \in Instances, NEW n \in Places(j)'
      PROVE  \E k \in Places(j) : pipe'[j][n] = pipe[j][k] /\ k = IF j = i THEN n + 1 ELSE n
    BY DequeuePlaces DEF Places
<1>2. ASSUME NEW j \in Instances \ {at[z]}, j \notin waiting'[z], NEW n \in Places(j)'
      PROVE  ~ Puts(j, n, u)'
    <2>1. PICK k \in Places(j) : pipe'[j][n] = pipe[j][k] /\ k = IF j = i THEN n + 1 ELSE n
        BY <1>1
    <2>2. CASE j \notin waiting[z]
        BY <2>1, <2>2 DEF Removing, Puts, Is
    <2>3. CASE j = i /\ IsReply(i, 1, z)
        <3>1. 1 \in Places(i) /\ k > 1
            BY <1>0, <2>1, <2>3, DequeuePlaces
        <3>2. ~ Puts(i, k, u)
            BY <2>1, <2>3, <3>1 DEF Removing
        <3> QED
            BY <2>1, <2>3, <3>2 DEF Puts, Is
    <2> QED
        BY <1>2, <2>2, <2>3
<1>3. ASSUME NEW j \in Instances, NEW n \in Places(j)', IsReply(j, n, z)', NEW m \in Places(j)'
      PROVE  /\ pipe'[j][n].sockets = {}
             /\ m > n => ~ Puts(j, m, u)'
    <2>1. PICK k \in Places(j) : pipe'[j][n] = pipe[j][k] /\ k = IF j = i THEN n + 1 ELSE n
        BY <1>1
    <2>2. PICK l \in Places(j) : pipe'[j][m] = pipe[j][l] /\ l = IF j = i THEN m + 1 ELSE m
        BY <1>1
    <2>3. m > n => l > k
        BY <1>0, <2>1, <2>2
    <2>4. IsReply(j, k, z)
        BY <1>3, <2>1 DEF IsReply
    <2>5. pipe[j][k].sockets = {} /\ (l > k => ~ Puts(j, l, u))
        BY <2>4 DEF Removing
    <2> QED
        BY <2>1, <2>2, <2>3, <2>5 DEF Puts, Is
<1> QED
    BY <1>2, <1>3 DEF Removing

----------------------------------------------------------------------------
\* Without a fault every request that a handler waits for is under way: asked for,
\* or answered with a reply that will come.

IsAsk(i, n, s) == pipe[i][n].op = "ask" /\ pipe[i][n].socket = s

Asked(s)      == \E n \in Places(at[s]) : IsAsk(at[s], n, s)
Replied(i, s) == \E n \in Places(i) : IsReply(i, n, s)

AskInv ==
    /\ \A i \in Instances : \A c \in Pending(i) : c.op = "ask" => at[c.socket] = i
    /\ \A s \in Sockets : pc[s] = "counting" => waiting[s] \subseteq Others(at[s])

Delivered ==
    faults = 0 => \A s \in Sockets : pc[s] = "counting" =>
        \A i \in waiting[s] : i \in asked[s] \/ Asked(s) \/ Replied(i, s)

LEMMA InitDelivered == Init => AskInv /\ Delivered
<1> SUFFICES ASSUME Init PROVE AskInv /\ Delivered
    OBVIOUS
<1>1. \A i \in Instances : Pending(i) = {}
    BY DEF Init, Pending
<1>2. \A s \in Sockets : pc[s] = "new"
    BY DEF Init, Ops
<1> QED
    BY <1>1, <1>2 DEF AskInv, Delivered

LEMMA NextAsk == TypeOK /\ AskInv /\ [Next]_vars => AskInv'
<1> SUFFICES ASSUME TypeOK, AskInv, [Next]_vars PROVE AskInv'
    OBVIOUS
<1>1. CASE Quiet
    <2>1. \A i \in Instances : \A c \in Pending(i)' : c.op = "ask" => c \in Pending(i)
        BY <1>1 DEF Quiet
    <2> QED
        BY <1>1, <2>1 DEF AskInv, Quiet, Others
<1>2. ASSUME NEW s \in Sockets, Disconnect(s) PROVE AskInv'
    <2> DEFINE ask == [op |-> "ask", socket |-> s]
    <2>1. ask \in Command /\ ask.socket = s
        BY DEF Command, Ask
    <2>2. at[s] \in Instances /\ Send(at[s], <<ask>>)
        BY <1>2 DEF TypeOK, Disconnect, Ops
    <2> HIDE DEF ask
    <2>3. \A i \in Instances : \A c \in Pending(i)' : c \in Pending(i) \/ (i = at[s] /\ c = ask)
        BY <2>1, <2>2, SendOne
    <2>4. /\ at' = at /\ waiting'[s] = Others(at[s])
          /\ \A t \in Sockets \ {s} : pc'[t] = pc[t] /\ waiting'[t] = waiting[t]
        BY <1>2 DEF Disconnect, TypeOK, Goto, Ops, ops
    <2> QED
        BY <2>1, <2>3, <2>4 DEF AskInv, Others
<1>3. ASSUME NEW i \in Instances, NEW s \in Sockets, Answer(i, s) PROVE AskInv'
    <2> DEFINE d == [op |-> "reply", socket |-> s, sockets |-> Local(i, owner[s])]
    <2>1. d \in Command /\ d.op # "ask" /\ Send(i, <<d>>)
        BY <1>3, LocalTypes DEF Command, Reply, TypeOK, Ops, Answer
    <2> HIDE DEF d
    <2>2. \A j \in Instances : \A c \in Pending(j)' : c.op = "ask" => c \in Pending(j)
        BY <2>1, SendOne
    <2>3. UNCHANGED <<at, pc, waiting>>
        BY <1>3 DEF Answer, ops
    <2> QED
        BY <2>2, <2>3 DEF AskInv, Others
<1>4. ASSUME NEW i \in Instances, RunAsk(i) \/ RunReply(i) PROVE AskInv'
    <2>1. pipe[i] # <<>> /\ Dequeue(i)
        BY <1>4 DEF RunAsk, RunReply, HeadIs
    <2>2. \A j \in Instances : Pending(j)' \subseteq Pending(j)
        BY <2>1, DequeuePending
    <2>3. at' = at /\ pc' = pc /\ \A s \in Sockets : waiting'[s] \subseteq waiting[s]
        BY <1>4 DEF RunAsk, RunReply, TypeOK, ops
    <2> QED
        BY <2>2, <2>3 DEF AskInv, Others
<1> QED
    BY <1>1, <1>2, <1>3, <1>4, QuietSteps DEF Next

\* The steps that append to a pipe or leave all as they are, and ask nothing.
Calm == /\ Kept
        /\ UNCHANGED <<owner, at, asked>>
        /\ \A s \in Sockets : pc'[s] = "counting" =>
             pc[s] = "counting" /\ waiting'[s] = waiting[s] /\ found'[s] = found[s] /\ since'[s] = since[s]

LEMMA SamePipes == ASSUME pipe' = pipe PROVE Kept /\ \A j \in Instances : Fresh(j) = {}
    BY DEF Kept, Fresh, Places

\* What is written at the places that a pipeline takes.
LEMMA SendPlacesOfWrites ==
    ASSUME TypeOK, NEW i \in Instances, NEW u \in Users, NEW a, NEW b,
           \/ a = "set" /\ b = "sadd" /\ Send(i, SetOnline(u))
           \/ a = "del" /\ b = "srem" /\ Send(i, SetOffline(u))
    PROVE  /\ Kept
           /\ \E l \in Nat :
                /\ l + 1 \in Fresh(i) /\ l + 2 \in Fresh(i)
                /\ \A j \in Instances : \A n \in Fresh(j) :
                     /\ j = i /\ n \in {l + 1, l + 2} /\ \A m \in Places(j) : m < n
                     /\ pipe'[j][n] = [op |-> IF n = l + 1 THEN a ELSE b, users |-> {u}]
<1> DEFINE w(op) == [op |-> op, users |-> {u}]
           cmds == <<w(a), w(b)>>
           l == Len(pipe[i])
<1>1. w(a) \in Command /\ w(b) \in Command
    BY DEF Command, Write
<1>2. Send(i, cmds)
    BY DEF SetOnline, SetOffline
<1> HIDE DEF w
<1>3. cmds \in Seq(Command) /\ Len(cmds) = 2 /\ cmds[1] = w(a) /\ cmds[2] = w(b)
    BY <1>1
<1> HIDE DEF cmds
<1>4. l \in Nat
    BY DEF TypeOK
<1>5. /\ Kept
      /\ \A j \in Instances : \A n \in Fresh(j) :
            /\ j = i /\ n - l \in 1 .. 2
            /\ pipe'[j][n] = cmds[n - l]
            /\ \A m \in Places(j) : m < n
      /\ \A k \in 1 .. 2 : l + k \in Fresh(i) /\ pipe'[i][l + k] = cmds[k]
    <2>1. /\ Kept
          /\ \A j \in Instances : \A n \in Fresh(j) :
                /\ j = i /\ n - l \in 1 .. Len(cmds)
                /\ pipe'[j][n] = cmds[n - l]
                /\ \A m \in Places(j) : m < n
          /\ \A k \in 1 .. Len(cmds) : l + k \in Fresh(i) /\ pipe'[i][l + k] = cmds[k]
        BY <1>2, <1>3, SendPlaces
    <2> QED
        BY <1>3, <2>1
<1> HIDE DEF l
<1>6. \A j \in Instances : \A n \in Fresh(j) : n \in Int
    BY DEF Fresh, Places
<1>7. l + 1 \in Fresh(i) /\ l + 2 \in Fresh(i)
    BY <1>5
<1>8. ASSUME NEW j \in Instances, NEW n \in Fresh(j)
      PROVE  /\ j = i /\ n \in {l + 1, l + 2} /\ \A m \in Places(j) : m < n
             /\ pipe'[j][n] = w(IF n = l + 1 THEN a ELSE b)
    <2>1. /\ j = i /\ n - l \in 1 .. 2 /\ pipe'[j][n] = cmds[n - l]
          /\ \A m \in Places(j) : m < n
        BY <1>5
    <2>2. \/ n = l + 1 /\ n - l = 1
          \/ n = l + 2 /\ n - l = 2 /\ n # l + 1
        BY <1>4, <1>6, <2>1
    <2> QED
        BY <1>3, <2>1, <2>2
<1> QED
    BY <1>4, <1>5, <1>7, <1>8 DEF w

LEMMA SentOnline ==
    ASSUME TypeOK, NEW i \in Instances, NEW u \in Users, Send(i, SetOnline(u))
    PROVE  Kept /\ \A j \in Instances : \A n \in Fresh(j) : pipe'[j][n].op \in {"set", "sadd"} /\ pipe'[j][n].users = {u}
<1>1. /\ Kept
      /\ \E l \in Nat :
            /\ l + 1 \in Fresh(i) /\ l + 2 \in Fresh(i)
            /\ \A j \in Instances : \A n \in Fresh(j) :
                 /\ j = i /\ n \in {l + 1, l + 2} /\ \A m \in Places(j) : m < n
                 /\ pipe'[j][n] = [op |-> IF n = l + 1 THEN "set" ELSE "sadd", users |-> {u}]
    BY SendPlacesOfWrites
<1>2. ASSUME NEW j \in Instances, NEW n \in Fresh(j)
      PROVE  pipe'[j][n].op \in {"set", "sadd"} /\ pipe'[j][n].users = {u}
    <2>1. PICK l \in Nat : pipe'[j][n] = [op |-> IF n = l + 1 THEN "set" ELSE "sadd", users |-> {u}]
        BY <1>1
    <2> QED
        BY <2>1
<1> QED
    BY <1>1, <1>2

LEMMA SentOffline ==
    ASSUME TypeOK, NEW i \in Instances, NEW u \in Users, Send(i, SetOffline(u))
    PROVE  Kept /\ \A j \in Instances : \A n \in Fresh(j) : pipe'[j][n].op \in {"del", "srem"} /\ pipe'[j][n].users = {u}
<1>1. /\ Kept
      /\ \E l \in Nat :
            /\ l + 1 \in Fresh(i) /\ l + 2 \in Fresh(i)
            /\ \A j \in Instances : \A n \in Fresh(j) :
                 /\ j = i /\ n \in {l + 1, l + 2} /\ \A m \in Places(j) : m < n
                 /\ pipe'[j][n] = [op |-> IF n = l + 1 THEN "del" ELSE "srem", users |-> {u}]
    BY SendPlacesOfWrites
<1>2. ASSUME NEW j \in Instances, NEW n \in Fresh(j)
      PROVE  pipe'[j][n].op \in {"del", "srem"} /\ pipe'[j][n].users = {u}
    <2>1. PICK l \in Nat : pipe'[j][n] = [op |-> IF n = l + 1 THEN "del" ELSE "srem", users |-> {u}]
        BY <1>1
    <2> QED
        BY <2>1
<1> QED
    BY <1>1, <1>2

LEMMA SendPlaceOfOne ==
    ASSUME TypeOK, NEW i \in Instances, NEW d \in Command, Send(i, <<d>>)
    PROVE  /\ Kept
           /\ \A j \in Instances : \A n \in Fresh(j) :
                j = i /\ pipe'[j][n] = d /\ \A m \in Places(j) : m < n
           /\ \E n \in Fresh(i) : pipe'[i][n] = d
<1> DEFINE cmds == <<d>>
<1>1. cmds \in Seq(Command) /\ Len(cmds) = 1 /\ cmds[1] = d /\ Send(i, cmds)
    OBVIOUS
<1> HIDE DEF cmds
<1>2. /\ Kept
      /\ \A j \in Instances : \A n \in Fresh(j) :
            /\ j = i /\ n - Len(pipe[i]) \in 1 .. Len(cmds)
            /\ pipe'[j][n] = cmds[n - Len(pipe[i])]
            /\ \A m \in Places(j) : m < n
      /\ \A k \in 1 .. Len(cmds) : Len(pipe[i]) + k \in Fresh(i) /\ pipe'[i][Len(pipe[i]) + k] = cmds[k]
    BY <1>1, SendPlaces
<1>3. \A k : k \in 1 .. Len(cmds) => cmds[k] = d
    BY <1>1
<1>4. 1 \in 1 .. Len(cmds)
    BY <1>1
<1>5. \E n \in Fresh(i) : pipe'[i][n] = d
    BY <1>1, <1>2, <1>4
<1> QED
    BY <1>2, <1>3, <1>5

LEMMA CalmSteps ==
    ASSUME TypeOK,
           \/ UNCHANGED vars
           \/ \E s \in Sockets : Connect(s) \/ Decide(s) \/ Timeout(s)
           \/ \E c \in Calls : Put(c) \/ ListMembers(c) \/ ListPrune(c)
           \/ \E u \in Users : Expire(u)
    PROVE  Calm
<1> USE DEF Ops, bounds, history, fetch, store, ops
<1>0. /\ owner \in [Ops -> Users] /\ at \in [Ops -> Instances]
      /\ pc \in [Ops -> {"new", "open", "counting", "closed", "checking"}]
      /\ found \in [Sockets -> SUBSET Sockets] /\ since \in [Sockets -> SUBSET Sockets]
      /\ waiting \in [Sockets -> SUBSET Instances]
    BY DEF TypeOK
<1>1. CASE UNCHANGED vars
    BY <1>1, SamePipes DEF Calm, vars
<1>2. ASSUME NEW s \in Sockets, Connect(s) PROVE Calm
    <2>1. Kept
        BY <1>0, <1>2, SendPlacesOfWrites DEF Connect
    <2> QED
        BY <1>0, <1>2, <2>1 DEF Calm, Connect, Goto
<1>3. ASSUME NEW s \in Sockets, Decide(s) PROVE Calm
    <2>1. Kept
        BY <1>0, <1>3, SamePipes, SendPlacesOfWrites DEF Decide
    <2> QED
        BY <1>0, <1>3, <2>1 DEF Calm, Decide, Settle, Goto
<1>4. ASSUME NEW s \in Sockets, Timeout(s) PROVE Calm
    BY <1>0, <1>4, SamePipes DEF Calm, Timeout, Settle, Goto
<1>5. ASSUME NEW c \in Calls, Put(c) PROVE Calm
    <2>1. Kept
        BY <1>0, <1>5, SendPlacesOfWrites DEF Put
    <2> QED
        BY <1>0, <1>5, <2>1, SetsAssumption DEF Calm, Put, Goto
<1>6. ASSUME NEW c \in Calls, ListMembers(c) PROVE Calm
    BY <1>0, <1>6, SamePipes, SetsAssumption DEF Calm, ListMembers, Goto
<1>7. ASSUME NEW c \in Calls, ListPrune(c) PROVE Calm
    <2> DEFINE w == [op |-> "srem", users |-> seen[c] \ keys]
    <2>1. at[c] \in Instances /\ w \in Command
        BY DEF TypeOK, Command, Write
    <2>2. pipe' = pipe \/ Send(at[c], <<w>>)
        BY <1>7 DEF ListPrune
    <2> HIDE DEF w
    <2>3. Kept
        BY <2>1, <2>2, SamePipes, SendPlaceOfOne
    <2> QED
        BY <1>0, <1>7, <2>3, SetsAssumption DEF Calm, ListPrune, Goto
<1>8. ASSUME NEW u \in Users, Expire(u) PROVE Calm
    BY <1>8, SamePipes DEF Calm, Expire
<1> QED
    BY <1>1, <1>2, <1>3, <1>4, <1>5, <1>6, <1>7, <1>8

LEMMA MailKept ==
    ASSUME Kept, UNCHANGED at, NEW s \in Sockets, at[s] \in Instances, NEW i \in Instances
    PROVE  (Asked(s) => Asked(s)') /\ (Replied(i, s) => Replied(i, s)')
    BY DEF Kept, Asked, Replied, IsAsk, IsReply

\* The head of a pipe is all that leaves it.
LEMMA MailDequeue ==
    ASSUME TypeOK, NEW j \in Instances, pipe[j] # <<>>, Dequeue(j), UNCHANGED at,
           NEW s \in Sockets, NEW i \in Instances
    PROVE  /\ Asked(s) => Asked(s)' \/ (j = at[s] /\ IsAsk(j, 1, s))
           /\ Replied(i, s) => Replied(i, s)' \/ (j = i /\ IsReply(j, 1, s))
<1>0. at[s] \in Instances
    BY DEF TypeOK, Ops
<1>1. ASSUME NEW k \in Instances, NEW n \in Places(k)
      PROVE  \/ k = j /\ n = 1
             \/ \E m \in Places(k)' : pipe'[k][m] = pipe[k][n]
    <2>1. CASE k # j
        BY <2>1, DequeuePlaces DEF Places
    <2>2. CASE k = j /\ n > 1
        BY <2>2, DequeuePlaces
    <2>3. CASE k = j /\ ~ (n > 1)
        BY <2>3 DEF Places
    <2> QED
        BY <2>1, <2>2, <2>3
<1>2. Asked(s) => Asked(s)' \/ (j = at[s] /\ IsAsk(j, 1, s))
    BY <1>0, <1>1 DEF Asked, IsAsk
<1>3. Replied(i, s) => Replied(i, s)' \/ (j = i /\ IsReply(j, 1, s))
    BY <1>1 DEF Replied, IsReply
<1> QED
    BY <1>2, <1>3

\* Faults and expirations are only counted up.
LEMMA NoFaultBefore ==
    ASSUME TypeOK, [Next]_vars
    PROVE  (faults' = 0 => faults = 0) /\ (expiries' = 0 => expiries = 0)
<1> USE DEF bounds
<1>0. faults \in Nat /\ expiries \in Nat
    BY DEF TypeOK
<1>1. CASE UNCHANGED vars
    BY <1>1 DEF vars
<1>2. ASSUME NEW s \in Sockets, Connect(s) \/ Disconnect(s) \/ Decide(s)
      PROVE  faults' = faults /\ expiries' = expiries
    BY <1>2 DEF Connect, Disconnect, Decide
<1>3. ASSUME NEW s \in Sockets, Timeout(s)
      PROVE  (faults' = faults \/ faults' = faults + 1) /\ expiries' = expiries
    BY <1>3 DEF Timeout, Fault
<1>4. ASSUME NEW i \in Instances, RunWrite(i) \/ RunAsk(i) \/ RunReply(i)
      PROVE  faults' = faults /\ expiries' = expiries
    BY <1>4 DEF RunWrite, RunAsk, RunReply
<1>5. ASSUME NEW i \in Instances, WriteFails(i) \/ Crash(i)
      PROVE  faults' = faults + 1 /\ expiries' = expiries
    BY <1>5 DEF WriteFails, Crash, Fault
<1>6. ASSUME NEW i \in Instances, NEW s \in Sockets, Answer(i, s)
      PROVE  faults' = faults /\ expiries' = expiries
    BY <1>6 DEF Answer
<1>7. ASSUME NEW c \in Calls, Put(c) \/ ListMembers(c) \/ ListPrune(c)
      PROVE  faults' = faults /\ expiries' = expiries
    BY <1>7 DEF Put, ListMembers, ListPrune
<1>8. ASSUME NEW u \in Users, Expire(u)
      PROVE  faults' = faults /\ expiries' = expiries + 1
    BY <1>8 DEF Expire
<1> QED
    BY <1>0, <1>1, <1>2, <1>3, <1>4, <1>5, <1>6, <1>7, <1>8 DEF Next

LEMMA NextDelivered == TypeOK /\ AskInv /\ Delivered /\ [Next]_vars => Delivered'
<1> SUFFICES ASSUME TypeOK, AskInv, Delivered, [Next]_vars, faults' = 0,
                    NEW s \in Sockets, pc'[s] = "counting", NEW i \in waiting'[s]
             PROVE  i \in asked'[s] \/ Asked(s)' \/ Replied(i, s)'
    BY DEF Delivered
<1>0. /\ at[s] \in Instances /\ i \in Instances /\ waiting \in [Sockets -> SUBSET Instances]
      /\ asked \in [Sockets -> SUBSET Instances] /\ faults \in Nat
      /\ pc \in [Ops -> {"new", "open", "counting", "closed", "checking"}]
    BY NextType DEF TypeOK, Ops
<1>1. pc[s] = "counting" /\ i \in waiting[s] /\ faults = 0 => i \in asked[s] \/ Asked(s) \/ Replied(i, s)
    BY DEF Delivered
<1>2. CASE Calm
    <2>1. faults = 0
        BY NoFaultBefore
    <2>2. pc[s] = "counting" /\ i \in waiting[s]
        BY <1>2 DEF Calm
    <2> QED
        BY <1>0, <1>1, <1>2, <2>1, <2>2, MailKept DEF Calm
<1>3. ASSUME NEW r \in Sockets, Disconnect(r) PROVE i \in asked'[s] \/ Asked(s)' \/ Replied(i, s)'
    <2> DEFINE ask == [op |-> "ask", socket |-> r]
    <2>1. ask \in Command /\ ask.op = "ask" /\ ask.socket = r
        BY DEF Command, Ask
    <2>2. at[r] \in Instances /\ Send(at[r], <<ask>>) /\ at' = at /\ asked' = asked /\ faults = 0
        BY <1>3 DEF TypeOK, Disconnect, Ops, ops, bounds
    <2> HIDE DEF ask
    <2>3. Kept /\ \E n \in Fresh(at[r]) : pipe'[at[r]][n] = ask
        BY <2>1, <2>2, SendPlaceOfOne
    <2>4. CASE s = r
        BY <2>1, <2>2, <2>3, <2>4 DEF Asked, IsAsk, Fresh
    <2>5. CASE s # r
        <3>1. pc[s] = "counting" /\ i \in waiting[s]
            BY <1>0, <1>3, <2>5 DEF Disconnect, Goto, Ops
        <3> QED
            BY <1>0, <1>1, <2>2, <2>3, <3>1, MailKept
    <2> QED
        BY <2>4, <2>5
<1>4. ASSUME NEW j \in Instances, RunWrite(j) PROVE i \in asked'[s] \/ Asked(s)' \/ Replied(i, s)'
    <2>1. /\ pipe[j] # <<>> /\ Dequeue(j) /\ UNCHANGED <<at, pc, waiting, asked, faults>>
          /\ Head(pipe[j]).op \in {"set", "sadd", "del", "srem"}
        BY <1>4 DEF RunWrite, HeadIs, ops, fetch, bounds
    <2>2. ~ IsAsk(j, 1, s) /\ ~ IsReply(j, 1, s)
        BY <2>1, DequeuePlaces DEF IsAsk, IsReply
    <2> QED
        BY <1>0, <1>1, <2>1, <2>2, MailDequeue
<1>5. ASSUME NEW j \in Instances, RunAsk(j) PROVE i \in asked'[s] \/ Asked(s)' \/ Replied(i, s)'
    <2> DEFINE r == Head(pipe[j]).socket
    <2>1. /\ pipe[j] # <<>> /\ Dequeue(j) /\ UNCHANGED <<at, pc, waiting, faults>>
          /\ Head(pipe[j]).op = "ask" /\ asked' = [asked EXCEPT ![r] = Others(j)]
        BY <1>5 DEF RunAsk, HeadIs, ops, bounds
    <2>2. r \in Sockets /\ at[r] = j
        BY <2>1, DequeuePending, HeadTypes DEF AskInv
    <2>3. pipe[j][1] = Head(pipe[j])
        BY <2>1, DequeuePlaces
    <2> HIDE DEF r
    <2>4. CASE s = r
        BY <1>0, <2>1, <2>2, <2>4 DEF AskInv
    <2>5. CASE s # r
        <3>1. ~ IsAsk(j, 1, s) /\ ~ IsReply(j, 1, s) /\ asked'[s] = asked[s]
            BY <1>0, <2>1, <2>3, <2>5 DEF IsAsk, IsReply, r
        <3> QED
            BY <1>0, <1>1, <2>1, <3>1, MailDequeue
    <2> QED
        BY <2>4, <2>5
<1>6. ASSUME NEW j \in Instances, NEW r \in Sockets, Answer(j, r)
      PROVE  i \in asked'[s] \/ Asked(s)' \/ Replied(i, s)'
    <2> DEFINE d == [op |-> "reply", socket |-> r, sockets |-> Local(j, owner[r])]
    <2>1. d \in Command /\ d.op = "reply" /\ d.socket = r /\ Send(j, <<d>>)
        BY <1>6, LocalTypes DEF Command, Reply, TypeOK, Ops, Answer
    <2> HIDE DEF d
    <2>2. Kept /\ \E n \in Fresh(j) : pipe'[j][n] = d
        BY <2>1, SendPlaceOfOne
    <2>3. UNCHANGED <<at, pc, waiting, faults>> /\ asked' = [asked EXCEPT ![r] = @ \ {j}]
        BY <1>6 DEF Answer, ops, bounds
    <2>4. CASE s = r /\ i = j
        BY <2>1, <2>2, <2>4 DEF Replied, IsReply, Fresh
    <2>5. CASE ~ (s = r /\ i = j)
        <3>1. i \in asked[s] => i \in asked'[s]
            BY <1>0, <2>3, <2>5
        <3> QED
            BY <1>0, <1>1, <2>2, <2>3, <3>1, MailKept
    <2> QED
        BY <2>4, <2>5
<1>7. ASSUME NEW j \in Instances, RunReply(j) PROVE i \in asked'[s] \/ Asked(s)' \/ Replied(i, s)'
    <2> DEFINE c == Head(pipe[j])
    <2>1. /\ pipe[j] # <<>> /\ Dequeue(j) /\ UNCHANGED <<at, pc, asked, faults>> /\ c.op = "reply"
        BY <1>7 DEF RunReply, HeadIs, ops, bounds
    <2>2. pipe[j][1] = c /\ ~ IsAsk(j, 1, s)
        BY <2>1, DequeuePlaces DEF IsAsk
    <2>3. c.socket \in Sockets
        BY <2>1, HeadTypes
    <2>4. \/ waiting' = waiting /\ pc[c.socket] # "counting"
          \/ waiting' = [waiting EXCEPT ![c.socket] = @ \ {j}]
        BY <1>7 DEF RunReply
    <2> HIDE DEF c
    <2>5. i \in waiting[s]
        BY <1>0, <2>3, <2>4
    <2>6. ~ (j = i /\ IsReply(j, 1, s))
        BY <1>0, <2>1, <2>2, <2>3, <2>4 DEF IsReply
    <2> QED
        BY <1>0, <1>1, <2>1, <2>2, <2>5, <2>6, MailDequeue
<1>8. \A j \in Instances : ~ WriteFails(j) /\ ~ Crash(j)
    BY <1>0 DEF WriteFails, Crash, Fault
<1> QED
    BY <1>2, <1>3, <1>4, <1>5, <1>6, <1>7, <1>8, CalmSteps DEF Next

\* Without a fault, fetchSockets does not time out.
LEMMA NoTimeout ==
    ASSUME TypeOK, Delivered, NEW s \in Sockets, Timeout(s)
    PROVE  faults' # 0
<1> SUFFICES ASSUME faults' = 0 PROVE FALSE
    OBVIOUS
<1>0. faults \in Nat /\ at[s] \in Instances /\ waiting[s] \in SUBSET Instances
    BY DEF TypeOK, Ops
<1>1. faults = 0 /\ pc[s] = "counting" /\ ReplyLost(s)
    BY <1>0 DEF Timeout, Fault
<1>2. PICK i \in waiting[s] :
        /\ i \notin asked[s]
        /\ \A j \in Instances : \A c \in Pending(j) : c.op \in {"ask", "reply"} => c.socket # s
    BY <1>1 DEF ReplyLost
<1>3. \A j \in Instances : \A n \in Places(j) : pipe[j][n] \in Pending(j)
    BY DEF Places, Pending
<1>4. ~ Asked(s) /\ ~ Replied(i, s)
    BY <1>0, <1>2, <1>3 DEF Asked, Replied, IsAsk, IsReply
<1> QED
    BY <1>1, <1>2, <1>4 DEF Delivered
----------------------------------------------------------------------------
\* A user without sockets is on the way out, step by step.

Leaves(u) == Off(u) \/ \E z \in Sockets : Removing(u, z)

LEMMA InitGone == Init => GoneInv
<1> SUFFICES ASSUME Init PROVE \A u : Off(u)
    BY DEF GoneInv
<1>1. \A i \in Instances : Places(i) = {}
    BY DEF Init, Places
<1> QED
    BY <1>1 DEF Init, Off, Undone

\* Nothing that a step appends puts u online, and no handler of u moves.
LEMMA LeavesAppends ==
    ASSUME TypeOK, Kept, NEW u, Leaves(u), UNCHANGED <<owner, at>>, keys' \subseteq keys, online' \subseteq online,
           \A z \in Sockets : owner[z] = u /\ pc[z] = "counting" =>
              pc'[z] = "counting" /\ found'[z] = found[z] /\ waiting'[z] = waiting[z],
           \A j \in Instances : \A n \in Fresh(j) :
              /\ ~ Puts(j, n, u)'
              /\ \A z \in Sockets : owner[z] = u /\ IsReply(j, n, z)' => pipe'[j][n].sockets = {}
    PROVE  Leaves(u)'
<1>1. CASE Off(u)
    BY <1>1, OffAppends DEF Leaves
<1>2. ASSUME NEW z \in Sockets, Removing(u, z) PROVE Leaves(u)'
    <2>1. owner[z] = u /\ pc[z] = "counting"
        BY <1>2 DEF Removing
    <2>2. Removing(u, z)'
        BY <1>2, <2>1, RemovingAppends
    <2> QED
        BY <2>2 DEF Leaves
<1> QED
    BY <1>1, <1>2 DEF Leaves

LEMMA LeavesStays ==
    ASSUME TypeOK, NEW u, Leaves(u), UNCHANGED <<owner, at, pc, found, waiting, pipe, online>>, keys' \subseteq keys
    PROVE  Leaves(u)'
    BY SamePipes, LeavesAppends

\* What each step that may append to the pipes of others appends to this one.
LEMMA LeavesOthers ==
    ASSUME TypeOK, NEW u \in Users, Leaves(u), u \notin manual',
           \/ \E s \in Sockets : owner[s] # u /\ (Connect(s) \/ Disconnect(s) \/ Decide(s))
           \/ \E c \in Calls : Put(c) \/ ListMembers(c) \/ ListPrune(c)
    PROVE  Leaves(u)'
<1> USE DEF Ops
<1>0. /\ owner \in [Ops -> Users] /\ at \in [Ops -> Instances]
      /\ pc \in [Ops -> {"new", "open", "counting", "closed", "checking"}]
      /\ found \in [Sockets -> SUBSET Sockets] /\ waiting \in [Sockets -> SUBSET Instances]
    BY DEF TypeOK
<1>1. ASSUME NEW s \in Sockets, owner[s] # u, Connect(s) PROVE Leaves(u)'
    <2>1. owner[s] \in Users /\ at[s] \in Instances /\ Send(at[s], SetOnline(owner[s]))
        BY <1>0, <1>1 DEF Connect
    <2>2. /\ Kept
          /\ \A j \in Instances : \A n \in Fresh(j) :
                pipe'[j][n].op \in {"set", "sadd"} /\ pipe'[j][n].users = {owner[s]}
        BY <2>1, SentOnline
    <2>3. \A j \in Instances : \A n \in Fresh(j) : ~ Puts(j, n, u)' /\ \A z : ~ IsReply(j, n, z)'
        BY <1>1, <2>2 DEF Puts, Is, IsReply
    <2>4. /\ UNCHANGED <<owner, at, keys, online>>
          /\ \A z \in Sockets : pc[z] = "counting" =>
                pc'[z] = "counting" /\ found'[z] = found[z] /\ waiting'[z] = waiting[z]
        BY <1>0, <1>1 DEF Connect, Goto, ops, store, fetch
    <2> QED
        BY <2>2, <2>3, <2>4, LeavesAppends
<1>2. ASSUME NEW s \in Sockets, owner[s] # u, Disconnect(s) PROVE Leaves(u)'
    <2> DEFINE ask == [op |-> "ask", socket |-> s]
    <2>1. ask \in Command /\ ask.op = "ask" /\ at[s] \in Instances /\ Send(at[s], <<ask>>)
        BY <1>0, <1>2 DEF Command, Ask, Disconnect
    <2> HIDE DEF ask
    <2>2. Kept /\ \A j \in Instances : \A n \in Fresh(j) : pipe'[j][n].op = "ask"
        BY <2>1, SendPlaceOfOne
    <2>3. \A j \in Instances : \A n \in Fresh(j) : ~ Puts(j, n, u)' /\ \A z : ~ IsReply(j, n, z)'
        BY <2>2 DEF Puts, Is, IsReply
    <2>4. /\ UNCHANGED <<owner, at, keys, online>>
          /\ \A z \in Sockets : owner[z] = u /\ pc[z] = "counting" =>
                pc'[z] = "counting" /\ found'[z] = found[z] /\ waiting'[z] = waiting[z]
        BY <1>0, <1>2 DEF Disconnect, Goto, ops, store, fetch
    <2> QED
        BY <2>2, <2>3, <2>4, LeavesAppends
<1>3. ASSUME NEW s \in Sockets, owner[s] # u, Decide(s) PROVE Leaves(u)'
    <2>1. owner[s] \in Users /\ at[s] \in Instances /\ (pipe' = pipe \/ Send(at[s], SetOffline(owner[s])))
        BY <1>0, <1>3 DEF Decide
    <2>2. Kept /\ \A j \in Instances : \A n \in Fresh(j) : pipe'[j][n].op \in {"del", "srem"}
        BY <2>1, SamePipes, SentOffline
    <2>3. \A j \in Instances : \A n \in Fresh(j) : ~ Puts(j, n, u)' /\ \A z : ~ IsReply(j, n, z)'
        BY <2>2 DEF Puts, Is, IsReply
    <2>4. /\ UNCHANGED <<owner, at, keys, online>>
          /\ \A z \in Sockets : owner[z] = u /\ pc[z] = "counting" =>
                pc'[z] = "counting" /\ found'[z] = found[z] /\ waiting'[z] = waiting[z]
        BY <1>0, <1>3 DEF Decide, Settle, Goto, ops, store, fetch
    <2> QED
        BY <2>2, <2>3, <2>4, LeavesAppends
<1>4. ASSUME NEW c \in Calls, Put(c) PROVE Leaves(u)'
    <2>1. /\ owner[c] \in Users \ {u} /\ at[c] \in Instances
          /\ (Send(at[c], SetOnline(owner[c])) \/ Send(at[c], SetOffline(owner[c])))
        BY <1>0, <1>4 DEF Put
    <2>2. /\ Kept
          /\ \A j \in Instances : \A n \in Fresh(j) :
                pipe'[j][n].op \in {"set", "sadd", "del", "srem"} /\ pipe'[j][n].users = {owner[c]}
        BY <2>1, SentOnline, SentOffline
    <2>3. \A j \in Instances : \A n \in Fresh(j) : ~ Puts(j, n, u)' /\ \A z : ~ IsReply(j, n, z)'
        BY <2>1, <2>2 DEF Puts, Is, IsReply
    <2>4. /\ UNCHANGED <<owner, at, keys, online>>
          /\ \A z \in Sockets : pc[z] = "counting" =>
                pc'[z] = "counting" /\ found'[z] = found[z] /\ waiting'[z] = waiting[z]
        BY <1>0, <1>4, SetsAssumption DEF Put, Goto, ops, store, fetch
    <2> QED
        BY <2>2, <2>3, <2>4, LeavesAppends
<1>5. ASSUME NEW c \in Calls, ListMembers(c) \/ ListPrune(c) PROVE Leaves(u)'
    <2> DEFINE w == [op |-> "srem", users |-> seen[c] \ keys]
    <2>1. at[c] \in Instances /\ w \in Command /\ w.op = "srem"
        BY DEF TypeOK, Command, Write
    <2>2. pipe' = pipe \/ Send(at[c], <<w>>)
        BY <1>5 DEF ListMembers, ListPrune
    <2> HIDE DEF w
    <2>3. Kept /\ \A j \in Instances : \A n \in Fresh(j) : pipe'[j][n].op = "srem"
        BY <2>1, <2>2, SamePipes, SendPlaceOfOne
    <2>4. \A j \in Instances : \A n \in Fresh(j) : ~ Puts(j, n, u)' /\ \A z : ~ IsReply(j, n, z)'
        BY <2>3 DEF Puts, Is, IsReply
    <2>5. /\ UNCHANGED <<owner, at, keys, online>>
          /\ \A z \in Sockets : pc[z] = "counting" =>
                pc'[z] = "counting" /\ found'[z] = found[z] /\ waiting'[z] = waiting[z]
        BY <1>0, <1>5, SetsAssumption DEF ListMembers, ListPrune, Goto, ops, store, fetch
    <2> QED
        BY <2>3, <2>4, <2>5, LeavesAppends
<1> QED
    BY <1>1, <1>2, <1>3, <1>4, <1>5

\* The reply of an instance without sockets of u names none.
LEMMA LeavesAnswer ==
    ASSUME TypeOK, NEW u \in Users, Leaves(u), Room(u) = {},
           NEW i \in Instances, NEW s \in Sockets, Answer(i, s)
    PROVE  Leaves(u)'
<1> DEFINE d == [op |-> "reply", socket |-> s, sockets |-> Local(i, owner[s])]
<1>1. d \in Command /\ d.op = "reply" /\ d.socket = s /\ d.sockets = Local(i, owner[s]) /\ Send(i, <<d>>)
    BY LocalTypes DEF Command, Reply, TypeOK, Ops, Answer
<1> HIDE DEF d
<1>2. Kept /\ \A j \in Instances : \A n \in Fresh(j) : pipe'[j][n] = d
    BY <1>1, SendPlaceOfOne
<1>3. owner[s] = u => d.sockets = {}
    BY <1>1 DEF Local
<1>4. ASSUME NEW j \in Instances, NEW n \in Fresh(j)
      PROVE  /\ ~ Puts(j, n, u)'
             /\ \A z \in Sockets : owner[z] = u /\ IsReply(j, n, z)' => pipe'[j][n].sockets = {}
    BY <1>1, <1>2, <1>3 DEF Puts, Is, IsReply
<1>5. UNCHANGED <<owner, at, pc, found, waiting, keys, online>>
    BY DEF Answer, ops, store
<1> QED
    BY <1>2, <1>4, <1>5, LeavesAppends

\* The last socket of u leaves: it waits for every other instance.
LEMMA LeavesLast ==
    ASSUME TypeOK, CountInv, NEW s \in Sockets, Disconnect(s), Room(owner[s])' = {}
    PROVE  Removing(owner[s], s)'
<1> USE DEF Ops
<1>0. /\ owner \in [Ops -> Users] /\ at \in [Ops -> Instances]
      /\ pc \in [Ops -> {"new", "open", "counting", "closed", "checking"}]
      /\ found \in [Sockets -> SUBSET Sockets] /\ waiting \in [Sockets -> SUBSET Instances]
    BY DEF TypeOK
<1> DEFINE ask == [op |-> "ask", socket |-> s]
<1>1. ask \in Command /\ ask.op = "ask" /\ at[s] \in Instances /\ Send(at[s], <<ask>>)
    BY <1>0 DEF Command, Ask, Disconnect
<1> HIDE DEF ask
<1>2. /\ pc[s] = "open" /\ pc'[s] = "counting" /\ UNCHANGED <<owner, at>>
      /\ \A t \in Sockets \ {s} : pc'[t] = pc[t]
      /\ found'[s] = Local(at[s], owner[s]) /\ waiting'[s] = Others(at[s])
    BY <1>0 DEF Disconnect, Goto, Snapshot, ops
<1>3. Room(owner[s]) = {s}
    BY <1>2 DEF Room
<1>4. found'[s] = {s}
    BY <1>2, <1>3 DEF Local
<1>5. ASSUME NEW i \in Instances, NEW n \in Places(i)' PROVE ~ IsReply(i, n, s)'
    <2>1. pipe'[i][n] \in Pending(i)'
        BY DEF Places, Pending
    <2>2. pipe'[i][n] \in Pending(i) \/ pipe'[i][n] = ask
        BY <1>1, <2>1, SendOne
    <2> QED
        BY <1>1, <1>2, <2>2 DEF CountInv, MailInv, IsReply
<1> QED
    BY <1>2, <1>4, <1>5 DEF Removing, Others

\* The places that setOffline takes are behind all others of its pipe.
LEMMA OfflineSent ==
    ASSUME TypeOK, NEW i \in Instances, NEW u \in Users, Send(i, SetOffline(u))
    PROVE  /\ \E d \in Places(i)' : Is(i, d, "del", u)' /\ \A m \in Places(i) : m < d
           /\ \E r \in Places(i)' : Is(i, r, "srem", u)' /\ \A m \in Places(i) : m < r
<1>1. \E l \in Nat :
        /\ l + 1 \in Fresh(i) /\ l + 2 \in Fresh(i)
        /\ \A j \in Instances : \A n \in Fresh(j) :
             /\ j = i /\ n \in {l + 1, l + 2} /\ \A m \in Places(j) : m < n
             /\ pipe'[j][n] = [op |-> IF n = l + 1 THEN "del" ELSE "srem", users |-> {u}]
    BY SendPlacesOfWrites
<1>2. PICK l \in Nat :
        /\ l + 1 \in Fresh(i) /\ l + 2 \in Fresh(i)
        /\ \A n \in Fresh(i) :
             /\ \A m \in Places(i) : m < n
             /\ pipe'[i][n] = [op |-> IF n = l + 1 THEN "del" ELSE "srem", users |-> {u}]
    BY <1>1
<1>3. l + 2 # l + 1
    OBVIOUS
<1>4. /\ pipe'[i][l + 1] = [op |-> "del", users |-> {u}] /\ l + 1 \in Places(i)'
      /\ pipe'[i][l + 2] = [op |-> "srem", users |-> {u}] /\ l + 2 \in Places(i)'
      /\ \A m \in Places(i) : m < l + 1 /\ m < l + 2
    BY <1>2, <1>3 DEF Fresh
<1> QED
    BY <1>4 DEF Is

\* It finds itself the last, and its setOffline comes after every write of u.
LEMMA LeavesDecide ==
    ASSUME TypeOK, NEW s \in Sockets, NEW u \in Users, NEW i \in Instances, owner[s] = u, at[s] = i,
           Decide(s), Leaves(u)
    PROVE  Leaves(u)'
<1> USE DEF Ops
<1>0. /\ owner \in [Ops -> Users] /\ at \in [Ops -> Instances]
      /\ pc \in [Ops -> {"new", "open", "counting", "closed", "checking"}]
      /\ found \in [Sockets -> SUBSET Sockets] /\ waiting \in [Sockets -> SUBSET Instances]
    BY DEF TypeOK
<1>1. /\ UNCHANGED <<owner, at, keys, online>>
      /\ waiting[s] = {}
      /\ \A z \in Sockets \ {s} : pc'[z] = pc[z] /\ found'[z] = found[z] /\ waiting'[z] = waiting[z]
      /\ pipe' = pipe \/ Send(i, SetOffline(u))
    BY <1>0 DEF Decide, Settle, Goto, ops, store
<1>2. Kept /\ \A j \in Instances : \A n \in Fresh(j) : pipe'[j][n].op \in {"del", "srem"}
    BY <1>1, SamePipes, SentOffline
<1>3. \A j \in Instances : \A n \in Fresh(j) : ~ Puts(j, n, u)' /\ \A z : ~ IsReply(j, n, z)'
    BY <1>2 DEF Puts, Is, IsReply
<1>4. CASE Off(u)
    <2>1. Off(u)'
        BY <1>1, <1>2, <1>3, <1>4, OffAppends
    <2> QED
        BY <1>1, <2>1 DEF Leaves
<1>5. ASSUME NEW z \in Sockets \ {s}, Removing(u, z) PROVE Leaves(u)'
    <2>1. pc'[z] = "counting" /\ found'[z] = found[z] /\ waiting'[z] = waiting[z]
        BY <1>1, <1>5 DEF Removing
    <2>2. Removing(u, z)'
        BY <1>1, <1>2, <1>3, <1>5, <2>1, RemovingAppends
    <2> QED
        BY <1>1, <2>2 DEF Leaves
<1>6. CASE Removing(u, s)
    <2>1. found[s] = {s} /\ \A j \in Instances \ {i} : \A n \in Places(j) : ~ Puts(j, n, u)
        BY <1>1, <1>6 DEF Removing
    <2>2. Send(i, SetOffline(u))
        <3>1. Cardinality({s}) = 1
            BY FS_Singleton
        <3> QED
            BY <2>1, <3>1 DEF Decide, IsLast
    <2>3. PICK d \in Places(i)' : Is(i, d, "del", u)' /\ \A m \in Places(i) : m < d
        BY <2>2, OfflineSent
    <2>4. PICK r \in Places(i)' : Is(i, r, "srem", u)' /\ \A m \in Places(i) : m < r
        BY <2>2, OfflineSent
    <2>5. ASSUME NEW j \in Instances, NEW n \in Places(j)', Puts(j, n, u)'
          PROVE  j = i /\ n \in Places(i)
        <3>1. n \in Places(j) /\ Puts(j, n, u)
            BY <1>2, <1>3, <2>5 DEF Fresh, Kept, Puts, Is
        <3> QED
            BY <2>1, <3>1
    <2>6. Undone("set", "del", u)'
        BY <2>3, <2>5 DEF Undone, Puts
    <2>7. Undone("sadd", "srem", u)'
        BY <2>4, <2>5 DEF Undone, Puts
    <2>8. OnItsWay("del", u)' /\ OnItsWay("srem", u)'
        BY <2>3, <2>4 DEF OnItsWay
    <2> QED
        BY <2>6, <2>7, <2>8 DEF Off, Leaves
<1> QED
    BY <1>4, <1>5, <1>6 DEF Leaves

\* Redis runs the head of a pipe.
LEMMA LeavesDequeues ==
    ASSUME TypeOK, NEW u, Leaves(u), NEW i \in Instances, RunWrite(i) \/ RunAsk(i) \/ RunReply(i)
    PROVE  Leaves(u)'
<1> DEFINE c == Head(pipe[i])
<1>1. pipe[i] # <<>> /\ Dequeue(i) /\ UNCHANGED <<owner, at, pc>> /\ pipe[i][1] = c
    BY DequeuePlaces DEF RunWrite, RunAsk, RunReply, HeadIs, ops
<1>2. /\ u \in keys' => (u \in keys /\ ~ Is(i, 1, "del", u)) \/ Is(i, 1, "set", u)
      /\ u \in online' => (u \in online /\ ~ Is(i, 1, "srem", u)) \/ Is(i, 1, "sadd", u)
    <2>1. CASE RunWrite(i)
        BY <1>1, <2>1 DEF RunWrite, Is
    <2>2. CASE RunAsk(i) \/ RunReply(i)
        BY <1>1, <2>2 DEF RunAsk, RunReply, HeadIs, Is, store
    <2> QED
        BY <2>1, <2>2
<1>3. CASE Off(u)
    BY <1>1, <1>2, <1>3, OffDequeues DEF Leaves
<1>4. ASSUME NEW z \in Sockets, Removing(u, z) PROVE Leaves(u)'
    <2>1. pc'[z] = "counting" /\ found[z] = {z}
        BY <1>1, <1>4 DEF Removing
    <2>2. found'[z] = {z} /\ \A j \in Instances : j \in waiting[z] => j \in waiting'[z] \/ (j = i /\ IsReply(i, 1, z))
        <3>1. CASE RunWrite(i) \/ RunAsk(i)
            BY <2>1, <3>1 DEF RunWrite, RunAsk, fetch
        <3>2. CASE RunReply(i) /\ pc[c.socket] # "counting"
            BY <2>1, <3>2 DEF RunReply
        <3>3. CASE RunReply(i) /\ pc[c.socket] = "counting"
            <4>1. /\ c.op = "reply" /\ c.socket \in Sockets
                  /\ found' = [found EXCEPT ![c.socket] = @ \cup c.sockets]
                  /\ waiting' = [waiting EXCEPT ![c.socket] = @ \ {i}]
                BY <1>1, <3>3, HeadTypes DEF RunReply, HeadIs
            <4>2. c.socket = z => IsReply(i, 1, z) /\ c.sockets = {}
                BY <1>1, <1>4, <4>1, DequeuePlaces DEF Removing, IsReply
            <4>3. found \in [Sockets -> SUBSET Sockets] /\ waiting \in [Sockets -> SUBSET Instances]
                BY DEF TypeOK
            <4> HIDE DEF c
            <4> QED
                BY <2>1, <4>1, <4>2, <4>3
        <3> QED
            BY <3>1, <3>2, <3>3
    <2>3. Removing(u, z)'
        BY <1>1, <1>4, <2>1, <2>2, RemovingDequeues
    <2> QED
        BY <2>3 DEF Leaves
<1> QED
    BY <1>3, <1>4 DEF Leaves

LEMMA NextGone == TypeOK /\ CountInv /\ Delivered /\ GoneInv /\ [Next]_vars => GoneInv'
<1> SUFFICES ASSUME TypeOK, CountInv, Delivered, GoneInv, [Next]_vars, faults' = 0,
                    NEW u \in Users, u \notin manual', Room(u)' = {}
             PROVE  Leaves(u)'
    BY DEF GoneInv, Leaves
<1> USE DEF Ops
<1>0. /\ owner \in [Ops -> Users] /\ at \in [Ops -> Instances] /\ faults \in Nat
      /\ pc \in [Ops -> {"new", "open", "counting", "closed", "checking"}]
    BY DEF TypeOK
<1>1. faults = 0
    BY NoFaultBefore
<1>2. u \notin manual /\ Room(u) = {} => Leaves(u)
    BY <1>1 DEF GoneInv, Leaves
<1>3. CASE UNCHANGED vars
    BY <1>2, <1>3, LeavesStays DEF vars, history, Room, ops, fetch, store
<1>4. ASSUME NEW s \in Sockets, Connect(s) PROVE Leaves(u)'
    <2>1. pc'[s] = "open" /\ owner' = owner /\ \A t \in Sockets \ {s} : pc'[t] = pc[t]
        BY <1>0, <1>4 DEF Connect, Goto, ops
    <2>2. owner[s] # u
        BY <2>1 DEF Room
    <2>3. Room(u) = {}
        BY <2>1, <2>2 DEF Room
    <2>4. u \notin manual
        BY <1>4, <2>2 DEF Connect
    <2> QED
        BY <1>2, <1>4, <2>2, <2>3, <2>4, LeavesOthers
<1>5. ASSUME NEW s \in Sockets, Disconnect(s) PROVE Leaves(u)'
    <2>1. /\ UNCHANGED <<owner, manual>> /\ \A t \in Sockets \ {s} : pc'[t] = pc[t]
        BY <1>0, <1>5 DEF Disconnect, Goto, ops, history
    <2>2. CASE owner[s] = u
        BY <1>5, <2>1, <2>2, LeavesLast DEF Leaves
    <2>3. CASE owner[s] # u
        <3>1. Room(u) = {}
            BY <2>1, <2>3 DEF Room
        <3> QED
            BY <1>2, <1>5, <2>1, <2>3, <3>1, LeavesOthers
    <2> QED
        BY <2>2, <2>3
<1>6. ASSUME NEW s \in Sockets, Decide(s) PROVE Leaves(u)'
    <2>1. /\ UNCHANGED <<owner, manual>> /\ pc[s] = "counting" /\ \A t \in Sockets \ {s} : pc'[t] = pc[t]
        BY <1>0, <1>6 DEF Decide, Settle, Goto, ops, history
    <2>2. Room(u) = {}
        BY <2>1 DEF Room
    <2> QED
        BY <1>0, <1>2, <1>6, <2>1, <2>2, LeavesOthers, LeavesDecide
<1>7. \A s \in Sockets : ~ Timeout(s)
    BY NoTimeout
<1>8. ASSUME NEW i \in Instances, RunWrite(i) \/ RunAsk(i) \/ RunReply(i) PROVE Leaves(u)'
    <2>1. UNCHANGED <<owner, pc, manual>>
        BY <1>8 DEF RunWrite, RunAsk, RunReply, ops, history
    <2> QED
        BY <1>2, <1>8, <2>1, LeavesDequeues DEF Room
<1>9. \A j \in Instances : ~ WriteFails(j) /\ ~ Crash(j)
    BY <1>0 DEF WriteFails, Crash, Fault
<1>10. ASSUME NEW i \in Instances, NEW s \in Sockets, Answer(i, s) PROVE Leaves(u)'
    <2>1. UNCHANGED <<owner, pc, manual>>
        BY <1>10 DEF Answer, ops, history
    <2> QED
        BY <1>2, <1>10, <2>1, LeavesAnswer DEF Room
<1>11. ASSUME NEW c \in Calls, Put(c) \/ ListMembers(c) \/ ListPrune(c) PROVE Leaves(u)'
    <2>1. owner' = owner /\ manual \subseteq manual' /\ \A t \in Sockets : pc'[t] = pc[t]
        BY <1>0, <1>11, SetsAssumption DEF Put, ListMembers, ListPrune, Goto, ops, history
    <2>2. Room(u) = {} /\ u \notin manual
        BY <2>1 DEF Room
    <2> QED
        BY <1>2, <1>11, <2>2, LeavesOthers
<1>12. ASSUME NEW v \in Users, Expire(v) PROVE Leaves(u)'
    <2>1. UNCHANGED <<owner, at, pc, found, waiting, pipe, online, manual>> /\ keys' \subseteq keys
        BY <1>12 DEF Expire, ops, fetch, history
    <2> QED
        BY <1>2, <2>1, LeavesStays DEF Room
<1> QED
    BY <1>3, <1>4, <1>5, <1>6, <1>7, <1>8, <1>9, <1>10, <1>11, <1>12 DEF Next

GoneAll == CountInv /\ AskInv /\ Delivered /\ GoneInv

LEMMA GoneAllHolds == Spec => []GoneAll
<1>1. Init => GoneAll
    BY InitCount, InitDelivered, InitGone DEF GoneAll
<1>2. TypeOK /\ GoneAll /\ [Next]_vars => GoneAll'
    BY NextCount, NextAsk, NextDelivered, NextGone DEF GoneAll
<1> QED
    BY <1>1, <1>2, TypeCorrect, PTL DEF Spec

\* Whoever has left is offline, in the key and in the set, once nothing about them is
\* on its way: one of the sockets that disconnect together on different instances finds
\* itself the last, and Redis runs its setOffline after every setOnline of the user.
THEOREM GoneAreOfflineHolds == Spec => []GoneAreOffline
<1>1. TypeOK /\ GoneAll => GoneAreOffline
    <2> SUFFICES ASSUME TypeOK, GoneInv, NEW u \in Users, AtRest(u), Room(u) = {}, u \notin manual, faults = 0
                 PROVE  u \notin keys \cup online
        BY DEF GoneAreOffline, GoneAll
    <2>1. \A z \in Sockets : ~ Removing(u, z)
        BY DEF AtRest, Leaving, Removing
    <2>2. Off(u)
        BY <2>1 DEF GoneInv
    <2>3. ~ OnItsWay("del", u) /\ ~ OnItsWay("srem", u)
        BY DEF AtRest, Leaving, OnItsWay, Is, Places, Pending
    <2> QED
        BY <2>2, <2>3 DEF Off
<1> QED
    BY <1>1, TypeCorrect, GoneAllHolds, PTL

----------------------------------------------------------------------------
\* A connected user is online.  What is still to run only puts them online, the key
\* before the set; no handler that counts can miss a socket of theirs.

\* Every handler of u that counts has all open sockets of u to count.
Counted(u) == \A s \in Sockets : owner[s] = u /\ pc[s] = "counting" => Room(u) \subseteq since[s]

\* No list found u in the set without finding the key.
Listed(u) == \A l \in Calls : pc[l] = "checking" /\ u \in seen[l] => u \in keys

On(u) ==
    /\ Counted(u) /\ Listed(u)
    /\ ~ OnItsWay("del", u) /\ ~ OnItsWay("srem", u)
    /\ u \in keys \/ OnItsWay("set", u)
    /\ u \in online \/ OnItsWay("sadd", u)
    /\ u \in online => u \in keys
    /\ \A i \in Instances : \A n \in Places(i) : Is(i, n, "sadd", u) =>
         u \in keys \/ \E m \in Places(i) : m < n /\ Is(i, m, "set", u)

OnlineInv ==
    \A u \in Users : faults = 0 /\ expiries = 0 /\ u \notin manual \cup raced /\ Room(u) # {} => On(u)

LEMMA InitOnline == Init => OnlineInv
    BY DEF Init, OnlineInv, Room, Ops

LEMMA OnAppends ==
    ASSUME TypeOK, Kept, NEW u, On(u), UNCHANGED <<keys, online>>, Counted(u)', Listed(u)',
           \A j \in Instances : \A n \in Fresh(j) :
              /\ ~ Is(j, n, "del", u)' /\ ~ Is(j, n, "srem", u)'
              /\ Is(j, n, "sadd", u)' => \E m \in Places(j)' : m < n /\ Is(j, m, "set", u)'
    PROVE  On(u)'
<1>1. ASSUME NEW j \in Instances, NEW n \in Places(j)'
      PROVE  n \in Fresh(j) \/ (n \in Places(j) /\ pipe'[j][n] = pipe[j][n])
    BY DEF Fresh, Kept
<1>2. ~ OnItsWay("del", u)' /\ ~ OnItsWay("srem", u)'
    BY <1>1 DEF On, OnItsWay, Is
<1>3. (u \in keys \/ OnItsWay("set", u))' /\ (u \in online \/ OnItsWay("sadd", u))'
    BY OnItsWayKept DEF On
<1>4. ASSUME NEW j \in Instances, NEW n \in Places(j)', Is(j, n, "sadd", u)', u \notin keys
      PROVE  \E m \in Places(j)' : m < n /\ Is(j, m, "set", u)'
    <2>1. CASE n \in Places(j) /\ pipe'[j][n] = pipe[j][n]
        <3>1. PICK m \in Places(j) : m < n /\ Is(j, m, "set", u)
            BY <1>4, <2>1 DEF On, Is
        <3> QED
            BY <3>1 DEF Kept, Is
    <2> QED
        BY <1>1, <1>4, <2>1
<1> QED
    BY <1>2, <1>3, <1>4 DEF On

LEMMA OnDequeues ==
    ASSUME TypeOK, NEW i \in Instances, pipe[i] # <<>>, Dequeue(i), NEW u, On(u), Counted(u)',
           UNCHANGED <<pc, seen>>,
           u \in keys \/ Is(i, 1, "set", u) => u \in keys',
           u \in online \/ Is(i, 1, "sadd", u) <=> u \in online'
    PROVE  On(u)'
<1>0. \A j \in Instances : Places(j) \subseteq Nat \ {0} /\ Places(j)' \subseteq Nat \ {0}
    BY DEF Places
<1>1. ASSUME NEW j \in Instances, NEW n \in Places(j)'
      PROVE  \E k \in Places(j) : pipe'[j][n] = pipe[j][k] /\ k = IF j = i THEN n + 1 ELSE n
    BY DequeuePlaces DEF Places
<1>2. ASSUME NEW j \in Instances, NEW n \in Places(j), ~ (j = i /\ n = 1)
      PROVE  \E m \in Places(j)' : pipe'[j][m] = pipe[j][n] /\ m = IF j = i THEN n - 1 ELSE n
    BY <1>2, DequeuePlaces DEF Places
<1>3. ~ OnItsWay("del", u)' /\ ~ OnItsWay("srem", u)'
    BY <1>1 DEF On, OnItsWay, Is
<1>4. ASSUME NEW op, OnItsWay(op, u), ~ Is(i, 1, op, u) PROVE OnItsWay(op, u)'
    <2>1. PICK j \in Instances : \E n \in Places(j) : Is(j, n, op, u)
        BY <1>4 DEF OnItsWay
    <2>2. PICK n \in Places(j) : Is(j, n, op, u)
        BY <2>1
    <2>3. PICK m \in Places(j)' : pipe'[j][m] = pipe[j][n]
        BY <1>2, <1>4, <2>2
    <2> QED
        BY <2>2, <2>3 DEF OnItsWay, Is
<1>5. (u \in keys \/ OnItsWay("set", u))' /\ (u \in online \/ OnItsWay("sadd", u))'
    BY <1>4 DEF On
<1>6. ASSUME NEW j \in Instances, NEW n \in Places(j), Is(j, n, "sadd", u), u \notin keys'
      PROVE  \E m \in Places(j) : m < n /\ Is(j, m, "set", u) /\ ~ (j = i /\ m = 1)
    BY <1>6 DEF On
<1>7. (u \in online => u \in keys)'
    <2>1. 1 \in Places(i)
        BY DequeuePlaces
    <2>2. Is(i, 1, "sadd", u) => u \in keys'
        BY <1>0, <1>6, <2>1
    <2> QED
        BY <2>2 DEF On
<1>8. ASSUME NEW j \in Instances, NEW n \in Places(j)', Is(j, n, "sadd", u)', u \notin keys'
      PROVE  \E m \in Places(j)' : m < n /\ Is(j, m, "set", u)'
    <2>1. PICK k \in Places(j) : pipe'[j][n] = pipe[j][k] /\ k = IF j = i THEN n + 1 ELSE n
        BY <1>1
    <2>2. PICK l \in Places(j) : l < k /\ Is(j, l, "set", u) /\ ~ (j = i /\ l = 1)
        BY <1>6, <1>8, <2>1 DEF Is
    <2>3. PICK m \in Places(j)' : pipe'[j][m] = pipe[j][l] /\ m = IF j = i THEN l - 1 ELSE l
        BY <1>2, <2>2
    <2>4. m < n
        BY <1>0, <2>1, <2>2, <2>3
    <2> QED
        BY <2>2, <2>3, <2>4 DEF Is
<1>9. Listed(u)'
    BY DEF On, Listed
<1> QED
    BY <1>3, <1>5, <1>7, <1>8, <1>9 DEF On

\* The places that setOnline takes: the key first.
LEMMA OnlineSent ==
    ASSUME TypeOK, NEW i \in Instances, NEW u \in Users, Send(i, SetOnline(u))
    PROVE  /\ Kept /\ OnItsWay("set", u)' /\ OnItsWay("sadd", u)'
           /\ \A j \in Instances : \A n \in Fresh(j) :
                /\ ~ Is(j, n, "del", u)' /\ ~ Is(j, n, "srem", u)'
                /\ Is(j, n, "sadd", u)' => \E m \in Places(j)' : m < n /\ Is(j, m, "set", u)'
<1>1. /\ Kept
      /\ \E l \in Nat :
            /\ l + 1 \in Fresh(i) /\ l + 2 \in Fresh(i)
            /\ \A j \in Instances : \A n \in Fresh(j) :
                 /\ j = i /\ n \in {l + 1, l + 2} /\ \A m \in Places(j) : m < n
                 /\ pipe'[j][n] = [op |-> IF n = l + 1 THEN "set" ELSE "sadd", users |-> {u}]
    BY SendPlacesOfWrites
<1>2. PICK l \in Nat :
            /\ l + 1 \in Fresh(i) /\ l + 2 \in Fresh(i)
            /\ \A j \in Instances : \A n \in Fresh(j) :
                 /\ j = i /\ n \in {l + 1, l + 2}
                 /\ pipe'[j][n] = [op |-> IF n = l + 1 THEN "set" ELSE "sadd", users |-> {u}]
    BY <1>1
<1>3. l + 2 # l + 1 /\ l + 1 < l + 2
    OBVIOUS
<1>4. /\ pipe'[i][l + 1] = [op |-> "set", users |-> {u}]
      /\ pipe'[i][l + 2] = [op |-> "sadd", users |-> {u}]
      /\ l + 1 \in Places(i)' /\ l + 2 \in Places(i)'
    BY <1>2, <1>3 DEF Fresh
<1>5. Is(i, l + 1, "set", u)' /\ Is(i, l + 2, "sadd", u)' /\ ~ Is(i, l + 1, "sadd", u)'
    BY <1>4 DEF Is
<1>6. OnItsWay("set", u)' /\ OnItsWay("sadd", u)'
    BY <1>4, <1>5 DEF OnItsWay
<1>7. ASSUME NEW j \in Instances, NEW n \in Fresh(j)
      PROVE  /\ ~ Is(j, n, "del", u)' /\ ~ Is(j, n, "srem", u)'
             /\ Is(j, n, "sadd", u)' => \E m \in Places(j)' : m < n /\ Is(j, m, "set", u)'
    <2>1. j = i /\ (n = l + 1 \/ n = l + 2)
        BY <1>2
    <2> QED
        BY <1>3, <1>4, <1>5, <2>1 DEF Is
<1> QED
    BY <1>1, <1>6, <1>7

\* A user of whom nothing is left, or whose presence is at rest, connects.
LEMMA OnStarts ==
    ASSUME TypeOK, NEW s \in Sockets, Connect(s), NEW u \in Users, owner[s] = u,
           AtRest(u), u \in keys <=> u \in online
    PROVE  On(u)'
<1> USE DEF Ops
<1>0. /\ owner \in [Ops -> Users] /\ at \in [Ops -> Instances]
      /\ pc \in [Ops -> {"new", "open", "counting", "closed", "checking"}]
    BY DEF TypeOK
<1>1. at[s] \in Instances /\ Send(at[s], SetOnline(u)) /\ UNCHANGED <<owner, seen, since, keys, online>>
    BY <1>0 DEF Connect, ops, fetch, store
<1>2. /\ Kept /\ OnItsWay("set", u)' /\ OnItsWay("sadd", u)'
      /\ \A j \in Instances : \A n \in Fresh(j) :
            /\ ~ Is(j, n, "del", u)' /\ ~ Is(j, n, "srem", u)'
            /\ Is(j, n, "sadd", u)' => \E m \in Places(j)' : m < n /\ Is(j, m, "set", u)'
    BY <1>1, OnlineSent
<1>3. ASSUME NEW j \in Instances, NEW n \in Places(j)', n \notin Fresh(j)
      PROVE  ~ Is(j, n, "del", u)' /\ ~ Is(j, n, "srem", u)' /\ ~ Is(j, n, "sadd", u)'
    <2>1. n \in Places(j) /\ pipe'[j][n] = pipe[j][n] /\ pipe[j][n] \in Pending(j)
        BY <1>2, <1>3 DEF Fresh, Kept, Places, Pending
    <2> QED
        BY <2>1 DEF AtRest, Leaving, Is
<1>4. ~ OnItsWay("del", u)' /\ ~ OnItsWay("srem", u)'
    BY <1>2, <1>3 DEF OnItsWay
<1>5. Counted(u)' /\ Listed(u)'
    <2>1. \A o \in Ops : pc'[o] \in {"counting", "checking"} => pc[o] = pc'[o]
        BY <1>0 DEF Connect, Goto
    <2> QED
        BY <1>1, <2>1 DEF Counted, Listed, AtRest, Leaving
<1> QED
    BY <1>1, <1>2, <1>3, <1>4, <1>5 DEF On

\* The steps that write nothing about u.
LEMMA OnOthers ==
    ASSUME TypeOK, NEW u, On(u), UNCHANGED <<keys, online>>, Counted(u)', Listed(u)', Kept,
           \A j \in Instances : \A n \in Fresh(j) :
              pipe'[j][n].op \notin {"ask", "reply"} => u \notin pipe'[j][n].users
    PROVE  On(u)'
<1>1. ASSUME NEW j \in Instances, NEW n \in Fresh(j), NEW op \in {"del", "srem", "sadd"}
      PROVE  ~ Is(j, n, op, u)'
    BY DEF Is
<1> QED
    BY <1>1, OnAppends

LEMMA OnlineSockets ==
    ASSUME TypeOK, CountInv, NEW u \in Users, On(u), Room(u) # {}, NEW s \in Sockets,
           \/ Connect(s) /\ (owner[s] = u => ~ Leaving(u))
           \/ Disconnect(s) \/ Decide(s)
    PROVE  On(u)'
<1> USE DEF Ops
<1>0. /\ owner \in [Ops -> Users] /\ at \in [Ops -> Instances]
      /\ pc \in [Ops -> {"new", "open", "counting", "closed", "checking"}]
      /\ since \in [Sockets -> SUBSET Sockets]
    BY DEF TypeOK
<1>1. /\ owner[s] \in Users /\ at[s] \in Instances /\ UNCHANGED <<owner, seen, keys, online>>
      /\ \A o \in Ops \ {s} : pc'[o] = pc[o]
      /\ \A r \in Sockets \ {s} : since'[r] = since[r]
    BY <1>0 DEF Connect, Disconnect, Decide, Settle, Goto, ops, fetch, store
<1>2. Listed(u)'
    BY <1>1, SetsAssumption DEF On, Listed
<1>3. CASE Connect(s)
    <2>1. pc'[s] = "open" /\ Send(at[s], SetOnline(owner[s]))
        BY <1>0, <1>3 DEF Connect, Goto
    <2>2. Kept /\ \A j \in Instances : \A n \in Fresh(j) : pipe'[j][n].users = {owner[s]}
        BY <1>1, <2>1, SentOnline
    <2>3. CASE owner[s] = u
        <3>1. Counted(u)'
            <4>1. ~ Leaving(u)
                BY <1>3, <2>3 DEF Connect, Disconnect, Decide
            <4>2. \A z \in Sockets : owner[z] = u => pc[z] # "counting"
                BY <4>1 DEF Leaving
            <4>3. \A z \in Sockets : pc'[z] = "counting" => pc[z] = "counting"
                BY <1>1, <2>1
            <4> QED
                BY <1>1, <4>2, <4>3 DEF Counted
        <3>2. \A j \in Instances : \A n \in Fresh(j) :
                 /\ ~ Is(j, n, "del", u)' /\ ~ Is(j, n, "srem", u)'
                 /\ Is(j, n, "sadd", u)' => \E m \in Places(j)' : m < n /\ Is(j, m, "set", u)'
            BY <1>1, <2>1, <2>3, OnlineSent
        <3> QED
            BY <1>1, <1>2, <2>2, <3>1, <3>2, OnAppends
    <2>4. CASE owner[s] # u
        <3>1. Counted(u)'
            BY <1>1, <2>1, <2>4 DEF On, Counted, Room
        <3> QED
            BY <1>1, <1>2, <2>2, <2>4, <3>1, OnOthers
    <2> QED
        BY <2>3, <2>4
<1>4. CASE Disconnect(s)
    <2> DEFINE ask == [op |-> "ask", socket |-> s]
    <2>1. ask \in Command /\ ask.op = "ask" /\ Send(at[s], <<ask>>)
        BY <1>4 DEF Command, Ask, Disconnect
    <2> HIDE DEF ask
    <2>2. Kept /\ \A j \in Instances : \A n \in Fresh(j) : pipe'[j][n].op = "ask"
        BY <1>1, <2>1, SendPlaceOfOne
    <2>3. pc[s] = "open" /\ pc'[s] = "counting" /\ since'[s] = Room(owner[s])
        BY <1>0, <1>4 DEF Disconnect, Goto
    <2>4. Room(u)' \subseteq Room(u)
        BY <1>1, <2>3 DEF Room
    <2>5. Counted(u)'
        BY <1>1, <2>3, <2>4 DEF On, Counted
    <2> QED
        BY <1>1, <1>2, <2>2, <2>5, OnOthers
<1>5. CASE Decide(s)
    <2>1. pc[s] = "counting" /\ pc'[s] = "closed" /\ waiting[s] = {}
        BY <1>0, <1>5 DEF Decide, Settle, Goto
    <2>2. Counted(u)'
        BY <1>1, <2>1 DEF On, Counted, Room
    <2>3. CASE owner[s] = u
        <3>1. Room(u) \subseteq since[s]
            BY <2>1, <2>3 DEF On, Counted
        <3>2. ~ IsLast(s)
            BY <2>1, <2>3, <3>1, LastIsAlone DEF LastMeansLast
        <3>3. pipe' = pipe
            BY <1>5, <3>2 DEF Decide
        <3> QED
            BY <1>1, <1>2, <2>2, <3>3, SamePipes, OnOthers
    <2>4. CASE owner[s] # u
        <3>1. Kept /\ \A j \in Instances : \A n \in Fresh(j) : pipe'[j][n].users = {owner[s]}
            BY <1>1, <1>5, SamePipes, SentOffline DEF Decide
        <3> QED
            BY <1>1, <1>2, <2>2, <2>4, <3>1, OnOthers
    <2> QED
        BY <2>3, <2>4
<1> QED
    BY <1>3, <1>4, <1>5

LEMMA OnlineCalls ==
    ASSUME TypeOK, NEW u \in Users, On(u), NEW c \in Calls,
           \/ Put(c) /\ owner[c] # u
           \/ ListMembers(c) \/ ListPrune(c)
    PROVE  On(u)'
<1> USE DEF Ops
<1>0. /\ owner \in [Ops -> Users] /\ at \in [Ops -> Instances]
      /\ pc \in [Ops -> {"new", "open", "counting", "closed", "checking"}]
      /\ seen \in [Calls -> SUBSET Users]
    BY DEF TypeOK
<1>1. /\ owner[c] \in Users /\ at[c] \in Instances /\ UNCHANGED <<owner, since, keys, online>>
      /\ \A o \in Ops \ {c} : pc'[o] = pc[o]
      /\ \A l \in Calls \ {c} : seen'[l] = seen[l]
    BY <1>0 DEF Put, ListMembers, ListPrune, Goto, ops, fetch, store
<1>2. Counted(u)'
    BY <1>1, SetsAssumption DEF On, Counted, Room
<1>3. CASE Put(c) /\ owner[c] # u
    <2>1. Kept /\ \A j \in Instances : \A n \in Fresh(j) : pipe'[j][n].users = {owner[c]}
        BY <1>1, <1>3, SentOnline, SentOffline DEF Put
    <2>2. pc'[c] = "closed"
        BY <1>0, <1>3 DEF Put, Goto
    <2>3. Listed(u)'
        BY <1>1, <2>2 DEF On, Listed
    <2> QED
        BY <1>1, <1>2, <1>3, <2>1, <2>3, OnOthers
<1>4. CASE ListMembers(c)
    <2>1. seen'[c] = online /\ pipe' = pipe
        BY <1>0, <1>4 DEF ListMembers
    <2>2. Listed(u)'
        BY <1>1, <2>1 DEF On, Listed
    <2> QED
        BY <1>1, <1>2, <2>1, <2>2, SamePipes, OnOthers
<1>5. CASE ListPrune(c)
    <2> DEFINE w == [op |-> "srem", users |-> seen[c] \ keys]
    <2>1. w \in Command /\ w.users = seen[c] \ keys /\ pc[c] = "checking" /\ pc'[c] = "closed"
        BY <1>0, <1>5 DEF Command, Write, ListPrune, Goto
    <2>2. pipe' = pipe \/ Send(at[c], <<w>>)
        BY <1>5 DEF ListPrune
    <2>3. u \notin w.users
        BY <2>1 DEF On, Listed
    <2> HIDE DEF w
    <2>4. Kept /\ \A j \in Instances : \A n \in Fresh(j) : pipe'[j][n] = w
        BY <1>1, <2>1, <2>2, SamePipes, SendPlaceOfOne
    <2>5. Listed(u)'
        BY <1>1, <2>1 DEF On, Listed
    <2> QED
        BY <1>1, <1>2, <2>3, <2>4, <2>5, OnOthers
<1> QED
    BY <1>3, <1>4, <1>5

LEMMA OnlineRuns ==
    ASSUME TypeOK, NEW u \in Users, On(u), NEW i \in Instances,
           RunWrite(i) \/ RunAsk(i) \/ RunReply(i) \/ \E s \in Sockets : Answer(i, s)
    PROVE  On(u)'
<1>1. UNCHANGED <<owner, pc, since, seen>>
    BY DEF RunWrite, RunAsk, RunReply, Answer, ops, fetch
<1>2. Counted(u)'
    BY <1>1 DEF On, Counted, Room
<1>3. CASE RunWrite(i)
    <2>1. /\ pipe[i] # <<>> /\ Dequeue(i) /\ Head(pipe[i]) = pipe[i][1] /\ 1 \in Places(i)
        BY <1>3, DequeuePlaces DEF RunWrite, HeadIs
    <2>2. ~ Is(i, 1, "del", u) /\ ~ Is(i, 1, "srem", u)
        BY <2>1 DEF On, OnItsWay
    <2>3. /\ u \in keys \/ Is(i, 1, "set", u) => u \in keys'
          /\ u \in online \/ Is(i, 1, "sadd", u) <=> u \in online'
        BY <1>3, <2>1, <2>2 DEF RunWrite, Is
    <2> QED
        BY <1>1, <1>2, <2>1, <2>3, OnDequeues
<1>4. CASE RunAsk(i) \/ RunReply(i)
    <2>1. /\ pipe[i] # <<>> /\ Dequeue(i) /\ Head(pipe[i]) = pipe[i][1] /\ UNCHANGED <<keys, online>>
          /\ Head(pipe[i]).op \in {"ask", "reply"}
        BY <1>4, DequeuePlaces DEF RunAsk, RunReply, HeadIs, store
    <2>2. ~ Is(i, 1, "set", u) /\ ~ Is(i, 1, "sadd", u)
        BY <2>1 DEF Is
    <2> QED
        BY <1>1, <1>2, <2>1, <2>2, OnDequeues
<1>5. ASSUME NEW s \in Sockets, Answer(i, s) PROVE On(u)'
    <2> DEFINE d == [op |-> "reply", socket |-> s, sockets |-> Local(i, owner[s])]
    <2>1. d \in Command /\ d.op = "reply" /\ Send(i, <<d>>) /\ UNCHANGED <<keys, online>>
        BY <1>5, LocalTypes DEF Command, Reply, TypeOK, Ops, Answer, store
    <2> HIDE DEF d
    <2>2. Kept /\ \A j \in Instances : \A n \in Fresh(j) : pipe'[j][n].op = "reply"
        BY <2>1, SendPlaceOfOne
    <2>3. Listed(u)'
        BY <1>1, <2>1 DEF On, Listed
    <2> QED
        BY <1>2, <2>1, <2>2, <2>3, OnOthers
<1> QED
    BY <1>3, <1>4, <1>5

LEMMA NextOnline == TypeOK /\ GoneAll /\ OnlineInv /\ [Next]_vars => OnlineInv'
<1> SUFFICES ASSUME TypeOK, CountInv, Delivered, GoneInv, OnlineInv, [Next]_vars,
                    faults' = 0, expiries' = 0, NEW u \in Users,
                    u \notin manual', u \notin raced', Room(u)' # {}
             PROVE  On(u)'
    BY DEF OnlineInv, GoneAll
<1> USE DEF Ops
<1>0. /\ owner \in [Ops -> Users] /\ faults \in Nat /\ expiries \in Nat
      /\ pc \in [Ops -> {"new", "open", "counting", "closed", "checking"}]
    BY DEF TypeOK
<1>1. faults = 0 /\ expiries = 0
    BY NoFaultBefore
<1>2. u \notin manual /\ u \notin raced /\ Room(u) # {} => On(u)
    BY <1>1 DEF OnlineInv
<1>3. CASE UNCHANGED vars
    BY <1>2, <1>3 DEF vars, history, ops, fetch, store, Room, On, Counted, Listed, OnItsWay, Is, Places
<1>4. ASSUME NEW s \in Sockets, Connect(s) PROVE On(u)'
    <2>1. pc[s] = "new" /\ pc'[s] = "open" /\ owner' = owner /\ \A t \in Sockets \ {s} : pc'[t] = pc[t]
        BY <1>0, <1>4 DEF Connect, Goto, ops
    <2>2. u \notin raced /\ (owner[s] = u => ~ Leaving(u))
        BY <1>4 DEF Connect
    <2>3. CASE u \in manual
        <3>1. owner[s] = u /\ AtRest(u) /\ (u \in keys <=> u \in online)
            BY <1>4, <2>3 DEF Connect
        <3> QED
            BY <1>4, <3>1, OnStarts
    <2>4. CASE u \notin manual /\ Room(u) # {}
        BY <1>2, <1>4, <2>2, <2>4, OnlineSockets
    <2>5. CASE u \notin manual /\ Room(u) = {}
        <3>1. owner[s] = u
            BY <2>1, <2>5 DEF Room
        <3>2. ~ Leaving(u)
            BY <2>2, <3>1
        <3>3. Off(u)
            BY <1>1, <2>5, <3>2 DEF GoneInv, Removing, Leaving
        <3>4. \A i \in Instances : \A n \in Places(i) : ~ Is(i, n, "del", u) /\ ~ Is(i, n, "srem", u)
            BY <3>2 DEF Leaving, Is, Places, Pending
        <3>5. u \notin keys /\ u \notin online
            BY <3>3, <3>4 DEF Off, OnItsWay
        <3>6. \A i \in Instances : \A n \in Places(i) : ~ Is(i, n, "set", u) /\ ~ Is(i, n, "sadd", u)
            BY <3>3, <3>4 DEF Off, Undone
        <3>7. AtRest(u)
            BY <3>2, <3>6 DEF AtRest, Is, Places, Pending
        <3> QED
            BY <1>4, <3>1, <3>5, <3>7, OnStarts
    <2> QED
        BY <2>3, <2>4, <2>5
<1>5. ASSUME NEW s \in Sockets, Disconnect(s) \/ Decide(s) PROVE On(u)'
    <2>1. UNCHANGED <<owner, manual, raced>> /\ \A t \in Sockets : pc'[t] = "open" => pc[t] = "open"
        BY <1>0, <1>5 DEF Disconnect, Decide, Settle, Goto, ops, history
    <2>2. Room(u) # {}
        BY <2>1 DEF Room
    <2> QED
        BY <1>2, <1>5, <2>1, <2>2, OnlineSockets
<1>6. \A s \in Sockets : ~ Timeout(s)
    BY NoTimeout
<1>7. ASSUME NEW i \in Instances,
             RunWrite(i) \/ RunAsk(i) \/ RunReply(i) \/ \E s \in Sockets : Answer(i, s)
      PROVE  On(u)'
    <2>1. UNCHANGED <<owner, pc, manual, raced>>
        BY <1>7 DEF RunWrite, RunAsk, RunReply, Answer, ops, history
    <2> QED
        BY <1>2, <1>7, <2>1, OnlineRuns DEF Room
<1>8. \A j \in Instances : ~ WriteFails(j) /\ ~ Crash(j)
    BY <1>0 DEF WriteFails, Crash, Fault
<1>9. ASSUME NEW c \in Calls, Put(c) \/ ListMembers(c) \/ ListPrune(c) PROVE On(u)'
    <2>1. /\ UNCHANGED <<owner, raced>> /\ manual \subseteq manual' /\ \A t \in Sockets : pc'[t] = pc[t]
          /\ Put(c) => owner[c] # u
        BY <1>0, <1>9, SetsAssumption DEF Put, ListMembers, ListPrune, Goto, ops, history
    <2>2. Room(u) # {} /\ u \notin manual /\ u \notin raced
        BY <2>1 DEF Room
    <2> QED
        BY <1>2, <1>9, <2>1, <2>2, OnlineCalls
<1>10. \A v \in Users : ~ Expire(v)
    BY <1>0 DEF Expire
<1> QED
    BY <1>3, <1>4, <1>5, <1>6, <1>7, <1>8, <1>9, <1>10 DEF Next

\* A connected user is online, in the key and in the set, once nothing about them is
\* on its way, unless they connected while they were being removed: no handler that
\* counts takes a socket away from under them, no list prunes them, and Redis runs the
\* writes of a setOnline in their order.
THEOREM OnlineWithoutRaceHolds == Spec => []OnlineWithoutRace
<1>1. TypeOK /\ GoneAll /\ OnlineInv /\ [Next]_vars => OnlineInv'
    BY NextOnline
<1>2. OnlineInv => OnlineWithoutRace
    <2> SUFFICES ASSUME OnlineInv, NEW u \in Users, AtRest(u), Room(u) # {}, u \notin manual \cup raced,
                        faults = 0, expiries = 0
                 PROVE  u \in keys \cap online
        BY DEF OnlineWithoutRace
    <2>1. On(u)
        BY DEF OnlineInv
    <2>2. ~ OnItsWay("set", u) /\ ~ OnItsWay("sadd", u)
        BY DEF AtRest, OnItsWay, Is, Places, Pending
    <2> QED
        BY <2>1, <2>2 DEF On
<1> QED
    BY <1>1, <1>2, InitOnline, TypeCorrect, GoneAllHolds, PTL DEF Spec
=============================================================================
