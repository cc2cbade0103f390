------------------------ MODULE FeedbackWaiters_proofs ------------------------
(***************************************************************************)
(* For any number of requests, waiters and enders: types, the sender of a  *)
(* request is used once, and no wake-up is lost.                           *)
(***************************************************************************)
EXTENDS FeedbackWaiters, TLAPS

\* A call that ends a request has a request, and it has ended.
EnderInv ==
    \A e \in Enders : ending[e] # "idle" =>
        target[e] \in Requests /\ ended[target[e]]

\* A sender that was taken out of the map was sent to, or the one ender that
\* took it is about to; a sender in use was not sent to before.
SenderInv ==
    /\ \A r \in Requests, n \in Nat : n \in 1..removed[r] =>
          \/ n \in signalled[r]
          \/ \E e \in Enders : ending[e] = "sending" /\ target[e] = r /\ sender[e] = n
    /\ \A e \in Enders : ending[e] = "sending" =>
          sender[e] \in 1..removed[target[e]]
    /\ \A r \in Requests : signalled[r] \subseteq 1..removed[r]
    /\ \A e, f \in Enders :
          e # f /\ ending[e] = "sending" /\ ending[f] = "sending"
              /\ target[e] = target[f] => sender[e] # sender[f]

\* A waiter listens to a sender that was taken, or to the one in the map; in
\* that case, if its request has ended, an ender has still to take it.
WaiterInv ==
    \A w \in Waiters : waiting[w] \in {"reading", "parked"} =>
        /\ asked[w] \in Requests
        /\ receiver[w] \in 1..Current(asked[w])
        /\ receiver[w] = Current(asked[w]) =>
              /\ open[asked[w]]
              /\ waiting[w] = "parked" /\ ended[asked[w]] =>
                    \/ untold[asked[w]]
                    \/ \E e \in Enders : /\ target[e] = asked[w]
                                         /\ ending[e] \in {"committed", "telling"}

IInv == TypeOK /\ EnderInv /\ SenderInv /\ WaiterInv

-----------------------------------------------------------------------------
\* Every state has well-typed variables.
LEMMA TypePreserved == TypeOK /\ EnderInv /\ SenderInv /\ [Next]_vars => TypeOK'
<1> SUFFICES ASSUME TypeOK, EnderInv, SenderInv, [Next]_vars PROVE TypeOK'
    OBVIOUS
<1> USE NoneAssumption DEF TypeOK, Current, channels, waiters, enders
<1>1. ASSUME NEW w \in Waiters, NEW r \in Requests, Subscribe(w, r) PROVE TypeOK'
    BY <1>1 DEF Subscribe
<1>2. ASSUME NEW w \in Waiters, ReadRequest(w) PROVE TypeOK'
    BY <1>2 DEF ReadRequest
<1>3. ASSUME NEW w \in Waiters, Wake(w) PROVE TypeOK'
    BY <1>3 DEF Wake
<1>4. ASSUME NEW w \in Waiters, Abandon(w) PROVE TypeOK'
    BY <1>4 DEF Abandon
<1>5. ASSUME NEW e \in Enders, NEW r \in Requests, Commit(e, r) PROVE TypeOK'
    BY <1>5 DEF Commit
<1>6. ASSUME NEW e \in Enders, TakeSender(e) PROVE TypeOK'
    <2>1. target[e] \in Requests
        BY <1>6 DEF TakeSender, EnderInv
    <2>2. CASE open[target[e]]
        <3>1. removed[target[e]] + 1 \in Nat
            BY <2>1
        <3> QED BY <1>6, <2>1, <2>2, <3>1 DEF TakeSender
    <2>3. CASE ~open[target[e]]
        BY <1>6, <2>1, <2>3 DEF TakeSender
    <2> QED BY <2>2, <2>3
<1>7. ASSUME NEW e \in Enders, Send(e) PROVE TypeOK'
    BY <1>7 DEF Send, EnderInv, SenderInv
<1>8. ASSUME NEW e \in Enders, StopUntold(e) PROVE TypeOK'
    BY <1>8 DEF StopUntold, EnderInv
<1>9. CASE UNCHANGED vars
    BY <1>9 DEF vars
<1> QED BY <1>1, <1>2, <1>3, <1>4, <1>5, <1>6, <1>7, <1>8, <1>9
    DEF Next, WaiterStep, EnderStep, DropEnder, FailReadBack

\* Ending calls keep their request, and an ended request stays ended.
LEMMA EnderPreserved == TypeOK /\ EnderInv /\ [Next]_vars => EnderInv'
<1> SUFFICES ASSUME TypeOK, EnderInv, [Next]_vars PROVE EnderInv'
    OBVIOUS
<1> USE DEF TypeOK, EnderInv, channels, waiters, enders
<1>1. ASSUME NEW w \in Waiters, NEW r \in Requests, Subscribe(w, r) PROVE EnderInv'
    BY <1>1 DEF Subscribe
<1>2. ASSUME NEW w \in Waiters, WaiterStep(w) \/ Abandon(w) PROVE EnderInv'
    BY <1>2 DEF WaiterStep, ReadRequest, Wake, Abandon
<1>3. ASSUME NEW e \in Enders, NEW r \in Requests, Commit(e, r) PROVE EnderInv'
    BY <1>3 DEF Commit
<1>4. ASSUME NEW e \in Enders, TakeSender(e) PROVE EnderInv'
    BY <1>4 DEF TakeSender
<1>5. ASSUME NEW e \in Enders, Send(e) PROVE EnderInv'
    BY <1>5 DEF Send
<1>6. ASSUME NEW e \in Enders, StopUntold(e) PROVE EnderInv'
    BY <1>6 DEF StopUntold
<1>7. CASE UNCHANGED vars
    BY <1>7 DEF vars
<1> QED BY <1>1, <1>2, <1>3, <1>4, <1>5, <1>6, <1>7 DEF Next, EnderStep, DropEnder,
    FailReadBack

\* Taking a sender and sending keep the account of the senders.
LEMMA SenderPreserved ==
    TypeOK /\ EnderInv /\ SenderInv /\ [Next]_vars => SenderInv'
<1> SUFFICES ASSUME TypeOK, EnderInv, SenderInv, [Next]_vars PROVE SenderInv'
    OBVIOUS
<1> USE DEF TypeOK, SenderInv, Current, channels, waiters, enders
<1>1. ASSUME NEW w \in Waiters, NEW r \in Requests, Subscribe(w, r) PROVE SenderInv'
    BY <1>1 DEF Subscribe
<1>2. ASSUME NEW w \in Waiters, WaiterStep(w) \/ Abandon(w) PROVE SenderInv'
    BY <1>2 DEF WaiterStep, ReadRequest, Wake, Abandon
<1>3. ASSUME NEW e \in Enders, NEW r \in Requests, Commit(e, r) PROVE SenderInv'
    BY <1>3 DEF Commit
<1>4. ASSUME NEW e \in Enders, TakeSender(e) PROVE SenderInv'
    <2>1. target[e] \in Requests
        BY <1>4 DEF TakeSender, EnderInv
    <2>2. CASE ~open[target[e]]
        BY <1>4, <2>1, <2>2 DEF TakeSender
    <2>3. CASE open[target[e]]
        <3> DEFINE r == target[e]
        <3>1. /\ removed' = [removed EXCEPT ![r] = @ + 1]
              /\ sender' = [sender EXCEPT ![e] = removed[r] + 1]
              /\ ending' = [ending EXCEPT ![e] = "sending"]
              /\ ending[e] # "sending"
              /\ UNCHANGED <<signalled, target>>
            BY <1>4, <2>1, <2>3 DEF TakeSender
        <3>2. ASSUME NEW q \in Requests, NEW n \in Nat, n \in 1..removed'[q]
              PROVE  \/ n \in signalled[q]
                     \/ \E f \in Enders : /\ ending'[f] = "sending"
                                          /\ target[f] = q /\ sender'[f] = n
            <4>1. CASE q = r /\ n = removed[r] + 1
                BY <4>1, <3>1
            <4>2. CASE n \in 1..removed[q]
                BY <4>2, <3>1
            <4> QED BY <3>1, <3>2, <4>1, <4>2, <2>1
        <3>3. \A f \in Enders : ending'[f] = "sending" => sender'[f] \in 1..removed'[target[f]]
            BY <3>1, <2>1 DEF EnderInv
        <3>4. \A q \in Requests : signalled[q] \subseteq 1..removed'[q]
            BY <3>1, <2>1
        <3>5. \A f, g \in Enders :
                 f # g /\ ending'[f] = "sending" /\ ending'[g] = "sending"
                     /\ target[f] = target[g] => sender'[f] # sender'[g]
            BY <3>1, <2>1
        <3> QED BY <3>1, <3>2, <3>3, <3>4, <3>5
    <2> QED BY <2>2, <2>3
<1>5. ASSUME NEW e \in Enders, Send(e) PROVE SenderInv'
    <2>1. target[e] \in Requests
        BY <1>5 DEF Send, EnderInv
    <2>2. ASSUME NEW q \in Requests, NEW n \in Nat, n \in 1..removed[q]
          PROVE  \/ n \in signalled'[q]
                 \/ \E f \in Enders : /\ ending'[f] = "sending"
                                      /\ target[f] = q /\ sender'[f] = n
        BY <1>5, <2>1, <2>2 DEF Send
    <2>3. /\ \A q \in Requests : signalled'[q] \subseteq 1..removed[q]
          /\ \A f \in Enders : ending'[f] = "sending" => sender'[f] \in 1..removed[target[f]]
          /\ \A f, g \in Enders :
                 f # g /\ ending'[f] = "sending" /\ ending'[g] = "sending"
                     /\ target[f] = target[g] => sender'[f] # sender'[g]
        BY <1>5, <2>1 DEF Send
    <2> QED BY <1>5, <2>2, <2>3 DEF Send
<1>6. ASSUME NEW e \in Enders, StopUntold(e) PROVE SenderInv'
    BY <1>6 DEF StopUntold
<1>7. CASE UNCHANGED vars
    BY <1>7 DEF vars
<1> QED BY <1>1, <1>2, <1>3, <1>4, <1>5, <1>6, <1>7 DEF Next, EnderStep, DropEnder,
    FailReadBack

\* A waiter that listens to the sender in the map stays covered.
LEMMA WaiterPreserved ==
    TypeOK /\ EnderInv /\ SenderInv /\ WaiterInv /\ [Next]_vars => WaiterInv'
<1> SUFFICES ASSUME TypeOK, EnderInv, SenderInv, WaiterInv, [Next]_vars
             PROVE  WaiterInv'
    OBVIOUS
<1> USE DEF TypeOK, WaiterInv, Current, channels, waiters, enders
<1>1. ASSUME NEW v \in Waiters, NEW r \in Requests, Subscribe(v, r) PROVE WaiterInv'
    BY <1>1 DEF Subscribe
<1>2. ASSUME NEW v \in Waiters, ReadRequest(v) PROVE WaiterInv'
    BY <1>2 DEF ReadRequest
<1>3. ASSUME NEW v \in Waiters, Wake(v) PROVE WaiterInv'
    BY <1>3 DEF Wake
<1>4. ASSUME NEW v \in Waiters, Abandon(v) PROVE WaiterInv'
    BY <1>4 DEF Abandon
<1>5. ASSUME NEW e \in Enders, NEW r \in Requests, Commit(e, r) PROVE WaiterInv'
    BY <1>5 DEF Commit, EnderInv
<1>6. ASSUME NEW e \in Enders, TakeSender(e) PROVE WaiterInv'
    <2>1. target[e] \in Requests
        BY <1>6 DEF TakeSender, EnderInv
    <2>2. CASE open[target[e]]
        BY <1>6, <2>1, <2>2 DEF TakeSender
    <2>3. CASE ~open[target[e]]
        BY <1>6, <2>1, <2>3 DEF TakeSender
    <2> QED BY <2>2, <2>3
<1>7. ASSUME NEW e \in Enders, Send(e) PROVE WaiterInv'
    BY <1>7 DEF Send
<1>8. ASSUME NEW e \in Enders, StopUntold(e) PROVE WaiterInv'
    BY <1>8 DEF StopUntold, EnderInv
<1>9. CASE UNCHANGED vars
    BY <1>9 DEF vars
<1> QED BY <1>1, <1>2, <1>3, <1>4, <1>5, <1>6, <1>7, <1>8, <1>9
    DEF Next, WaiterStep, EnderStep, DropEnder, FailReadBack

-----------------------------------------------------------------------------
\* The inductive invariant holds in every reachable state.
THEOREM Inductive == Spec => []IInv
<1>1. Init => IInv
    BY NoneAssumption DEF Init, IInv, TypeOK, EnderInv, SenderInv, WaiterInv, Current
<1>2. IInv /\ [Next]_vars => IInv'
    BY TypePreserved, EnderPreserved, SenderPreserved, WaiterPreserved DEF IInv
<1> QED BY <1>1, <1>2, PTL DEF Spec

\* Type correctness of the waiters, their channels and the ending calls.
THEOREM TypeCorrect == Spec => []TypeOK
<1>1. IInv => TypeOK
    BY DEF IInv
<1> QED BY <1>1, Inductive, PTL

\* A sender is sent to at most once, and never the one in the map.
THEOREM SenderUsedOnceCorrect == Spec => []SenderUsedOnce
<1>1. IInv => SenderUsedOnce
    BY DEF IInv, TypeOK, SenderInv, SenderUsedOnce, Current
<1> QED BY <1>1, Inductive, PTL

\* However the subscription, the read, the commit and the notification of any
\* number of calls interleave, a parked waiter of an ended request was woken,
\* or will be, unless the call that ended the
\* request stopped untold and no call has made up for it.
THEOREM NoLostWakeupCorrect == Spec => []NoLostWakeup
<1>1. IInv => NoLostWakeup
    <2> SUFFICES ASSUME IInv, NEW w \in Waiters, waiting[w] = "parked", ended[asked[w]],
                        receiver[w] \notin signalled[asked[w]], ~untold[asked[w]]
                 PROVE  WillSend(asked[w], receiver[w])
        BY DEF NoLostWakeup
    <2>1. asked[w] \in Requests /\ receiver[w] \in 1..Current(asked[w])
        BY DEF IInv, WaiterInv
    <2>2. CASE receiver[w] = Current(asked[w])
        BY <2>1, <2>2 DEF IInv, WaiterInv, WillSend
    <2>3. CASE receiver[w] \in 1..removed[asked[w]]
        BY <2>1, <2>3 DEF IInv, SenderInv, WillSend
    <2> QED BY <2>1, <2>2, <2>3 DEF IInv, TypeOK, Current
<1> QED BY <1>1, Inductive, PTL
=============================================================================
