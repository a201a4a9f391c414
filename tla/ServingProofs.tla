---------------------------- MODULE ServingProofs ---------------------------
(***************************************************************************)
(* Frames and trail agree, a served view is the one decided on, and the    *)
(* shutdown accounts for every connection, for every number of             *)
(* connections, permits, installs, failed appends and failed writes and    *)
(* every depth of the queue.  The breaker in front of a handler's blocking *)
(* work counts its slots exactly and bounds the threads a wedge costs, for *)
(* every number of callers, every cap and every threshold.                 *)
(***************************************************************************)
EXTENDS Serving, BreakerLimits, SequenceTheorems, FiniteSetTheorems, TLAPS

\* The breaker in front of the blocking work of a handler (session.rs gather).
Guard == INSTANCE BlockingGuard

-----------------------------------------------------------------------------
(* The inductive invariant *)

\* Before its first record about a request a connection has no frame.
Fresh == {"new", "refused", "handshake", "facts", "reading", "checking", "admission", "deciding",
          "decided", "dispatching"}

Standing == {"permit", "corrected"}

Silent(c) == wire[c] = "none" /\ cut[c] = "none"

Agrees(c) ==
  /\ "payload" \in {wire[c], cut[c]} => newest[c] = "permit"
  /\ "refusal" \in {wire[c], cut[c]} => newest[c] = "corrected"
  /\ "error" \in {wire[c], cut[c]} => newest[c] \in {"deny", "withheld"}
  /\ newest[c] \in Standing => ~Silent(c) \/ c \in unsure

\* The record being appended, where it leads, and what is known of the request meanwhile.
Pending(c) ==
  \/ rec[c] = "admit" /\ next[c] = "reading" /\ newest[c] = "none" /\ Silent(c)
  \/ rec[c] = "refused" /\ next[c] = "closed" /\ newest[c] = "none" /\ Silent(c)
  \/ rec[c] = "deny" /\ next[c] \in {"error", "closing"} /\ newest[c] = "none" /\ Silent(c)
  \/ rec[c] = "permit" /\ next[c] = "performing" /\ newest[c] = "none" /\ Silent(c)
  \/ rec[c] = "corrected" /\ next[c] = "delivering" /\ newest[c] = "permit" /\ Silent(c)
  \/ /\ rec[c] = "withheld" /\ next[c] = "error" /\ newest[c] \in Standing \union {"none"}
     /\ Silent(c)
  \/ rec[c] = "terminate" /\ next[c] = "closed" /\ Agrees(c)

TrailInv(c) ==
  /\ newest[c] \in {"none", "deny", "permit", "corrected", "withheld"}
  /\ \/ at[c] \in Fresh /\ newest[c] = "none" /\ Silent(c)
     \/ at[c] = "performing" /\ newest[c] = "permit" /\ Silent(c)
     \/ at[c] = "delivering" /\ newest[c] \in Standing /\ Silent(c)
     \/ at[c] = "error" /\ newest[c] \in {"deny", "withheld"} /\ Silent(c)
     \/ at[c] = "recording" /\ Pending(c)
     \/ at[c] \in {"closing", "closed"} /\ Agrees(c)

\* From the check on, the generation admitted is the one decided on.
GenInv(c) ==
  /\ admitted[c] \in Nat /\ decided[c] \in Nat
  /\ at[c] = "deciding" => admitted[c] <= gen
  /\ at[c] = "decided" => admitted[c] <= decided[c] /\ decided[c] <= gen
  /\ \/ at[c] \in {"dispatching", "performing", "delivering"}
     \/ at[c] = "recording" /\ next[c] \in {"performing", "delivering"}
     \/ wire[c] = "payload" \/ cut[c] = "payload"
     => decided[c] = admitted[c]

\* A refused connection is on its way to the trail or there, a closed one is there.
CountInv(c) ==
  /\ at[c] = "closed" => c \in settled \union lost
  /\ at[c] = "refused" =>
       c \in uncounted \union ToSet(queue) \union dropped \union drainer.hand \union settled \union lost
  /\ loop \in {"auditing", "returned"} => at[c] \in {"new", "refused", "closed"}
  /\ loop = "returned" => at[c] = "new" \/ c \in settled \union lost

\* The order of the shutdown: nothing is counted after the signal, and the drain ends behind
\* an empty queue and an empty count.
LoopInv ==
  /\ loop # "accepting" => uncounted = {}
  /\ drainer.at \in {"receiving", "flushing", "ended"} => drainer.hand = {}
  /\ drainer.at \in {"finishing", "ended"} =>
       loop = "returned" \/ (loop = "auditing" /\ queue = <<>> /\ dropped = {})
  /\ loop = "returned" => drainer.at = "ended"

DrainPlaces == {"receiving", "appending", "flushing", "summarising", "finishing", "ended"}

Shape ==
  /\ DOMAIN at = Conns /\ DOMAIN rec = Conns /\ DOMAIN next = Conns /\ DOMAIN newest = Conns
  /\ DOMAIN wire = Conns /\ DOMAIN cut = Conns /\ DOMAIN admitted = Conns /\ DOMAIN decided = Conns
  /\ gen \in Nat
  /\ queue \in Seq(Conns) /\ uncounted \subseteq Conns /\ dropped \subseteq Conns
  /\ drainer \in [at : DrainPlaces, hand : SUBSET Conns]

IInv ==
  /\ Shape /\ LoopInv
  /\ \A c \in Conns : TrailInv(c) /\ GenInv(c) /\ CountInv(c)
-----------------------------------------------------------------------------
(* Initially *)

LEMMA InvInit == Init => IInv
<1> SUFFICES ASSUME Init PROVE IInv
  OBVIOUS
<1>1. Shape /\ LoopInv
  BY DEF Init, Shape, LoopInv, Receiving, DrainPlaces
<1>2. ASSUME NEW c \in Conns PROVE TrailInv(c) /\ GenInv(c) /\ CountInv(c)
  BY <1>2 DEF Init, TrailInv, Silent, GenInv, CountInv, Fresh
<1>3. QED
  BY <1>1, <1>2 DEF IInv

-----------------------------------------------------------------------------
(* A handler's step is about its own connection *)

Same(q) ==
  /\ at'[q] = at[q] /\ rec'[q] = rec[q] /\ next'[q] = next[q] /\ newest'[q] = newest[q]
  /\ wire'[q] = wire[q] /\ cut'[q] = cut[q] /\ admitted'[q] = admitted[q] /\ decided'[q] = decided[q]

\* What others rely on: the loop and the queue stay, and the accounts only grow.
Aside ==
  /\ UNCHANGED <<loop, gen, uncounted, queue, dropped, drainer>>
  /\ settled \subseteq settled' /\ lost \subseteq lost' /\ unsure \subseteq unsure'

LEMMA OneHandler ==
  ASSUME Shape, NEW c \in Conns, Handler(c)
  PROVE  Shape' /\ Aside /\ \A q \in Conns \ {c} : Same(q)
<1> USE DEF Shape, Same, Aside, offload, accounts, answers, Goto, Record, Refuse, Write
<1>1. CASE Acknowledged(c)
  BY <1>1 DEF Acknowledged
<1>2. CASE NotAcknowledged(c)
  BY <1>2 DEF NotAcknowledged
<1>3. CASE Handshake(c)
  BY <1>3 DEF Handshake
<1>4. CASE AdmitPeer(c)
  BY <1>4 DEF AdmitPeer
<1>5. CASE ReadRequest(c)
  BY <1>5 DEF ReadRequest
<1>6. CASE CheckRequest(c)
  BY <1>6 DEF CheckRequest
<1>7. CASE TakeAdmission(c)
  BY <1>7 DEF TakeAdmission
<1>8. CASE Decide(c)
  BY <1>8 DEF Decide
<1>9. CASE CheckGeneration(c)
  BY <1>9 DEF CheckGeneration
<1>10. CASE Dispatch(c)
  BY <1>10 DEF Dispatch
<1>11. CASE Perform(c)
  BY <1>11 DEF Perform
<1>12. CASE Deliver(c)
  BY <1>12 DEF Deliver
<1>13. CASE WriteError(c)
  BY <1>13 DEF WriteError
<1>14. CASE Terminate(c)
  BY <1>14 DEF Terminate
<1>15. QED
  BY <1>1, <1>2, <1>3, <1>4, <1>5, <1>6, <1>7, <1>8, <1>9, <1>10, <1>11, <1>12, <1>13, <1>14
     DEF Handler

LEMMA SameKeeps ==
  ASSUME NEW q \in Conns, Same(q), Aside, TrailInv(q), GenInv(q), CountInv(q)
  PROVE  TrailInv(q)' /\ GenInv(q)' /\ CountInv(q)'
<1>1. TrailInv(q)'
  BY DEF Same, Aside, TrailInv, Pending, Agrees, Silent
<1>2. GenInv(q)' /\ CountInv(q)'
  BY DEF Same, Aside, GenInv, CountInv
<1>3. QED
  BY <1>1, <1>2

-----------------------------------------------------------------------------
(* The handler's own connection *)

LEMMA TrailStep ==
  ASSUME Shape, NEW c \in Conns, TrailInv(c), Handler(c)
  PROVE  TrailInv(c)'
<1> USE DEF Shape, TrailInv, Pending, Agrees, Silent, Fresh, Standing, answers, Goto, Record, Refuse, Write, accounts
<1>1. CASE Acknowledged(c)
  BY <1>1 DEF Acknowledged, Closing
<1>2. CASE NotAcknowledged(c)
  BY <1>2 DEF NotAcknowledged, Closing
<1>3. CASE Handshake(c)
  BY <1>3 DEF Handshake
<1>4. CASE AdmitPeer(c)
  BY <1>4 DEF AdmitPeer
<1>5. CASE ReadRequest(c)
  BY <1>5 DEF ReadRequest
<1>6. CASE CheckRequest(c)
  BY <1>6 DEF CheckRequest
<1>7. CASE TakeAdmission(c)
  BY <1>7 DEF TakeAdmission
<1>8. CASE Decide(c)
  BY <1>8 DEF Decide
<1>9. CASE CheckGeneration(c)
  BY <1>9 DEF CheckGeneration
<1>10. CASE Dispatch(c)
  BY <1>10 DEF Dispatch
<1>11. CASE Perform(c)
  BY <1>11 DEF Perform
<1>12. CASE Deliver(c)
  BY <1>12 DEF Deliver
<1>13. CASE WriteError(c)
  BY <1>13 DEF WriteError
<1>14. CASE Terminate(c)
  BY <1>14 DEF Terminate
<1>15. QED
  BY <1>1, <1>2, <1>3, <1>4, <1>5, <1>6, <1>7, <1>8, <1>9, <1>10, <1>11, <1>12, <1>13, <1>14
     DEF Handler

LEMMA GenStep ==
  ASSUME Shape, NEW c \in Conns, TrailInv(c), GenInv(c), Handler(c)
  PROVE  GenInv(c)'
<1> USE DEF Shape, GenInv, answers, Goto, Record, Refuse, Write
<1>1. CASE Acknowledged(c)
  BY <1>1 DEF Acknowledged, TrailInv, Pending, Silent, Fresh
<1>2. CASE NotAcknowledged(c)
  BY <1>2 DEF NotAcknowledged, TrailInv, Pending, Silent, Fresh
<1>3. CASE Handshake(c)
  BY <1>3 DEF Handshake, TrailInv, Pending, Silent, Fresh
<1>4. CASE AdmitPeer(c)
  BY <1>4 DEF AdmitPeer, TrailInv, Pending, Silent, Fresh
<1>5. CASE ReadRequest(c)
  BY <1>5 DEF ReadRequest, TrailInv, Pending, Silent, Fresh
<1>6. CASE CheckRequest(c)
  BY <1>6 DEF CheckRequest, TrailInv, Pending, Silent, Fresh
<1>7. CASE TakeAdmission(c)
  BY <1>7 DEF TakeAdmission, TrailInv, Pending, Silent, Fresh
<1>8. CASE Decide(c)
  BY <1>8 DEF Decide, TrailInv, Pending, Silent, Fresh
<1>9. CASE CheckGeneration(c)
  BY <1>9 DEF CheckGeneration, TrailInv, Pending, Silent, Fresh
<1>10. CASE Dispatch(c)
  BY <1>10 DEF Dispatch, TrailInv, Pending, Silent, Fresh
<1>11. CASE Perform(c)
  BY <1>11 DEF Perform, TrailInv, Pending, Silent, Fresh
<1>12. CASE Deliver(c)
  BY <1>12 DEF Deliver, TrailInv, Pending, Silent, Fresh
<1>13. CASE WriteError(c)
  BY <1>13 DEF WriteError, TrailInv, Pending, Silent, Fresh
<1>14. CASE Terminate(c)
  BY <1>14 DEF Terminate, TrailInv, Pending, Silent, Fresh
<1>15. QED
  BY <1>1, <1>2, <1>3, <1>4, <1>5, <1>6, <1>7, <1>8, <1>9, <1>10, <1>11, <1>12, <1>13, <1>14
     DEF Handler

LEMMA CountStep ==
  ASSUME Shape, NEW c \in Conns, TrailInv(c), CountInv(c), Handler(c)
  PROVE  CountInv(c)'
<1> USE DEF Shape, CountInv, answers, Goto, Record, Refuse, Write, offload, accounts
<1>1. CASE Acknowledged(c)
  BY <1>1 DEF Acknowledged, TrailInv, Pending, Fresh, Closing
<1>2. CASE NotAcknowledged(c)
  BY <1>2 DEF NotAcknowledged, TrailInv, Pending, Fresh, Closing
<1>3. CASE Handshake(c)
  BY <1>3 DEF Handshake
<1>4. CASE AdmitPeer(c)
  BY <1>4 DEF AdmitPeer
<1>5. CASE ReadRequest(c)
  BY <1>5 DEF ReadRequest
<1>6. CASE CheckRequest(c)
  BY <1>6 DEF CheckRequest
<1>7. CASE TakeAdmission(c)
  BY <1>7 DEF TakeAdmission
<1>8. CASE Decide(c)
  BY <1>8 DEF Decide
<1>9. CASE CheckGeneration(c)
  BY <1>9 DEF CheckGeneration
<1>10. CASE Dispatch(c)
  BY <1>10 DEF Dispatch
<1>11. CASE Perform(c)
  BY <1>11 DEF Perform
<1>12. CASE Deliver(c)
  BY <1>12 DEF Deliver
<1>13. CASE WriteError(c)
  BY <1>13 DEF WriteError
<1>14. CASE Terminate(c)
  BY <1>14 DEF Terminate
<1>15. QED
  BY <1>1, <1>2, <1>3, <1>4, <1>5, <1>6, <1>7, <1>8, <1>9, <1>10, <1>11, <1>12, <1>13, <1>14
     DEF Handler

-----------------------------------------------------------------------------
(* The accept loop and the background drain *)

LEMMA QueueAppend ==
  ASSUME NEW q \in Seq(Conns), NEW c \in Conns
  PROVE  ToSet(Append(q, c)) = ToSet(q) \union {c}
<1>1. /\ Len(q) \in Nat /\ DOMAIN q = 1 .. Len(q)
      /\ DOMAIN Append(q, c) = 1 .. (Len(q) + 1) /\ Append(q, c)[Len(q) + 1] = c
      /\ \A i \in 1 .. Len(q) : Append(q, c)[i] = q[i]
  BY AppendProperties, LenProperties
<1>2. \A i \in 1 .. (Len(q) + 1) : i = Len(q) + 1 \/ i \in 1 .. Len(q)
  BY <1>1
<1>3. ToSet(Append(q, c)) \subseteq ToSet(q) \union {c}
  BY <1>1, <1>2 DEF ToSet
<1>4. Len(q) + 1 \in 1 .. (Len(q) + 1) /\ 1 .. Len(q) \subseteq 1 .. (Len(q) + 1)
  BY <1>1
<1>5. ToSet(q) \union {c} \subseteq ToSet(Append(q, c))
  BY <1>1, <1>4 DEF ToSet
<1>6. QED
  BY <1>3, <1>5

LEMMA QueueTail ==
  ASSUME NEW q \in Seq(Conns), q # <<>>
  PROVE  ToSet(q) = {Head(q)} \union ToSet(Tail(q)) /\ Head(q) \in Conns /\ Tail(q) \in Seq(Conns)
<1>1. Head(q) \in Conns /\ Tail(q) \in Seq(Conns) /\ Len(Tail(q)) = Len(q) - 1 /\ Len(q) \in Nat \ {0}
  BY HeadTailProperties
<1>2. \A i \in 1 .. Len(Tail(q)) : Tail(q)[i] = q[i + 1]
  BY HeadTailProperties
<1>3. DOMAIN q = 1 .. Len(q) /\ DOMAIN Tail(q) = 1 .. Len(Tail(q)) /\ Head(q) = q[1]
  BY <1>1
<1>4. ASSUME NEW i \in 1 .. Len(q) PROVE q[i] \in {Head(q)} \union ToSet(Tail(q))
  <2>1. CASE i = 1
    BY <2>1, <1>3
  <2>2. CASE i # 1
    <3>1. i - 1 \in 1 .. Len(Tail(q)) /\ (i - 1) + 1 = i
      BY <2>2, <1>1
    <3>2. Tail(q)[i - 1] = q[i]
      BY <3>1, <1>2
    <3>3. QED
      BY <3>1, <3>2, <1>3 DEF ToSet
  <2>3. QED
    BY <2>1, <2>2
<1>5. ASSUME NEW i \in 1 .. Len(Tail(q)) PROVE Tail(q)[i] \in ToSet(q)
  <2>1. i + 1 \in 1 .. Len(q)
    BY <1>1
  <2>2. QED
    BY <2>1, <1>2, <1>3 DEF ToSet
<1>6. Head(q) \in ToSet(q)
  BY <1>1, <1>3 DEF ToSet
<1>7. QED
  BY <1>1, <1>3, <1>4, <1>5, <1>6 DEF ToSet

\* These steps leave every request's state alone, except that a connection arrives or is
\* aborted.
LEMMA LoopTrail ==
  ASSUME IInv, Next, \A c \in Conns : ~Handler(c)
  PROVE  \A q \in Conns : TrailInv(q)'
<1> USE DEF IInv, Shape, TrailInv, Pending, Agrees, Silent, Fresh, Standing
<1>1. CASE \E c \in Conns : AcceptConn(c) \/ RefuseConn(c)
  BY <1>1 DEF AcceptConn, RefuseConn, answers, accounts
<1>2. CASE DrainHandlers
  BY <1>2 DEF DrainHandlers, Live, answers
<1>3. CASE CountDropped \/ Stop \/ StopStep \/ Return \/ Receive \/ Flush \/ DrainEnds \/ Install
  BY <1>3 DEF CountDropped, Stop, StopStep, Return, Receive, Flush, DrainEnds, Install, tasks, accounts
<1>4. CASE DrainAppends
  BY <1>4 DEF DrainAppends, tasks
<1>5. QED
  BY <1>1, <1>2, <1>3, <1>4 DEF Next

LEMMA LoopGen ==
  ASSUME IInv, Next, \A c \in Conns : ~Handler(c)
  PROVE  \A q \in Conns : GenInv(q)'
<1> USE DEF IInv, Shape, GenInv
<1>1. CASE \E c \in Conns : AcceptConn(c) \/ RefuseConn(c)
  BY <1>1 DEF AcceptConn, RefuseConn, answers, TrailInv, Silent
<1>2. CASE DrainHandlers
  BY <1>2 DEF DrainHandlers, answers
<1>3. CASE CountDropped \/ Stop \/ StopStep \/ Return \/ Receive \/ Flush \/ DrainEnds \/ DrainAppends
  BY <1>3 DEF CountDropped, Stop, StopStep, Return, Receive, Flush, DrainEnds, DrainAppends, tasks
<1>4. CASE Install
  BY <1>4 DEF Install, tasks
<1>5. QED
  BY <1>1, <1>2, <1>3, <1>4 DEF Next

LEMMA LoopShape ==
  ASSUME IInv, Next, \A c \in Conns : ~Handler(c)
  PROVE  Shape' /\ LoopInv'
<1> USE DEF IInv, Shape, LoopInv, DrainPlaces
<1>1. ASSUME NEW c \in Conns, AcceptConn(c) PROVE Shape' /\ LoopInv'
  BY <1>1 DEF AcceptConn, answers, offload
<1>2. ASSUME NEW c \in Conns, RefuseConn(c) PROVE Shape' /\ LoopInv'
  BY <1>2 DEF RefuseConn, answers
<1>3. CASE CountDropped
  BY <1>3 DEF CountDropped, tasks
<1>4. CASE Stop \/ StopStep
  BY <1>4 DEF Stop, StopStep, tasks, offload
<1>5. CASE DrainHandlers
  BY <1>5 DEF DrainHandlers, answers, offload
<1>6. CASE Return
  BY <1>6 DEF Return, tasks
<1>7. CASE Receive
  BY <1>7, QueueTail DEF Receive, tasks
<1>8. CASE DrainAppends
  BY <1>8 DEF DrainAppends, tasks
<1>9. CASE Flush
  BY <1>9 DEF Flush, Receiving, tasks
<1>10. CASE DrainEnds
  BY <1>10 DEF DrainEnds, tasks
<1>11. CASE Install
  BY <1>11 DEF Install, tasks, offload
<1>12. QED
  BY <1>1, <1>2, <1>3, <1>4, <1>5, <1>6, <1>7, <1>8, <1>9, <1>10, <1>11 DEF Next

LEMMA LoopCount ==
  ASSUME IInv, Next, \A c \in Conns : ~Handler(c)
  PROVE  \A q \in Conns : CountInv(q)'
<1> SUFFICES ASSUME NEW q \in Conns PROVE CountInv(q)'
  OBVIOUS
<1> USE DEF IInv, Shape, LoopInv, CountInv
<1>1. ASSUME NEW c \in Conns, AcceptConn(c) PROVE CountInv(q)'
  BY <1>1 DEF AcceptConn, offload, accounts
<1>2. ASSUME NEW c \in Conns, RefuseConn(c) PROVE CountInv(q)'
  <2>1. /\ loop = "accepting" /\ uncounted = {} /\ at'[c] = "refused"
        /\ q # c => at'[q] = at[q]
        /\ UNCHANGED <<loop, dropped, drainer, settled, lost>>
    BY <1>2 DEF RefuseConn, accounts
  <2>2. CASE queue' = Append(queue, c) /\ uncounted' = uncounted
    <3>1. ToSet(queue') = ToSet(queue) \union {c}
      BY <2>2, QueueAppend
    <3>2. QED
      BY <2>1, <2>2, <3>1
  <2>3. CASE uncounted' = {c} /\ queue' = queue
    BY <2>1, <2>3
  <2>4. QED
    BY <1>2, <2>2, <2>3 DEF RefuseConn
<1>3. CASE CountDropped
  BY <1>3 DEF CountDropped, tasks, accounts
<1>4. CASE Stop \/ StopStep
  BY <1>4 DEF Stop, StopStep, tasks, offload, accounts
<1>5. CASE DrainHandlers
  BY <1>5 DEF DrainHandlers, Live, offload
<1>6. CASE Return
  BY <1>6 DEF Return, tasks, ToSet
<1>7. CASE Receive
  BY <1>7, QueueTail DEF Receive, tasks, accounts
<1>8. CASE DrainAppends
  BY <1>8 DEF DrainAppends, tasks
<1>9. CASE Flush
  BY <1>9 DEF Flush, Receiving, tasks, accounts
<1>10. CASE DrainEnds
  BY <1>10 DEF DrainEnds, tasks, accounts
<1>11. CASE Install
  BY <1>11 DEF Install, tasks, offload, accounts
<1>12. QED
  BY <1>1, <1>2, <1>3, <1>4, <1>5, <1>6, <1>7, <1>8, <1>9, <1>10, <1>11 DEF Next

-----------------------------------------------------------------------------
(* The theorems *)

LEMMA InvNext == IInv /\ [Next]_vars => IInv'
<1> SUFFICES ASSUME IInv, [Next]_vars PROVE IInv'
  OBVIOUS
<1>1. ASSUME NEW c \in Conns, Handler(c) PROVE IInv'
  <2>1. Shape' /\ Aside /\ \A q \in Conns \ {c} : Same(q)
    BY <1>1, OneHandler DEF IInv
  <2>2. TrailInv(c)' /\ GenInv(c)' /\ CountInv(c)'
    BY <1>1, TrailStep, GenStep, CountStep DEF IInv
  <2>3. ASSUME NEW q \in Conns, q # c PROVE TrailInv(q)' /\ GenInv(q)' /\ CountInv(q)'
    BY <2>1, <2>3, SameKeeps DEF IInv
  <2>4. LoopInv'
    BY <2>1 DEF IInv, LoopInv, Aside
  <2>5. QED
    BY <2>1, <2>2, <2>3, <2>4 DEF IInv
<1>2. CASE Next /\ \A c \in Conns : ~Handler(c)
  BY <1>2, LoopTrail, LoopGen, LoopShape, LoopCount DEF IInv
<1>3. CASE UNCHANGED vars
  <2>1. Shape' /\ LoopInv' /\ Aside /\ \A q \in Conns : Same(q)
    BY <1>3 DEF IInv, Shape, LoopInv, Aside, Same, vars
  <2>2. QED
    BY <2>1, SameKeeps DEF IInv
<1>4. QED
  BY <1>1, <1>2, <1>3

LEMMA Invariance == Spec => []IInv
<1>1. QED
  BY InvInit, InvNext, PTL DEF Spec

\* What a peer was sent, whole or cut, and the newest acknowledged record agree, and a permit
\* left standing had its answer written, for any number of connections, failed appends and
\* failed writes (handle's gates on may_respond, write_frame_bounded).
THEOREM AnswersMatchTrail == Spec => []AnswerMatchesTrail
<1>1. IInv => AnswerMatchesTrail
  BY DEF IInv, TrailInv, Pending, Agrees, Silent, Standing, Fresh, AnswerMatchesTrail, Backing
<1>2. QED
  BY <1>1, Invariance, PTL

\* A payload shows the view its decision was made on, for any number of live installs
\* (LiveConfig::admission and the generation compared after the decision).
THEOREM ServedAsDecided == Spec => []DecidedOnAdmitted
<1>1. IInv => DecidedOnAdmitted
  BY DEF IInv, GenInv, DecidedOnAdmitted
<1>2. QED
  BY <1>1, Invariance, PTL

\* The shutdown accounts for every connection, for every depth of the queue and any number
\* of permits (accept_loop's order: handlers, queue, last flush).
THEOREM ShutdownAccounts == Spec => []Accounted
<1>1. IInv => Accounted
  BY DEF IInv, CountInv, Accounted
<1>2. QED
  BY <1>1, Invariance, PTL

-----------------------------------------------------------------------------
(* The breaker *)

LEMMA BreakerTypeInit == Guard!Init => Guard!TypeOK
BY GuardAssumption DEF Guard!Init, Guard!TypeOK

LEMMA BreakerTypeNext == Guard!TypeOK /\ [Guard!Next]_Guard!vars => Guard!TypeOK'
<1> SUFFICES ASSUME Guard!TypeOK, [Guard!Next]_Guard!vars PROVE Guard!TypeOK'
  OBVIOUS
<1> USE GuardAssumption DEF Guard!TypeOK, Guard!Waiting
<1>1. ASSUME NEW c \in Callers, Guard!Begin(c) \/ Guard!Return(c) \/ Guard!Expire(c)
      PROVE  Guard!TypeOK'
  BY <1>1 DEF Guard!Begin, Guard!Return, Guard!Expire
<1>2. ASSUME NEW c \in Callers, Guard!RecordSuccess(c) \/ Guard!RecordTimeout(c)
      PROVE  Guard!TypeOK'
  BY <1>2 DEF Guard!RecordSuccess, Guard!RecordTimeout, Guard!Released
<1>3. CASE Guard!OrphanEnds \/ Guard!Cool
  BY <1>3 DEF Guard!OrphanEnds, Guard!Cool, Guard!Cooling
<1>4. CASE UNCHANGED Guard!vars
  BY <1>4 DEF Guard!vars
<1>5. QED
  BY <1>1, <1>2, <1>3, <1>4 DEF Guard!Next

LEMMA GuardedFinite ==
  ASSUME Guard!TypeOK
  PROVE  /\ IsFiniteSet(Guard!Guarded)
         /\ Cardinality(Guard!Guarded) \in Nat
<1>1. Guard!Guarded \subseteq Callers
  BY DEF Guard!Guarded
<1>2. QED
  BY <1>1, GuardAssumption, FS_Subset, FS_CardinalityType

LEMMA SlotsAre ==
  /\ Guard!SlotsExact <=> inFlight = Cardinality(Guard!Guarded)
  /\ Guard!SlotsExact' <=> inFlight' = Cardinality(Guard!Guarded')
BY DEF Guard!SlotsExact, Guard!Cardinality, Cardinality

\* One caller enters or leaves the guarded set; the others stay as they are.
LEMMA GuardedEnters ==
  ASSUME Guard!TypeOK, NEW c \in Callers, caller[c] = "idle",
         caller' = [caller EXCEPT ![c] = "running"]
  PROVE  Cardinality(Guard!Guarded') = Cardinality(Guard!Guarded) + 1
<1>1. Guard!Guarded' = Guard!Guarded \union {c} /\ c \notin Guard!Guarded
  BY DEF Guard!Guarded, Guard!Waiting, Guard!TypeOK
<1>2. QED
  BY <1>1, GuardedFinite, FS_AddElement

LEMMA GuardedLeaves ==
  ASSUME Guard!TypeOK, NEW c \in Callers, caller[c] \in Guard!Waiting,
         caller' = [caller EXCEPT ![c] = "idle"]
  PROVE  /\ Cardinality(Guard!Guarded') = Cardinality(Guard!Guarded) - 1
         /\ Cardinality(Guard!Guarded) > 0
<1>1. Guard!Guarded' = Guard!Guarded \ {c} /\ c \in Guard!Guarded
  BY DEF Guard!Guarded, Guard!Waiting, Guard!TypeOK
<1>2. Cardinality(Guard!Guarded) # 0
  BY <1>1, GuardedFinite, FS_EmptySet
<1>3. QED
  <2>1. Cardinality(Guard!Guarded \ {c}) = Cardinality(Guard!Guarded) - 1
    BY <1>1, GuardedFinite, FS_RemoveElement
  <2>2. QED
    BY <1>1, <1>2, <2>1, GuardedFinite

LEMMA GuardedMoves ==
  ASSUME Guard!TypeOK, NEW c \in Callers, caller[c] \in Guard!Waiting, NEW w \in Guard!Waiting,
         caller' = [caller EXCEPT ![c] = w]
  PROVE  Guard!Guarded' = Guard!Guarded
BY DEF Guard!Guarded, Guard!TypeOK

LEMMA SlotsNext ==
  ASSUME Guard!TypeOK, Guard!SlotsExact, [Guard!Next]_Guard!vars
  PROVE  Guard!SlotsExact'
<1>1. ASSUME NEW c \in Callers, Guard!Begin(c)
      PROVE  Guard!SlotsExact'
  BY SlotsAre, <1>1, GuardedEnters DEF Guard!Begin
<1>2. ASSUME NEW c \in Callers, Guard!Return(c) \/ Guard!Expire(c)
      PROVE  Guard!SlotsExact'
  <2>1. Guard!Guarded' = Guard!Guarded /\ UNCHANGED inFlight
    BY <1>2, GuardedMoves DEF Guard!Return, Guard!Expire, Guard!Waiting
  <2>2. QED
    BY SlotsAre, <2>1
<1>3. ASSUME NEW c \in Callers, Guard!RecordSuccess(c) \/ Guard!RecordTimeout(c)
      PROVE  Guard!SlotsExact'
  <2>1. /\ caller[c] \in Guard!Waiting /\ caller' = [caller EXCEPT ![c] = "idle"]
        /\ inFlight' = Guard!Released
    BY <1>3 DEF Guard!RecordSuccess, Guard!RecordTimeout, Guard!Waiting
  <2>2. QED
    BY SlotsAre, <2>1, GuardedLeaves, GuardedFinite DEF Guard!Released
<1>4. CASE Guard!OrphanEnds \/ Guard!Cool \/ UNCHANGED Guard!vars
  BY SlotsAre, <1>4 DEF Guard!OrphanEnds, Guard!Cool, Guard!vars, Guard!Guarded
<1>5. QED
  BY <1>1, <1>2, <1>3, <1>4 DEF Guard!Next

LEMMA SlotsInit == Guard!Init => Guard!SlotsExact
<1> SUFFICES ASSUME Guard!Init PROVE Guard!SlotsExact
  OBVIOUS
<1>1. Guard!Guarded = {}
  BY DEF Guard!Init, Guard!Guarded, Guard!Waiting
<1>2. QED
  BY SlotsAre, <1>1, FS_EmptySet DEF Guard!Init

\* in_flight is the number of operations not yet recorded, in every behaviour: a
\* timed-out, failed or panicking operation gives its slot back exactly once, and
\* a half-open probe is counted like any other.
THEOREM SlotsAlwaysExact == Guard!Spec => []Guard!SlotsExact
BY BreakerTypeInit, BreakerTypeNext, SlotsInit, SlotsNext, PTL DEF Guard!Spec

-----------------------------------------------------------------------------
(* The bound under a wedge.  While the breaker is closed every worker is      *)
(* either in flight or was counted as a timeout; once it is open, a worker is *)
(* spawned only by a probe, which uses up one cooldown.                       *)

Bound == MaxInFlight + TripAfter - 1 + cools

WedgeInv ==
  /\ inFlight <= MaxInFlight
  /\ \A c \in Callers : caller[c] # "returned" \/ ~Guard!Wedged
  /\ ~Guard!Wedged => spawned = 0
  /\ opened = "closed" => /\ timeouts < TripAfter \/ spawned = 0
                          /\ Guard!Wedged => spawned = inFlight + timeouts
  /\ opened # "closed" => timeouts = TripAfter /\ spawned <= Bound
  /\ (opened = "cooled" /\ inFlight = 0 /\ Guard!Wedged) => spawned < Bound

LEMMA WedgeInit == Guard!Init => WedgeInv
BY GuardAssumption DEF Guard!Init, Guard!Wedged, WedgeInv, Bound

LEMMA WedgeNext ==
  ASSUME Guard!TypeOK, Guard!SlotsExact, WedgeInv, [Guard!Next]_Guard!vars
  PROVE  WedgeInv'
<1>1. ASSUME NEW c \in Callers, Guard!Begin(c)
      PROVE  WedgeInv'
  BY <1>1, GuardAssumption
  DEF Guard!Begin, Guard!Admits, Guard!Cooling, Guard!Wedged, WedgeInv, Bound, Guard!TypeOK,
    Guard!Waiting
<1>2. ASSUME NEW c \in Callers, Guard!Return(c) \/ Guard!Expire(c)
      PROVE  WedgeInv'
  BY <1>2, GuardAssumption
  DEF Guard!Return, Guard!Expire, Guard!Wedged, WedgeInv, Bound, Guard!TypeOK, Guard!Waiting
<1>3. ASSUME NEW c \in Callers, Guard!RecordSuccess(c)
      PROVE  WedgeInv'
  <2>1. ~Guard!Wedged
    BY <1>3 DEF Guard!RecordSuccess, WedgeInv
  <2>2. QED
    BY <1>3, <2>1, GuardAssumption
    DEF Guard!RecordSuccess, Guard!Released, Guard!Wedged, WedgeInv, Bound, Guard!TypeOK,
      Guard!Waiting
<1>4. ASSUME NEW c \in Callers, Guard!RecordTimeout(c)
      PROVE  WedgeInv'
  <2>1. inFlight > 0
    BY SlotsAre, <1>4, GuardedLeaves, GuardedFinite DEF Guard!RecordTimeout, Guard!Waiting
  <2>2. QED
    BY <1>4, <2>1, GuardAssumption
    DEF Guard!RecordTimeout, Guard!Released, Guard!Wedged, WedgeInv, Bound, Guard!TypeOK,
      Guard!Waiting
<1>5. CASE Guard!OrphanEnds
  BY <1>5 DEF Guard!OrphanEnds, Guard!Wedged, WedgeInv, Bound
<1>6. CASE Guard!Cool
  BY <1>6, GuardAssumption
  DEF Guard!Cool, Guard!Cooling, Guard!Wedged, WedgeInv, Bound, Guard!TypeOK
<1>7. CASE UNCHANGED Guard!vars
  BY <1>7 DEF Guard!vars, Guard!Wedged, WedgeInv, Bound
<1>8. QED
  BY <1>1, <1>2, <1>3, <1>4, <1>5, <1>6, <1>7 DEF Guard!Next

LEMMA WedgeImplies == Guard!TypeOK /\ WedgeInv => WedgeBounded
BY GuardAssumption DEF Guard!TypeOK, WedgeInv, WedgeBounded, Bound

\* A backend that never answers costs at most MaxInFlight + TripAfter - 1 threads
\* and one more per cooldown, for every cap and threshold.
THEOREM WedgeAlwaysBounded == Guard!Spec => []WedgeBounded
BY BreakerTypeInit, BreakerTypeNext, SlotsInit, SlotsNext, WedgeInit, WedgeNext, WedgeImplies, PTL
DEF Guard!Spec
=============================================================================
