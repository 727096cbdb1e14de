----------------------------- MODULE NetdevProofs -----------------------------
(***************************************************************************)
(* Proofs about 30_netdev for every pool size, budget and number of        *)
(* frames, with and without NAPI.                                          *)
(***************************************************************************)
EXTENDS NetdevCounts

-------------------------------------------------------------------------------
(* Frames go up in order: what a step does to the stream of frames to one device. *)

\* The newest frame of d that left its sender, and the packet for d that the
\* transmit path of y took from the queue.
Newest(d) == IF irq[d] = None /\ pkt[d] # 0 THEN sent[d] - 1 ELSE sent[d]
In(y, d) == IF irq[y] = d THEN pkt[y] ELSE 0

\* The packets taken, and those passed up, stay as they are.
HandsKept(d) == (\A y \in Dev : In(y, d)' = In(y, d)) /\ ppkt'[d] = ppkt[d]
StreamKept(d) == HandsKept(d) /\ passed'[d] = passed[d]
\* The oldest packet of the queue is taken; packet k is passed up or dropped.
Shortens(d) == rxq[d] # <<>> /\ rxq'[d] = Tail(rxq[d])
Passes(d, k) == rxq'[d] = rxq[d] /\ passed'[d] \in {passed[d], Append(passed[d], k)}

StreamStep(d) ==
  \/ rxq'[d] = rxq[d] /\ StreamKept(d)
  \/ /\ rxq'[d] = Append(rxq[d], Newest(ldd_peer(d))')
     /\ Newest(ldd_peer(d))' > Newest(ldd_peer(d)) /\ StreamKept(d)
  \/ Shortens(d) /\ StreamKept(d)
  \/ /\ Shortens(d) /\ passed'[d] = passed[d] /\ ppkt'[d] = ppkt[d]
     /\ \E y \in Dev : /\ In(y, d)' = Head(rxq[d])
                        /\ \A z \in Dev : z # y => In(z, d)' = In(z, d)
  \/ /\ Shortens(d) /\ passed'[d] = passed[d] /\ ppkt'[d] = Head(rxq[d])
     /\ \A y \in Dev : In(y, d)' = In(y, d)
  \/ \E y \in Dev : /\ In(y, d) # 0 /\ Passes(d, In(y, d)) /\ ppkt'[d] = ppkt[d]
                     /\ In(y, d)' = 0 /\ \A z \in Dev : z # y => In(z, d)' = In(z, d)
  \/ /\ ppkt[d] # 0 /\ Passes(d, ppkt[d]) /\ ppkt'[d] = 0
     /\ \A y \in Dev : In(y, d)' = In(y, d)

\* Frames and packets are numbers.
LEMMA NewestType ==
  ASSUME Base, NEW d \in Dev
  PROVE  Newest(d) \in Nat /\ \A y \in Dev : In(y, d) \in Nat
BY DEF Base, Types, TypeXmit, TypeCount, Shape, XmitShape, Newest, In

\* The newest frame of a device never becomes an older one.
LEMMA NewestGrows ==
  ASSUME Base, Next, NEW d \in Dev
  PROVE  Newest(d)' >= Newest(d) /\ Newest(d)' \in Nat
<1> USE DEF Base
<1>0. Newest(d) \in Nat
      BY NewestType, Zenon
<1>1. ASSUME UNCHANGED <<irq, pkt, sent>> PROVE Newest(d)' >= Newest(d)
      BY <1>0, <1>1 DEF Newest
<1>2. ASSUME NEW c \in Dev, Send(c) \/ Xmit(c), c # d PROVE Newest(d)' >= Newest(d)
  <2>1. irq'[d] = irq[d] /\ pkt'[d] = pkt[d]
        BY <1>2, OnePath, Zenon
  <2>2. sent'[d] = sent[d]
        BY <1>2, ZenonT(40) DEF Send, ldd_start_xmit, ldd_start_xmit_drop, MaySend, Xmit,
           ldd_rx_enqueue, TxInterrupt,
           ldd_ack_interrupt, ldd_regular_interrupt, ldd_napi_interrupt, XmitRelease, XmitWake,
           HandlerEnd,
           Types, TypeCount
  <2> QED BY <1>0, <2>1, <2>2 DEF Newest
<1>3. ASSUME ldd_start_xmit(d) PROVE Newest(d)' >= Newest(d)
  <2>1. xpc[d] = "idle" /\ Path(d, "wire", None, 0, sent[d] + 1) /\ sent'[d] = sent[d] + 1
        /\ sent[d] \in Nat
        BY <1>3, Zenon DEF ldd_start_xmit, MaySend, Types, TypeCount
  <2>2. irq'[d] = None /\ pkt'[d] = sent[d] + 1 /\ pkt[d] = 0
        BY <2>1, Zenon DEF Path, Types, TypeXmit, Shape, XmitShape
  <2> QED BY <2>1, <2>2, SMTT(30) DEF Newest
<1>4. ASSUME ldd_start_xmit_drop(d) PROVE Newest(d)' >= Newest(d)
  <2>1. UNCHANGED <<irq, pkt>> /\ sent'[d] = sent[d] + 1 /\ sent[d] \in Nat
        BY <1>4, Zenon DEF ldd_start_xmit_drop, MaySend, x, Types, TypeCount
  <2> QED BY <2>1 DEF Newest
<1>5. ASSUME Xmit(d) PROVE Newest(d)' >= Newest(d)
  <2>1. sent' = sent
        BY <1>5, ZenonT(40) DEF Xmit, ldd_rx_enqueue, TxInterrupt,
           ldd_ack_interrupt, ldd_regular_interrupt, ldd_napi_interrupt, XmitRelease, XmitWake,
           HandlerEnd
  <2>2. (irq'[d] = None /\ pkt'[d] # 0) => irq[d] = None /\ pkt[d] # 0
    <3>1. ASSUME ldd_rx_enqueue(d)
          PROVE  (irq'[d] = None /\ pkt'[d] # 0) => irq[d] = None /\ pkt[d] # 0
          BY <3>1, Enqueue, ZenonT(40) DEF Path, Goto, Types, TypeXmit
    <3>2. ASSUME ldd_regular_interrupt(d)
          PROVE  irq'[d] # None
          BY <3>2 DEF ldd_regular_interrupt, Path, Types, TypeXmit, Shape, XmitShape, Dev, None
    <3> QED BY <1>5, <3>1, <3>2, ZenonT(40)
            DEF Xmit, TxInterrupt, ldd_ack_interrupt, ldd_napi_interrupt,
               XmitRelease, XmitWake, HandlerEnd, Path, Goto, Types, TypeXmit
  <2>3. sent[d] \in Nat
        BY Zenon DEF Types, TypeCount
  <2> QED BY <2>1, <2>2, <2>3 DEF Newest
<1>6. Newest(d)' \in Nat
  <2>1. Base'
        BY BaseKept, Zenon
  <2> QED BY <2>1 DEF Types, TypeXmit, TypeCount, Shape, XmitShape, Newest
<1> QED BY <1>1, <1>2, <1>3, <1>4, <1>5, <1>6, PollFrame, LinkFrame, LoadFrame
        DEF Next, Send, Unloaded, vars, x

\* What the steps of all the threads do to the stream of frames to d.
LEMMA StreamSteps ==
  ASSUME Base, Next, NEW d \in Dev
  PROVE  StreamStep(d)
<1> USE DEF Base
<1>0. PICK e \in Dev : e = ldd_peer(d) /\ e # d /\ ldd_peer(e) = d /\ \A c \in Dev : c = d \/ c = e
      BY Twins, Zenon
<1>n. d # None
      BY DEF Dev, None
<1>1. ASSUME rxq'[d] = rxq[d], passed'[d] = passed[d], ppkt'[d] = ppkt[d], UNCHANGED <<irq, pkt>>
      PROVE  StreamStep(d)
      BY <1>1, Zenon DEF StreamStep, StreamKept, HandsKept, In
<1>2. ASSUME NEW c \in Dev, Send(c) \/ Xmit(c)
      PROVE  ppkt'[d] = ppkt[d] /\ \A z \in Dev : z # c => In(z, d)' = In(z, d)
      BY <1>2, OnePath, XmitFrame, Zenon DEF In
<1>3. ASSUME NEW c \in Dev, Send(c) \/ Xmit(c), rxq'[d] = rxq[d], passed'[d] = passed[d],
             In(c, d)' = In(c, d)
      PROVE  StreamStep(d)
      BY <1>2, <1>3, Zenon DEF StreamStep, StreamKept, HandsKept
<1>4. ASSUME NEW c \in Dev, ldd_start_xmit(c) PROVE StreamStep(d)
  <2>1. UNCHANGED <<rxq, passed>> /\ xpc[c] = "idle" /\ irq'[c] = None
        BY <1>4, Zenon DEF ldd_start_xmit, ldd_get_tx_buffer, MaySend, Path, Types, TypeXmit
  <2>2. In(c, d)' = 0 /\ In(c, d) = 0
        BY <1>n, <2>1, Zenon DEF In, Shape, XmitShape
  <2> QED BY <1>3, <1>4, <2>1, <2>2, Zenon DEF Send
<1>5. ASSUME NEW c \in Dev, ldd_start_xmit_drop(c) PROVE StreamStep(d)
      BY <1>1, <1>5, Zenon DEF ldd_start_xmit_drop, priv, x, p
<1>6. ASSUME NEW c \in Dev, ldd_rx_enqueue(c) PROVE StreamStep(d)
  <2>1. Xmit(c) /\ xpc[c] = "wire" /\ irq[c] = None /\ pkt[c] = sent[c] /\ pkt[c] # 0
        /\ UNCHANGED <<passed, sent>> /\ sent[c] \in Nat
        BY <1>6, Zenon DEF Xmit, ldd_rx_enqueue, Shape, XmitShape, Types, TypeCount
  <2>2. In(c, d) = 0
        BY <1>n, <2>1, Zenon DEF In
  <2>3. CASE ~running[ldd_peer(c)]
    <3>1. UNCHANGED <<rxq, irq, pkt>>
          BY <1>6, <2>3, Enqueue, Zenon DEF Goto
    <3> QED BY <1>2, <1>1, <2>1, <3>1, ZenonT(40)
  <2>4. CASE running[ldd_peer(c)]
    <3>1. rxq'[c] = rxq[c] /\ rxq'[ldd_peer(c)] = Append(rxq[ldd_peer(c)], pkt[c]) /\ pkt'[c] = 0
          BY <1>6, <2>4, Enqueue DEF Path, Types, TypeXmit
    <3>2. In(c, d)' = In(c, d)
          BY <2>2, <3>1, Zenon DEF In
    <3>3. CASE c = d
          BY <1>3, <2>1, <3>1, <3>2, <3>3, Zenon
    <3>4. CASE c = e
      <4>1. Newest(e) = sent[c] - 1 /\ Newest(e)' = sent[c]
            BY <2>1, <3>1, <3>4, Zenon DEF Newest
      <4>2. Newest(e)' > Newest(e)
            BY <2>1, <4>1
      <4>3. rxq'[d] = Append(rxq[d], Newest(e)')
            BY <1>0, <2>1, <3>1, <3>4, <4>1, Zenon
      <4>4. StreamKept(d)
            BY <1>2, <2>1, <3>2, Zenon DEF StreamKept, HandsKept
      <4> QED BY <1>0, <4>2, <4>3, <4>4, Zenon DEF StreamStep
    <3> QED BY <1>0, <3>3, <3>4, Zenon
  <2> QED BY <2>3, <2>4, Zenon
<1>7. ASSUME NEW c \in Dev, TxInterrupt(c) \/ ldd_ack_interrupt(c) \/ ldd_napi_interrupt(c)
                             \/ XmitWake(c) \/ HandlerEnd(c)
      PROVE StreamStep(d)
  <2>1. Xmit(c) /\ UNCHANGED <<rxq, passed>> /\ xpc[c] \notin {"wire", "put"}
        BY <1>7, ZenonT(40) DEF Xmit, TxInterrupt, ldd_ack_interrupt, ldd_napi_interrupt,
           XmitWake, HandlerEnd, priv
  <2>2. pkt'[c] = pkt[c] \/ pkt'[c] = 0
        BY <1>7, ZenonT(40) DEF TxInterrupt, ldd_ack_interrupt, ldd_napi_interrupt, XmitWake,
           HandlerEnd,
           Path, Goto, Types, TypeXmit
  <2>3. pkt[c] = 0
        BY <2>1, ZenonT(40) DEF Shape, XmitShape
  <2>4. In(c, d) = 0 /\ In(c, d)' = 0
        BY <2>2, <2>3, Zenon DEF In
  <2> QED BY <1>3, <2>1, <2>4, Zenon
<1>8. ASSUME NEW c \in Dev, ldd_regular_interrupt(c) PROVE StreamStep(d)
  <2>1. PICK i \in Dev : i = irq[c]
        BY <1>8, Zenon DEF ldd_regular_interrupt, Shape, XmitShape
  <2>2. Xmit(c) /\ xpc[c] = "rx" /\ ldd_rx_dequeue(i) /\ passed' = passed
        BY <1>8, <2>1, Zenon DEF Xmit, ldd_regular_interrupt
  <2>3. irq'[c] = i /\ pkt'[c] = First(i) /\ pkt[c] = 0
        BY <1>8, <2>1, Zenon DEF ldd_regular_interrupt, Path, Types, TypeXmit, Shape, XmitShape
  <2>4. In(c, d) = 0
        BY <2>3, Zenon DEF In
  <2>5. CASE i # d
    <3>1. In(c, d)' = 0
          BY <2>3, <2>5, Zenon DEF In
    <3>2. rxq'[d] = rxq[d]
          BY <1>0, <2>2, <2>5, Dequeue, Zenon
    <3> QED BY <1>3, <2>2, <2>4, <3>1, <3>2, Zenon
  <2>6. CASE i = d /\ Empty(d)
    <3>1. In(c, d)' = 0 /\ rxq'[d] = rxq[d]
          BY <2>2, <2>3, <2>6, Dequeue, Zenon DEF In
    <3> QED BY <1>3, <2>2, <2>4, <3>1, Zenon
  <2>7. CASE i = d /\ ~Empty(d)
    <3>1. In(c, d)' = Head(rxq[d]) /\ Shortens(d)
          BY <2>2, <2>3, <2>7, Dequeue, Zenon DEF In, Shortens, Empty
    <3> QED BY <1>2, <2>2, <3>1, ZenonT(40) DEF StreamStep
  <2> QED BY <2>5, <2>6, <2>7, Zenon
<1>9. ASSUME NEW c \in Dev, XmitRelease(c) PROVE StreamStep(d)
  <2>1. Xmit(c) /\ xpc[c] = "put" /\ pkt[c] # 0 /\ pkt'[c] = 0 /\ irq'[c] = irq[c] /\ rxq' = rxq
        BY <1>9, Zenon DEF Xmit, XmitRelease, ldd_release_buffer, Path, Types, TypeXmit, Shape,
           XmitShape
  <2>2. In(c, d)' = 0
        BY <2>1, Zenon DEF In
  <2>3. CASE irq[c] = None
    <3>1. passed' = passed /\ In(c, d) = 0
          BY <1>9, <1>n, <2>3, Zenon DEF XmitRelease, In
    <3> QED BY <1>3, <2>1, <2>2, <3>1, ZenonT(40)
  <2>4. CASE irq[c] # None /\ irq[c] # d
    <3>1. passed'[d] = passed[d] /\ In(c, d) = 0
          BY <1>9, <2>4, Zenon DEF XmitRelease, ldd_rx, In, Types, TypeCount
    <3> QED BY <1>3, <2>1, <2>2, <3>1, Zenon
  <2>5. CASE irq[c] = d
    <3>1. In(c, d) = pkt[c] /\ In(c, d) # 0
          BY <2>1, <2>5, Zenon DEF In
    <3>2. passed'[d] \in {passed[d], Append(passed[d], pkt[c])}
          BY <1>9, <1>n, <2>5, ZenonT(40) DEF XmitRelease, ldd_rx, Types, TypeCount
    <3>3. Passes(d, In(c, d))
          BY <2>1, <3>1, <3>2, Zenon DEF Passes
    <3> QED BY <1>2, <2>1, <2>2, <3>1, <3>3, ZenonT(40) DEF StreamStep
  <2> QED BY <2>3, <2>4, <2>5, Zenon
<1>10. ASSUME NEW c \in Dev, PollTake(c) PROVE StreamStep(d)
  <2>1. ldd_rx_dequeue(c) /\ ppc[c] = "take" /\ UNCHANGED <<irq, pkt, passed>>
        /\ ppkt'[c] = First(c) /\ \A y \in Dev : y # c => ppkt'[y] = ppkt[y]
        BY <1>10, Zenon DEF PollTake, PollAt, x, Types, TypePoll
  <2>2. ppkt[c] = 0
        BY <2>1, Zenon DEF Shape, PollShape
  <2>3. CASE c # d
        BY <1>0, <1>1, <2>1, <2>3, Dequeue, ZenonT(40)
  <2>4. CASE c = d /\ Empty(d)
        BY <1>1, <2>1, <2>2, <2>4, Dequeue, Zenon
  <2>5. CASE c = d /\ ~Empty(d)
    <3>1. Shortens(d) /\ ppkt'[d] = Head(rxq[d]) /\ passed' = passed
          BY <2>1, <2>5, Dequeue, Zenon DEF Shortens, Empty
    <3>2. \A y \in Dev : In(y, d)' = In(y, d)
          BY <2>1, Zenon DEF In
    <3> QED BY <3>1, <3>2, ZenonT(40) DEF StreamStep
  <2> QED BY <2>3, <2>4, <2>5, Zenon
<1>11. ASSUME NEW c \in Dev, PollRelease(c) PROVE StreamStep(d)
  <2>1. ppc[c] = "put" /\ UNCHANGED <<irq, pkt, rxq>> /\ ldd_rx(c, ppkt[c])
        /\ ppkt'[c] = 0 /\ \A y \in Dev : y # c => ppkt'[y] = ppkt[y]
        BY <1>11, Zenon DEF PollRelease, PollAt, ldd_release_buffer, x, Types, TypePoll
  <2>2. CASE c # d
    <3>1. passed'[d] = passed[d]
          BY <2>1, <2>2, Zenon DEF ldd_rx, Types, TypeCount
    <3> QED BY <1>1, <2>1, <2>2, <3>1, Zenon
  <2>3. CASE c = d
    <3>1. Passes(d, ppkt[d]) /\ ppkt[d] # 0
          BY <2>1, <2>3, Zenon DEF Passes, ldd_rx, Types, TypeCount, Shape, PollShape
    <3>2. \A y \in Dev : In(y, d)' = In(y, d)
          BY <2>1, Zenon DEF In
    <3> QED BY <2>1, <2>3, <3>1, <3>2, ZenonT(40) DEF StreamStep
  <2> QED BY <2>2, <2>3, Zenon
<1>12. ASSUME NEW c \in Dev, ldd_poll(c) \/ PollTail(c), ~PollTake(c), ~PollRelease(c)
       PROVE  StreamStep(d)
  <2>1. UNCHANGED <<rxq, irq, pkt, passed>>
        BY <1>12, ZenonT(40) DEF ldd_poll, PollStart, PollBudget, PollWake, PollComplete,
           PollTail, PollLook,
           PollAgain, priv, x
  <2>2. \/ ppkt' = ppkt
        \/ ppc[c] # "put" /\ ppkt'[c] = 0 /\ \A y \in Dev : y # c => ppkt'[y] = ppkt[y]
        BY <1>12, Zenon DEF ldd_poll, PollStart, PollBudget, PollWake, PollComplete, PollTail,
           PollLook,
           PollAgain, PollAt, p, Types, TypePoll
  <2>3. ppkt'[d] = ppkt[d]
        BY <2>2, Zenon DEF Shape, PollShape
  <2> QED BY <1>1, <2>1, <2>3, Zenon
<1>13. ASSUME StopDrain PROVE StreamStep(d)
  <2>1. PICK c \in Dev : c = link.dev
        BY <1>13, LinkDev, Zenon DEF ldd_stop
  <2>2. ldd_rx_dequeue(c) /\ UNCHANGED <<irq, pkt, ppkt, passed>>
        BY <1>13, <2>1, Zenon DEF StopDrain, x, p
  <2>3. CASE c # d \/ Empty(d)
        BY <1>0, <1>1, <2>2, <2>3, Dequeue, ZenonT(40)
  <2>4. CASE c = d /\ ~Empty(d)
        BY <2>2, <2>4, Dequeue, Zenon DEF StreamStep, StreamKept, HandsKept, Shortens, Empty, In
  <2> QED BY <2>3, <2>4, Zenon
<1>14. ASSUME NEW c \in Dev, LinkUp(c) \/ LinkDown(c) PROVE StreamStep(d)
       BY <1>1, <1>14 DEF LinkUp, LinkDown, priv, x, p
<1>15. ASSUME ldd_open \/ StopReceive \/ NapiDisabled \/ StopRelease \/ StopWake PROVE StreamStep(d)
       BY <1>1, <1>15, Zenon DEF ldd_open, StopReceive, NapiDisabled, StopRelease,
          StopWake, ldd_release_buffer, priv, x, p
<1>16. ASSUME ldd_create \/ Register \/ m_exit \/ ldd_destroy \/ Unloaded PROVE StreamStep(d)
       BY <1>1, <1>16, LoadFrame, Zenon DEF Unloaded, vars, priv, x, p
<1> QED BY <1>4, <1>5, <1>6, <1>7, <1>8, <1>9, <1>10, <1>11, <1>12, <1>13, <1>14, <1>15, <1>16,
           ZenonT(40)
        DEF Next, Send, Xmit, ldd_stop

\* Frame n left the sender, and left the queue of d ahead of those still in it.
Before(n, d) == n <= Newest(ldd_peer(d)) /\ \A i \in 1..Len(rxq[d]) : n < rxq[d][i]

\* Frame n was passed up by d, or is in the hands of a thread that took it.
Out(n, d) ==
  \/ \E k \in 1..Len(passed[d]) : passed[d][k] = n
  \/ n # 0 /\ ((\E y \in Dev : In(y, d) = n) \/ ppkt[d] = n)

\* The queue is sorted; what was taken or passed up is older than what is queued;
\* what is still in hand was not passed up, and no two threads hold it.
QueueOrder ==
  \A d \in Dev :
    /\ \A i, j \in 1..Len(rxq[d]) : i < j => rxq[d][i] < rxq[d][j]
    /\ \A i \in 1..Len(rxq[d]) : rxq[d][i] <= Newest(ldd_peer(d))
OutOrder == \A d \in Dev, n \in Nat : Out(n, d) => Before(n, d)
HandOrder ==
  \A d \in Dev :
    /\ \A y \in Dev : In(y, d) # 0 => \A k \in 1..Len(passed[d]) : passed[d][k] # In(y, d)
    /\ \A y, z \in Dev : y # z /\ In(y, d) # 0 => In(y, d) # In(z, d)
    /\ ppkt[d] # 0 => \A k \in 1..Len(passed[d]) : passed[d][k] < ppkt[d]
PassedOrder ==
  \A d \in Dev : \A i, j \in 1..Len(passed[d]) :
    i < j => IF use_napi THEN passed[d][i] < passed[d][j]
             ELSE passed[d][i] # passed[d][j]
Order == QueueOrder /\ OutOrder /\ HandOrder /\ PassedOrder

\* A handler takes packets without NAPI, a poll with it.
LEMMA OneWay ==
  ASSUME Base, NEW d \in Dev
  PROVE  /\ \A y \in Dev : In(y, d) # 0 => ~use_napi
         /\ ppkt[d] # 0 => use_napi
<1>1. ASSUME NEW y \in Dev, In(y, d) # 0 PROVE ~use_napi
  <2>1. irq[y] = d /\ pkt[y] # 0
        BY <1>1, Zenon DEF In
  <2> QED BY <2>1 DEF Base, Shape, XmitShape, Dev, None
<1>2. ASSUME ppkt[d] # 0 PROVE use_napi
  <2>1. ppc[d] = "put"
        BY <1>2, Zenon DEF Base, Shape, PollShape
  <2>2. napi[d].state = "sched"
        BY <2>1, Zenon DEF Base, Runs, NapiRuns
  <2> QED BY <2>2, Zenon DEF Base, Runs, NapiRuns
<1> QED BY <1>1, <1>2, Zenon

\* What is older than the queue stays so, and than what leaves it.
LEMMA BeforeKept ==
  ASSUME Base, Next, NEW d \in Dev, NEW n \in Nat, Before(n, d)
  PROVE  /\ Before(n, d)'
         /\ Shortens(d) => n < Head(rxq[d])
<1> USE DEF Base
<1>0. PICK e \in Dev : e = ldd_peer(d)
      BY Twins, Zenon
<1> DEFINE b == Newest(e)
<1>1. b \in Nat /\ b' \in Nat /\ b' >= b
      BY NewestType, NewestGrows, Zenon
<1>2. rxq[d] \in Seq(Nat) /\ n <= b /\ \A i \in 1..Len(rxq[d]) : n < rxq[d][i]
      BY <1>0, Zenon DEF Before, Types, TypePriv
<1>3. n <= b'
  <2> HIDE DEF b
  <2> QED BY <1>1, <1>2
<1>4. ASSUME rxq'[d] = rxq[d] PROVE Before(n, d)'
      BY <1>0, <1>2, <1>3, <1>4, Zenon DEF Before
<1>5. ASSUME Shortens(d) PROVE Before(n, d)'
  <2>1. rxq[d] # <<>> /\ rxq'[d] = Tail(rxq[d])
        BY <1>5, Zenon DEF Shortens
  <2>2. ASSUME NEW i \in 1..Len(rxq'[d]) PROVE n < rxq'[d][i]
    <3>1. i \in 1..(Len(rxq[d]) - 1) /\ i + 1 \in 1..Len(rxq[d])
          BY <1>2, <2>1, <2>2, Tailed
    <3> QED BY <1>2, <2>1, <3>1, Tailed
  <2> QED BY <1>0, <1>3, <2>2, Zenon DEF Before
<1>6. ASSUME rxq'[d] = Append(rxq[d], b') /\ b' > b PROVE Before(n, d)'
  <2>1. ASSUME NEW i \in 1..Len(rxq'[d]) PROVE n < rxq'[d][i]
    <3> HIDE DEF b
    <3>1. Len(rxq[d]) \in Nat /\ (i \in 1..Len(rxq[d]) \/ i = Len(rxq[d]) + 1)
          BY <1>1, <1>2, <1>6, <2>1, Appended
    <3>2. CASE i \in 1..Len(rxq[d])
          BY <1>1, <1>2, <1>6, <3>2, Appended
    <3>3. CASE i = Len(rxq[d]) + 1
      <4>1. rxq'[d][i] = b'
            BY <1>1, <1>2, <1>6, <3>3, Appended
      <4> QED BY <1>1, <1>2, <1>6, <4>1
    <3> QED BY <3>1, <3>2, <3>3, Zenon
  <2> QED BY <1>0, <1>3, <2>1, Zenon DEF Before
<1>7. Shortens(d) => n < Head(rxq[d])
  <2> SUFFICES ASSUME Shortens(d) PROVE n < Head(rxq[d])
        BY Zenon
  <2>1. rxq[d] # <<>>
        BY Zenon DEF Shortens
  <2>2. 1 \in 1..Len(rxq[d]) /\ Head(rxq[d]) = rxq[d][1]
        BY <1>2, <2>1, Tailed
  <2> QED BY <1>2, <2>2, Zenon
<1> QED BY <1>0, <1>4, <1>5, <1>6, <1>7, StreamSteps, Zenon DEF StreamStep, Passes

\* The packet that leaves a sorted queue is older than the rest of it.
LEMMA HeadBefore ==
  ASSUME Base, Next, QueueOrder, NEW d \in Dev, Shortens(d), NEW h, h = Head(rxq[d])
  PROVE  h \in Nat /\ Before(h, d)'
<1> USE DEF Base
<1>0. PICK e \in Dev : e = ldd_peer(d)
      BY Twins, Zenon
<1> DEFINE b == Newest(e)
<1>1. b \in Nat /\ b' \in Nat /\ b' >= b
      BY NewestType, NewestGrows, Zenon
<1>2. rxq[d] \in Seq(Nat) /\ rxq[d] # <<>> /\ rxq'[d] = Tail(rxq[d])
      BY Zenon DEF Shortens, Types, TypePriv
<1>3. 1 \in 1..Len(rxq[d]) /\ h = rxq[d][1] /\ h \in Nat
      BY <1>2, Tailed
<1>4. h <= b
      BY <1>0, <1>3, Zenon DEF QueueOrder
<1>5. h <= b'
  <2> HIDE DEF b
  <2> QED BY <1>1, <1>3, <1>4
<1>6. ASSUME NEW i \in 1..Len(rxq'[d]) PROVE h < rxq'[d][i]
  <2>1. i \in 1..(Len(rxq[d]) - 1) /\ i + 1 \in 1..Len(rxq[d]) /\ 1 < i + 1
        BY <1>2, <1>6, Tailed
  <2>2. rxq'[d][i] = rxq[d][i + 1]
        BY <1>2, <2>1, Tailed, Zenon
  <2> QED BY <1>3, <2>1, <2>2, Zenon DEF QueueOrder
<1> QED BY <1>0, <1>3, <1>5, <1>6, Zenon DEF Before

\* A packet leaves from the front of the queue and enters, newest, at its end.
LEMMA QueueOrderKept ==
  ASSUME Base, Next, QueueOrder
  PROVE  QueueOrder'
<1> USE DEF Base
<1> SUFFICES ASSUME NEW d \in Dev, NEW e \in Dev, e = ldd_peer(d)
             PROVE  /\ \A i, j \in 1..Len(rxq'[d]) : i < j => rxq'[d][i] < rxq'[d][j]
                    /\ \A i \in 1..Len(rxq'[d]) : rxq'[d][i] <= Newest(e)'
      BY Twins, Zenon DEF QueueOrder
<1> DEFINE b == Newest(e)
<1>1. b \in Nat /\ b' \in Nat /\ b' >= b
      BY NewestType, NewestGrows, Zenon
<1>2. /\ rxq[d] \in Seq(Nat)
      /\ \A i, j \in 1..Len(rxq[d]) : i < j => rxq[d][i] < rxq[d][j]
      /\ \A i \in 1..Len(rxq[d]) : rxq[d][i] <= b
      BY Zenon DEF QueueOrder, Types, TypePriv
<1>3. \A i \in 1..Len(rxq[d]) : rxq[d][i] <= b' /\ rxq[d][i] \in Nat
  <2> HIDE DEF b
  <2> SUFFICES ASSUME NEW i \in 1..Len(rxq[d]) PROVE rxq[d][i] <= b' /\ rxq[d][i] \in Nat
        BY Zenon
  <2>1. rxq[d][i] \in Nat /\ rxq[d][i] <= b
        BY <1>2, SMTT(30)
  <2> QED BY <1>1, <2>1
<1> DEFINE Goal == /\ \A i, j \in 1..Len(rxq'[d]) : i < j => rxq'[d][i] < rxq'[d][j]
                   /\ \A i \in 1..Len(rxq'[d]) : rxq'[d][i] <= b'
<1>4. ASSUME rxq'[d] = rxq[d] PROVE Goal
      BY <1>2, <1>3, <1>4, Zenon
<1>5. ASSUME Shortens(d) PROVE Goal
  <2>1. rxq[d] # <<>> /\ rxq'[d] = Tail(rxq[d])
        BY <1>5, Zenon DEF Shortens
  <2>2. \A i \in 1..Len(rxq'[d]) : i \in Int /\ i + 1 \in 1..Len(rxq[d]) /\ rxq'[d][i] = rxq[d][i + 1]
        BY <1>2, <2>1, Tailed
  <2>3. ASSUME NEW i \in 1..Len(rxq'[d]) PROVE rxq'[d][i] <= b'
        BY <1>3, <2>2, Zenon
  <2>4. ASSUME NEW i \in 1..Len(rxq'[d]), NEW j \in 1..Len(rxq'[d]), i < j
        PROVE  rxq'[d][i] < rxq'[d][j]
    <3>1. i + 1 \in 1..Len(rxq[d]) /\ j + 1 \in 1..Len(rxq[d]) /\ i + 1 < j + 1
          BY <2>2, <2>4
    <3> QED BY <1>2, <2>2, <3>1, Zenon
  <2> QED BY <2>3, <2>4, Zenon
<1>6. ASSUME rxq'[d] = Append(rxq[d], b'), b' > b PROVE Goal
  <2>0. Len(rxq[d]) \in Nat
        BY <1>2
  <2>1. \A i \in 1..Len(rxq'[d]) : \/ i \in 1..Len(rxq[d]) /\ rxq'[d][i] = rxq[d][i]
                                   \/ i = Len(rxq[d]) + 1 /\ rxq'[d][i] = b'
    <3> HIDE DEF b
    <3> SUFFICES ASSUME NEW i \in 1..Len(rxq'[d])
                 PROVE  \/ i \in 1..Len(rxq[d]) /\ rxq'[d][i] = rxq[d][i]
                        \/ i = Len(rxq[d]) + 1 /\ rxq'[d][i] = b'
          BY Zenon
    <3>1. i \in 1..Len(rxq[d]) \/ i = Len(rxq[d]) + 1
          BY <1>1, <1>2, <1>6, Appended
    <3> QED BY <1>1, <1>2, <1>6, <3>1, Appended
  <2>2. ASSUME NEW i \in 1..Len(rxq'[d]) PROVE rxq'[d][i] <= b'
    <3> HIDE DEF b
    <3> QED BY <1>1, <1>3, <2>1
  <2>3. ASSUME NEW i \in 1..Len(rxq'[d]), NEW j \in 1..Len(rxq'[d]), i < j
        PROVE  rxq'[d][i] < rxq'[d][j]
    <3> HIDE DEF b
    <3>1. i \in 1..Len(rxq[d]) /\ rxq'[d][i] = rxq[d][i]
          BY <2>0, <2>1, <2>3
    <3>2. CASE j \in 1..Len(rxq[d]) /\ rxq'[d][j] = rxq[d][j]
          BY <1>2, <2>3, <3>1, <3>2, Zenon
    <3>3. CASE rxq'[d][j] = b'
      <4>1. rxq[d][i] <= b /\ rxq[d][i] \in Nat
            BY <1>2, <1>3, <3>1, Zenon
      <4> QED BY <1>1, <1>6, <3>1, <3>3, <4>1
    <3> QED BY <2>1, <3>2, <3>3, Zenon
  <2> QED BY <2>2, <2>3, Zenon
<1> HIDE DEF Goal
<1>7. Goal
      BY <1>4, <1>5, <1>6, StreamSteps, ZenonT(40) DEF StreamStep, Passes
<1> QED BY <1>7, Zenon DEF Goal

\* A frame that is passed up was in hand, one that is taken was first in the queue.
LEMMA PassedSteps ==
  ASSUME Base, NEW d \in Dev, NEW v \in Nat, passed'[d] \in {passed[d], Append(passed[d], v)}
  PROVE  /\ Len(passed[d]) \in Nat
         /\ \A i \in 1..Len(passed[d]) : passed[d][i] \in Nat
         /\ \A i \in 1..Len(passed'[d]) : \/ i \in 1..Len(passed[d]) /\ passed'[d][i] = passed[d][i]
                                          \/ i = Len(passed[d]) + 1 /\ passed'[d][i] = v
<1>1. passed[d] \in Seq(Nat)
      BY Zenon DEF Base, Types, TypeCount
<1>2. Len(passed[d]) \in Nat /\ \A i \in 1..Len(passed[d]) : passed[d][i] \in Nat
      BY <1>1, SMTT(30)
<1>3. CASE passed'[d] = passed[d]
      BY <1>3, <1>2, Zenon
<1>4. CASE passed'[d] = Append(passed[d], v)
  <2> SUFFICES ASSUME NEW i \in 1..Len(passed'[d])
               PROVE  \/ i \in 1..Len(passed[d]) /\ passed'[d][i] = passed[d][i]
                      \/ i = Len(passed[d]) + 1 /\ passed'[d][i] = v
        BY <1>2, Zenon
  <2>1. i \in 1..Len(passed[d]) \/ i = Len(passed[d]) + 1
        BY <1>1, <1>4, Appended
  <2> QED BY <1>1, <1>4, <2>1, Appended
<1> QED BY <1>3, <1>4, Zenon

\* A frame comes out of the queue only from its front.
LEMMA OutKept ==
  ASSUME Base, Next, NEW d \in Dev, NEW n \in Nat, Out(n, d)'
  PROVE  Out(n, d) \/ (Shortens(d) /\ n = Head(rxq[d]))
<1>1. ASSUME StreamKept(d) PROVE Out(n, d)
      BY <1>1, Zenon DEF StreamKept, HandsKept, Out
<1>2. ASSUME Shortens(d), passed'[d] = passed[d], ppkt'[d] = ppkt[d],
             NEW y \in Dev, In(y, d)' = Head(rxq[d]), \A z \in Dev : z # y => In(z, d)' = In(z, d)
      PROVE  Out(n, d) \/ n = Head(rxq[d])
      BY <1>2, Zenon DEF Out
<1>3. ASSUME Shortens(d), passed'[d] = passed[d], ppkt'[d] = Head(rxq[d]),
             \A y \in Dev : In(y, d)' = In(y, d)
      PROVE  Out(n, d) \/ n = Head(rxq[d])
      BY <1>3, Zenon DEF Out
<1>4. ASSUME NEW v \in Nat, v # 0, Passes(d, v), \A y \in Dev : In(y, d)' \in {0, In(y, d)},
             ppkt'[d] \in {0, ppkt[d]}, Out(v, d)
      PROVE  Out(n, d)
  <2>1. CASE \E k \in 1..Len(passed'[d]) : passed'[d][k] = n
    <3>1. PICK k \in 1..Len(passed'[d]) : passed'[d][k] = n
          BY <2>1, Zenon
    <3>2. \/ k \in 1..Len(passed[d]) /\ passed'[d][k] = passed[d][k]
          \/ passed'[d][k] = v
          BY <1>4, PassedSteps, ZenonT(40) DEF Passes
    <3> QED BY <1>4, <3>1, <3>2 DEF Out
  <2>2. CASE n # 0 /\ ((\E y \in Dev : In(y, d)' = n) \/ ppkt'[d] = n)
        BY <1>4, <2>2 DEF Out
  <2> QED BY <2>1, <2>2, Zenon DEF Out
<1>5. ASSUME NEW y \in Dev, In(y, d) # 0, Passes(d, In(y, d)), ppkt'[d] = ppkt[d],
             In(y, d)' = 0, \A z \in Dev : z # y => In(z, d)' = In(z, d)
      PROVE  Out(n, d)
  <2>1. PICK v \in Nat : v = In(y, d)
        BY NewestType, Zenon
  <2>2. Out(v, d) /\ v # 0 /\ Passes(d, v) /\ ppkt'[d] \in {0, ppkt[d]}
        BY <1>5, <2>1, Zenon DEF Out
  <2>3. \A z \in Dev : In(z, d)' \in {0, In(z, d)}
        BY <1>5
  <2> QED BY <1>4, <2>2, <2>3, Zenon
<1>6. ASSUME ppkt[d] # 0, Passes(d, ppkt[d]), ppkt'[d] = 0, \A y \in Dev : In(y, d)' = In(y, d)
      PROVE  Out(n, d)
  <2>1. PICK v \in Nat : v = ppkt[d]
        BY Zenon DEF Base, Types, TypePoll
  <2>2. Out(v, d) /\ v # 0 /\ Passes(d, v) /\ ppkt'[d] \in {0, ppkt[d]}
        BY <1>6, <2>1, Zenon DEF Out
  <2>3. \A z \in Dev : In(z, d)' \in {0, In(z, d)}
        BY <1>6, Zenon
  <2> QED BY <1>4, <2>2, <2>3, Zenon
<1> QED BY <1>1, <1>2, <1>3, <1>5, <1>6, StreamSteps, ZenonT(40) DEF StreamStep

\* Frames that came out of the queue stay older than those in it.
LEMMA OutOrderKept ==
  ASSUME Base, Next, QueueOrder, OutOrder
  PROVE  OutOrder'
<1> SUFFICES ASSUME NEW d \in Dev, NEW n \in Nat, Out(n, d)'
             PROVE  Before(n, d)'
      BY Zenon DEF OutOrder
<1>1. CASE Out(n, d)
      BY <1>1, BeforeKept, Zenon DEF OutOrder
<1>2. CASE Shortens(d) /\ n = Head(rxq[d])
      BY <1>2, HeadBefore, Zenon
<1> QED BY <1>1, <1>2, OutKept, Zenon

\* A frame in hand was not passed up yet, and no two threads hold it.
LEMMA HandOrderKept ==
  ASSUME Base, Next, QueueOrder, OutOrder, HandOrder
  PROVE  HandOrder'
<1> SUFFICES ASSUME NEW d \in Dev
             PROVE  /\ \A y \in Dev : In(y, d)' # 0 =>
                         \A k \in 1..Len(passed'[d]) : passed'[d][k] # In(y, d)'
                    /\ \A y, z \in Dev : y # z /\ In(y, d)' # 0 => In(y, d)' # In(z, d)'
                    /\ ppkt'[d] # 0 => \A k \in 1..Len(passed'[d]) : passed'[d][k] < ppkt'[d]
      BY Zenon DEF HandOrder
<1> DEFINE Goal == /\ \A y \in Dev : In(y, d)' # 0 =>
                         \A k \in 1..Len(passed'[d]) : passed'[d][k] # In(y, d)'
                   /\ \A y, z \in Dev : y # z /\ In(y, d)' # 0 => In(y, d)' # In(z, d)'
                   /\ ppkt'[d] # 0 => \A k \in 1..Len(passed'[d]) : passed'[d][k] < ppkt'[d]
<1>0. /\ \A y \in Dev : In(y, d) # 0 => \A k \in 1..Len(passed[d]) : passed[d][k] # In(y, d)
      /\ \A y, z \in Dev : y # z /\ In(y, d) # 0 => In(y, d) # In(z, d)
      /\ ppkt[d] # 0 => \A k \in 1..Len(passed[d]) : passed[d][k] < ppkt[d]
      BY Zenon DEF HandOrder
<1>1. ASSUME StreamKept(d) PROVE Goal
      BY <1>0, <1>1, Zenon DEF StreamKept, HandsKept
\* what is out is older than the packet taken from the queue
<1>2. ASSUME Shortens(d), NEW n \in Nat, Out(n, d) PROVE n < Head(rxq[d])
      BY <1>2, BeforeKept, Zenon DEF OutOrder
<1>3. /\ \A k \in 1..Len(passed[d]) : passed[d][k] \in Nat /\ Out(passed[d][k], d)
      /\ \A y \in Dev : In(y, d) \in Nat /\ (In(y, d) # 0 => Out(In(y, d), d))
  <2>1. \A k \in 1..Len(passed[d]) : passed[d][k] \in Nat
        BY DEF Base, Types, TypeCount
  <2> QED BY <2>1, NewestType, Zenon DEF Out
<1>4. ASSUME Shortens(d), passed'[d] = passed[d], ppkt'[d] = ppkt[d],
             NEW y \in Dev, In(y, d)' = Head(rxq[d]), \A z \in Dev : z # y => In(z, d)' = In(z, d)
      PROVE  Goal
  <2>0. Head(rxq[d]) \in Nat
        BY <1>4, HeadBefore
  <2>1. \A k \in 1..Len(passed[d]) : passed[d][k] < Head(rxq[d]) /\ passed[d][k] \in Nat
        BY <1>2, <1>3, <1>4, Zenon
  <2>2. \A z \in Dev : In(z, d) # 0 => In(z, d) < Head(rxq[d]) /\ In(z, d) \in Nat
        BY <1>2, <1>3, <1>4, Zenon
  <2>3. ASSUME NEW z \in Dev, In(z, d)' # 0, NEW k \in 1..Len(passed'[d]) PROVE passed'[d][k] # In(z, d)'
    <3>1. CASE z = y
          BY <1>4, <2>0, <2>1, <3>1
    <3>2. CASE z # y
          BY <1>0, <1>4, <2>3, <3>2, Zenon
    <3> QED BY <3>1, <3>2, Zenon
  <2>4. ASSUME NEW z \in Dev, NEW w \in Dev, z # w, In(z, d)' # 0 PROVE In(z, d)' # In(w, d)'
    <3>1. CASE z = y
      <4>1. In(z, d)' = Head(rxq[d]) /\ In(w, d)' = In(w, d)
            BY <1>4, <2>4, <3>1, Zenon
      <4> QED BY <2>0, <2>2, <2>4, <4>1
    <3>2. CASE w = y
      <4>1. In(w, d)' = Head(rxq[d]) /\ In(z, d)' = In(z, d)
            BY <1>4, <2>4, <3>2, Zenon
      <4> QED BY <2>0, <2>2, <2>4, <4>1
    <3>3. CASE z # y /\ w # y
          BY <1>0, <1>4, <2>4, <3>3, Zenon
    <3> QED BY <3>1, <3>2, <3>3, Zenon
  <2>5. ppkt'[d] # 0 => \A k \in 1..Len(passed'[d]) : passed'[d][k] < ppkt'[d]
        BY <1>0, <1>4, Zenon
  <2> QED BY <2>3, <2>4, <2>5, Zenon
<1>5. ASSUME Shortens(d), passed'[d] = passed[d], ppkt'[d] = Head(rxq[d]),
             \A y \in Dev : In(y, d)' = In(y, d)
      PROVE  Goal
  <2>1. \A k \in 1..Len(passed[d]) : passed[d][k] < Head(rxq[d])
        BY <1>2, <1>3, <1>5
  <2> QED BY <1>0, <1>5, <2>1
<1>6. ASSUME NEW y \in Dev, In(y, d) # 0, Passes(d, In(y, d)), ppkt'[d] = ppkt[d],
             In(y, d)' = 0, \A z \in Dev : z # y => In(z, d)' = In(z, d)
      PROVE  Goal
  <2>1. ppkt'[d] = 0
        BY <1>6, OneWay, Zenon
  <2>2. \A k \in 1..Len(passed'[d]) : \/ k \in 1..Len(passed[d]) /\ passed'[d][k] = passed[d][k]
                                      \/ passed'[d][k] = In(y, d)
        BY <1>3, <1>6, PassedSteps, Zenon DEF Passes
  <2>3. ASSUME NEW z \in Dev, In(z, d)' # 0, NEW k \in 1..Len(passed'[d]) PROVE passed'[d][k] # In(z, d)'
    <3>1. z # y /\ In(z, d)' = In(z, d) /\ In(z, d) # 0
          BY <1>6, <2>3
    <3> QED BY <1>0, <2>2, <3>1, ZenonT(40)
  <2>4. ASSUME NEW z \in Dev, NEW w \in Dev, z # w, In(z, d)' # 0 PROVE In(z, d)' # In(w, d)'
        BY <1>0, <1>6, <2>4, Zenon
  <2> QED BY <2>1, <2>3, <2>4, Zenon
<1>7. ASSUME ppkt[d] # 0, ppkt'[d] = 0, \A y \in Dev : In(y, d)' = In(y, d)
      PROVE  Goal
  <2>1. \A y \in Dev : In(y, d)' = 0
        BY <1>7, OneWay, Zenon
  <2> QED BY <1>7, <2>1, ZenonT(40)
<1> HIDE DEF Goal
<1>8. Goal
      BY <1>1, <1>4, <1>5, <1>6, <1>7, StreamSteps, ZenonT(40) DEF StreamStep
<1> QED BY <1>8, Zenon DEF Goal

\* Frames keep going up once, with NAPI in order.
LEMMA PassedOrderKept ==
  ASSUME Base, Next, HandOrder, PassedOrder
  PROVE  PassedOrder'
<1>0. use_napi' = use_napi
      BY XmitFrame, PollFrame, LinkFrame, LoadFrame, Zenon DEF Next, Unloaded, vars, param
<1> SUFFICES ASSUME NEW d \in Dev, NEW i \in 1..Len(passed'[d]), NEW j \in 1..Len(passed'[d]), i < j
             PROVE  IF use_napi THEN passed'[d][i] < passed'[d][j] ELSE passed'[d][i] # passed'[d][j]
      BY <1>0, Zenon DEF PassedOrder
<1> DEFINE Goal == IF use_napi THEN passed'[d][i] < passed'[d][j] ELSE passed'[d][i] # passed'[d][j]
<1>1. ASSUME passed'[d] = passed[d] PROVE Goal
      BY <1>1, Zenon DEF PassedOrder
<1>2. ASSUME NEW v \in Nat, Passes(d, v), \A k \in 1..Len(passed[d]) :
               IF use_napi THEN passed[d][k] < v ELSE passed[d][k] # v
      PROVE  Goal
  <2>1. /\ Len(passed[d]) \in Nat
        /\ \A k \in 1..Len(passed'[d]) : \/ k \in 1..Len(passed[d]) /\ passed'[d][k] = passed[d][k]
                                         \/ k = Len(passed[d]) + 1 /\ passed'[d][k] = v
        BY <1>2, PassedSteps, Zenon DEF Passes
  <2>2. i \in 1..Len(passed[d]) /\ passed'[d][i] = passed[d][i]
        BY <2>1
  <2>3. CASE j \in 1..Len(passed[d]) /\ passed'[d][j] = passed[d][j]
        BY <2>2, <2>3, Zenon DEF PassedOrder
  <2>4. CASE passed'[d][j] = v
        BY <1>2, <2>2, <2>4, Zenon
  <2> QED BY <2>1, <2>3, <2>4, Zenon
<1>3. ASSUME NEW y \in Dev, In(y, d) # 0, Passes(d, In(y, d)) PROVE Goal
  <2>1. In(y, d) \in Nat /\ ~use_napi
        BY <1>3, NewestType, OneWay, Zenon
  <2>2. \A k \in 1..Len(passed[d]) : passed[d][k] # In(y, d)
        BY <1>3, Zenon DEF HandOrder
  <2> HIDE DEF Goal
  <2> QED BY <1>2, <1>3, <2>1, <2>2
<1>4. ASSUME ppkt[d] # 0, Passes(d, ppkt[d]) PROVE Goal
  <2>1. ppkt[d] \in Nat /\ use_napi
        BY <1>4, OneWay, Zenon DEF Base, Types, TypePoll
  <2>2. \A k \in 1..Len(passed[d]) : passed[d][k] < ppkt[d]
        BY <1>4, ZenonT(40) DEF HandOrder
  <2> HIDE DEF Goal
  <2> QED BY <1>2, <1>4, <2>1, <2>2, Zenon
<1> HIDE DEF Goal
<1>5. Goal
      BY <1>1, <1>3, <1>4, StreamSteps, Zenon DEF StreamStep, StreamKept
<1> QED BY <1>5, Zenon DEF Goal

-------------------------------------------------------------------------------
(* No thread uses a freed device.                                          *)

\* No thread of device d is under way, and none can start.
Quiet(d) == /\ xpc[d] = "idle" /\ ppc[d] = "idle" /\ tail[d] = "none"
            /\ ~up[d] /\ link.dev # d

\* How far insmod or rmmod is says what has become of each device.
Loading ==
  load.pc \in {"create", "register"} =>
    /\ load.i < 2
    /\ \A d \in Dev :
         /\ d < load.i => life[d] = "registered"
         /\ d = load.i => life[d] = IF load.pc = "create" THEN "absent" ELSE "made"
         /\ d > load.i => life[d] = "absent"
Unloading ==
  load.pc = "unregister" =>
    /\ load.i <= load.n
    /\ \A d \in Dev :
         /\ d < load.i => life[d] = "gone" /\ Quiet(d)
         /\ d = load.i /\ d < load.n => life[d] \in {"registered", "gone"}
         /\ d > load.i /\ d < load.n => life[d] = "registered"
         /\ d >= load.n => life[d] \in {"absent", "freed"}
Lives ==
  \A d \in Dev :
    /\ load.pc = "loaded" => life[d] = "registered"
    /\ load.pc = "done" => life[d] \in {"absent", "freed"}
    /\ life[d] \in {"absent", "made", "freed"} => Quiet(d)
    /\ up[d] \/ At(d, {"open"}) => life[d] = "registered"
Stages == Loading /\ Unloading /\ Lives

\* Nothing of device d concerns its twin: no frame to it under way, no packet
\* from it queued or taken.
Apart(d) ==
  /\ xpc[d] # "wire" /\ irq[d] # ldd_peer(d)
  /\ irq[d] = d => xpc[d] \notin {"put", "wake"}
  /\ rxq[d] = <<>> /\ ppc[d] \notin {"put", "wake"}
  /\ link.dev = d => link.pc \notin {"put", "wake"}
Uses == \A d \in Dev : ~Live(ldd_peer(d)) => Apart(d)

\* A quiet device has nothing of its twin.
LEMMA QuietApart ==
  ASSUME Base, NEW d \in Dev, Quiet(d)
  PROVE  Apart(d)
<1> USE DEF Base, Quiet
<1>1. irq[d] = None /\ ldd_peer(d) # None
      BY DEF Shape, XmitShape, ldd_peer, Dev, None
<1>2. ~running[d]
      BY Zenon DEF Runs, LinkRuns, At
<1>3. rxq[d] = <<>>
      BY <1>2, Zenon DEF Runs, QueueRuns, At
<1> QED BY <1>1, <1>3, Zenon DEF Apart, Dev, None

\* A device that is not registered stays quiet.
LEMMA QuietKept ==
  ASSUME Base, Next, NEW d \in Dev, Quiet(d), life[d] # "registered"
  PROVE  Quiet(d)'
<1> USE DEF Base, Quiet
<1>1. ASSUME NEW c \in Dev, Send(c) \/ Xmit(c) PROVE Quiet(d)'
  <2>1. UNCHANGED <<up, ppc, tail, link>>
        BY <1>1, XmitFrame, Zenon
  <2>2. c # d
        BY <1>1, ZenonT(40) DEF Send, ldd_start_xmit, ldd_start_xmit_drop, MaySend, Xmit,
           ldd_rx_enqueue, TxInterrupt,
           ldd_ack_interrupt, ldd_regular_interrupt, ldd_napi_interrupt, XmitRelease, XmitWake,
           HandlerEnd
  <2> QED BY <1>1, <2>1, <2>2, OnePath, ZenonT(40)
<1>2. ASSUME NEW c \in Dev, ldd_poll(c) \/ PollTail(c) PROVE Quiet(d)'
  <2>1. UNCHANGED <<up, xpc, link>>
        BY <1>2, PollFrame, ZenonT(40)
  <2>2. napi[d].state # "sched"
        BY Zenon DEF Runs, NapiRuns, At
  <2>3. c # d
        BY <1>2, <2>2, ZenonT(40)
        DEF ldd_poll, PollStart, PollTake, PollBudget, PollRelease, PollWake,
           PollComplete, PollTail, PollLook, PollAgain
  <2>4. ppc'[d] = ppc[d] /\ tail'[d] = tail[d]
        BY <1>2, <2>3, ZenonT(40)
        DEF ldd_poll, PollStart, PollTake, PollBudget, PollRelease, PollWake,
           PollComplete, PollTail, PollLook, PollAgain, PollAt, p, Types, TypePoll
  <2> QED BY <2>1, <2>4, Zenon
<1>3. ASSUME NEW c \in Dev, LinkUp(c) \/ LinkDown(c) PROVE Quiet(d)'
  <2>1. UNCHANGED <<xpc, ppc, tail>> /\ c # d
        BY <1>3, LinkFrame, Zenon DEF LinkUp, LinkDown
  <2>2. link'.dev = c /\ up'[d] = up[d]
        BY <1>3, <2>1, ZenonT(40)
        DEF LinkUp, LinkDown, core, Types, TypeParam, TypeCore, LinkState
  <2> QED BY <2>1, <2>2, Zenon
<1>4. ASSUME ldd_open PROVE Quiet(d)'
  <2>1. UNCHANGED <<xpc, ppc, tail>>
        BY <1>4, LinkFrame, Zenon
  <2>2. up' = [up EXCEPT ![link.dev] = TRUE] /\ link' = [link EXCEPT !.pc = "idle", !.dev = None]
        BY <1>4, Zenon DEF ldd_open
  <2>3. up'[d] = up[d]
        BY <2>2, Zenon DEF Types, TypeParam
  <2>4. link'.dev = None
        BY <2>2, Zenon DEF Types, TypeCore, LinkState
  <2> QED BY <2>1, <2>3, <2>4, Twins, Zenon
<1>5. ASSUME ldd_stop PROVE Quiet(d)'
  <2>1. UNCHANGED <<xpc, ppc, tail>>
        BY <1>5, LinkFrame, Zenon
  <2>2. up' = up
        BY <1>5 DEF ldd_stop, StopReceive, NapiDisabled, StopDrain, StopRelease, StopWake, core
  <2>3. ASSUME StopDrain PROVE link'.dev = link.dev \/ link'.dev = None
        BY <2>3, Zenon DEF StopDrain, Types, TypeCore, LinkState
  <2>4. ASSUME StopReceive \/ NapiDisabled \/ StopRelease \/ StopWake PROVE link'.dev = link.dev
        BY <2>4, Zenon DEF StopReceive, NapiDisabled, StopRelease, StopWake, Types, TypeCore,
           LinkState
  <2>5. link'.dev = link.dev \/ link'.dev = None
        BY <1>5, <2>3, <2>4, Zenon DEF ldd_stop
  <2> QED BY <2>1, <2>2, <2>5, Twins
<1>6. ASSUME Unregister PROVE Quiet(d)'
  <2>1. UNCHANGED <<xpc, ppc, tail>> /\ load.i # d
        BY <1>6, Zenon DEF Unregister, x, p
  <2>2. up'[d] = up[d] /\ link'.dev # d
        BY <1>6, <2>1, Zenon DEF Unregister, Types, TypeParam, TypeCore, LinkState
  <2> QED BY <2>1, <2>2, Zenon
<1>7. ASSUME ldd_create \/ Register \/ m_exit \/ Unregistered \/ FreeAll \/ Unloaded PROVE Quiet(d)'
  <2>1. UNCHANGED <<xpc, ppc, tail, up, link>>
        BY <1>7 DEF ldd_create, Register, m_exit, Unregistered, FreeAll, Unloaded, vars, x, p
  <2> QED BY <2>1, Zenon
<1> QED BY <1>1, <1>2, <1>3, <1>4, <1>5, <1>6, <1>7, ZenonT(40) DEF Next, ldd_destroy

\* Only insmod and rmmod move the module and its devices on.
LEMMA LoadStill ==
  ASSUME Next, ~ldd_create, ~Register, ~m_exit, ~ldd_destroy
  PROVE  UNCHANGED <<life, load>>
BY XmitFrame, PollFrame, LinkFrame, Zenon DEF Next, Unloaded, vars

\* While insmod and rmmod rest, their stages stay true.
LEMMA StagesStill ==
  ASSUME Base, Stages, Next, UNCHANGED <<life, load>>
  PROVE  Loading' /\ Unloading'
<1>1. Loading'
      BY Zenon DEF Stages, Loading
<1>2. \A d \in Dev : Quiet(d) /\ life[d] = "gone" => Quiet(d)'
      BY QuietKept, Zenon
<1>3. Unloading'
      BY <1>2, Zenon DEF Stages, Unloading
<1> QED BY <1>1, <1>3, Zenon

\* Each step of insmod and rmmod leads to the next stage.
LEMMA StagesKept ==
  ASSUME Base, Stages, Next, 1 \notin RegisterFails
  PROVE  Loading' /\ Unloading'
<1> USE DEF Base
<1>0. load.i \in 0..2 /\ load.n \in 0..2 /\ load \in LoadState
      BY Zenon DEF Types, TypeParam, LoadState
<1>1. life \in [Dev -> {"absent", "made", "registered", "gone", "freed"}]
      BY DEF Types, TypeParam
<1>2. CASE ldd_create
  <2>1. load.pc = "create" /\ load.i < 2 /\ load.i \in Dev
        BY <1>0, <1>2 DEF ldd_create, Stages, Loading, Dev
  <2>2. CASE life' = [life EXCEPT ![load.i] = "made"] /\ load' = [load EXCEPT !.pc = "register"]
    <3>1. load'.pc = "register" /\ load'.i = load.i
          BY <1>0, <2>2, Zenon DEF LoadState
    <3>2. life'[load.i] = "made" /\ \A d \in Dev : d # load.i => life'[d] = life[d]
          BY <1>1, <2>1, <2>2
    <3> QED BY <1>0, <2>1, <3>1, <3>2 DEF Stages, Loading, Unloading, Dev
  <2>3. CASE life' = life /\ load' = Destroy(load.i)
    <3>1. load'.pc = "unregister" /\ load'.i = 0 /\ load'.n = load.i
          BY <2>3, Zenon DEF Destroy
    <3> QED BY <1>0, <2>1, <2>3, <3>1 DEF Stages, Loading, Unloading, Dev
  <2> QED BY <1>2, <2>2, <2>3, Zenon DEF ldd_create
<1>3. CASE Register
  <2>1. load.pc = "register" /\ load.i < 2 /\ load.i \in Dev
        BY <1>0, <1>3 DEF Register, Stages, Loading, Dev
  <2>2. CASE life' = [life EXCEPT ![load.i] = "registered"]
             /\ load' = IF load.i = 1 THEN [load EXCEPT !.pc = "loaded"]
                        ELSE [load EXCEPT !.pc = "create", !.i = 1]
    <3>1. life'[load.i] = "registered" /\ \A d \in Dev : d # load.i => life'[d] = life[d]
          BY <1>1, <2>1, <2>2, Zenon
    <3>2. CASE load.i = 1
      <4>1. load'.pc = "loaded"
            BY <1>0, <2>2, <3>2, Zenon DEF LoadState
      <4> QED BY <4>1, Zenon DEF Loading, Unloading
    <3>3. CASE load.i = 0
      <4>1. load'.pc = "create" /\ load'.i = 1
            BY <1>0, <2>2, <3>3 DEF LoadState
      <4> QED BY <1>0, <2>1, <3>1, <3>3, <4>1 DEF Stages, Loading, Unloading, Dev
    <3> QED BY <2>1, <3>2, <3>3, Zenon DEF Dev
  <2>3. CASE load.i \in RegisterFails /\ life' = [life EXCEPT ![load.i] = "freed"]
             /\ load' = Destroy(load.i)
    <3>1. load.i = 0
          BY <2>1, <2>3, Zenon DEF Dev
    <3>2. load'.pc = "unregister" /\ load'.i = 0 /\ load'.n = 0
          BY <2>3, <3>1 DEF Destroy
    <3>3. life'[0] = "freed" /\ life'[1] = life[1]
          BY <1>1, <2>3, <3>1 DEF Dev
    <3> QED BY <1>0, <2>1, <3>1, <3>2, <3>3 DEF Stages, Loading, Unloading, Dev
  <2> QED BY <1>3, <2>2, <2>3, Zenon DEF Register
<1>4. CASE m_exit
  <2>1. load.pc = "loaded" /\ life' = life /\ load'.pc = "unregister" /\ load'.i = 0 /\ load'.n = 2
        BY <1>4, Zenon DEF m_exit, Destroy
  <2> QED BY <2>1 DEF Stages, Lives, Loading, Unloading, Dev
<1>5. CASE Unregister
  <2>1. load.pc = "unregister" /\ load.i < load.n /\ load' = load /\ load.i \in Dev
        BY <1>0, <1>5 DEF Unregister, Dev
  <2>2. life'[load.i] = "gone" /\ \A d \in Dev : d # load.i => life'[d] = life[d]
        BY <1>1, <1>5, <2>1, Zenon DEF Unregister
  <2>3. \A d \in Dev : Quiet(d) /\ life[d] = "gone" => Quiet(d)'
        BY QuietKept
  <2> QED BY <1>0, <2>1, <2>2, <2>3 DEF Stages, Loading, Unloading, Dev
<1>6. CASE Unregistered
  <2>1. load.pc = "unregister" /\ load.i < load.n /\ life' = life /\ load.i \in Dev
        /\ load' = [load EXCEPT !.i = load.i + 1]
        BY <1>0, <1>6 DEF Unregistered, Dev
  <2>2. load'.pc = "unregister" /\ load'.i = load.i + 1 /\ load'.n = load.n
        BY <1>0, <2>1, Zenon DEF LoadState
  <2>3. PICK i \in Dev : i = load.i
        BY <2>1, Zenon
  <2>4. life[i] = "gone" /\ Quiet(i)'
    <3>1. life[i] = "gone" /\ xpc[i] = "idle" /\ ppc[i] = "idle" /\ tail[i] = "none"
          /\ link.pc = "idle" /\ UNCHANGED <<xpc, ppc, tail, up, link>>
          BY <1>6, <2>3, Zenon DEF Unregistered, x, p
    <3>2. ~up[i]
          BY <3>1, Zenon DEF Stages, Lives
    <3>3. link.dev # i
          BY <3>1, Twins, Zenon DEF Shape, LinkShape
    <3> QED BY <3>1, <3>2, <3>3, Zenon DEF Quiet
  <2>5. \A d \in Dev : Quiet(d) /\ life[d] = "gone" => Quiet(d)'
        BY QuietKept, Zenon
  <2>6. \A d \in Dev : d < load.i + 1 => life[d] = "gone" /\ Quiet(d)'
        BY <1>0, <2>1, <2>3, <2>4, <2>5 DEF Stages, Unloading, Dev
  <2> QED BY <1>0, <2>1, <2>2, <2>6 DEF Stages, Loading, Unloading, Dev
<1>7. CASE FreeAll
  <2>1. load'.pc = "done"
        BY <1>0, <1>7, Zenon DEF FreeAll, LoadState
  <2> QED BY <2>1, Zenon DEF Loading, Unloading
<1>8. CASE ~ldd_create /\ ~Register /\ ~m_exit /\ ~ldd_destroy
      BY <1>8, LoadStill, StagesStill, Zenon
<1> QED BY <1>2, <1>3, <1>4, <1>5, <1>6, <1>7, <1>8, Zenon DEF ldd_destroy

\* A device without memory stays quiet, one that is up is registered.
LEMMA LivesKept ==
  ASSUME Base, Stages, Next, 1 \notin RegisterFails
  PROVE  Lives'
<1> USE DEF Base
<1> SUFFICES ASSUME NEW d \in Dev
             PROVE  /\ load'.pc = "loaded" => life'[d] = "registered"
                    /\ load'.pc = "done" => life'[d] \in {"absent", "freed"}
                    /\ life'[d] \in {"absent", "made", "freed"} => Quiet(d)'
                    /\ up'[d] \/ At(d, {"open"})' => life'[d] = "registered"
      BY Zenon DEF Lives
<1>0. load.i \in 0..2 /\ load.n \in 0..2 /\ load \in LoadState
      BY Zenon DEF Types, TypeParam, LoadState
<1>1. life \in [Dev -> {"absent", "made", "registered", "gone", "freed"}]
      BY Zenon DEF Types, TypeParam
<1>6. ASSUME Register
      PROVE  /\ load'.pc \in {"loaded", "create", "unregister"}
             /\ load'.pc = "loaded" => load.i = 1 /\ life' = [life EXCEPT ![load.i] = "registered"]
  <2>1. CASE load' = [load EXCEPT !.pc = "loaded"] /\ load.i = 1
             /\ life' = [life EXCEPT ![load.i] = "registered"]
        BY <1>0, <2>1, Zenon DEF LoadState
  <2>2. CASE load' = [load EXCEPT !.pc = "create", !.i = 1]
    <3>1. load'.pc = "create"
          BY <1>0, <2>2, Zenon DEF LoadState
    <3> QED BY <3>1, Zenon
  <2>3. CASE load' = Destroy(load.i)
    <3>1. load'.pc = "unregister"
          BY <2>3, Zenon DEF Destroy
    <3> QED BY <3>1, Zenon
  <2> QED BY <1>6, <2>1, <2>2, <2>3 DEF Register
<1>2. load'.pc = "loaded" => life'[d] = "registered"
  <2>1. CASE Register
    <3>1. load.pc = "register" /\ load.i < 2 /\ load.i \in Dev
          BY <1>0, <2>1 DEF Register, Stages, Loading, Dev
    <3>2. load'.pc = "loaded" => load.i = 1 /\ life' = [life EXCEPT ![load.i] = "registered"]
          BY <1>6, <2>1, Zenon
    <3> QED BY <1>0, <1>1, <3>1, <3>2 DEF Stages, Loading, Dev
  <2>2. CASE ldd_create \/ m_exit \/ Unregistered \/ FreeAll
        BY <1>0, <2>2 DEF ldd_create, m_exit, Unregistered, FreeAll, Destroy, LoadState
  <2>3. CASE Unregister
        BY <2>3, Zenon DEF Unregister
  <2>4. CASE UNCHANGED <<life, load>>
        BY <2>4, Zenon DEF Stages, Lives
  <2> QED BY <2>1, <2>2, <2>3, <2>4, LoadStill DEF ldd_destroy
<1>3. load'.pc = "done" => life'[d] \in {"absent", "freed"}
  <2>1. CASE FreeAll
    <3>1. load.pc = "unregister" /\ load.i = load.n /\ life'[d] = IF d < load.n THEN "freed" ELSE life[d]
          BY <2>1, Zenon DEF FreeAll
    <3> QED BY <1>0, <3>1 DEF Stages, Unloading, Dev
  <2>2. CASE ldd_create \/ m_exit \/ Unregistered
        BY <1>0, <2>2 DEF ldd_create, m_exit, Unregistered, Destroy, LoadState
  <2>5. CASE Register
        BY <1>6, <2>5, Zenon
  <2>3. CASE Unregister
        BY <2>3, Zenon DEF Unregister
  <2>4. CASE UNCHANGED <<life, load>>
        BY <2>4, Zenon DEF Stages, Lives
  <2> QED BY <2>1, <2>2, <2>3, <2>4, <2>5, LoadStill, Zenon DEF ldd_destroy
<1>4. life'[d] \in {"absent", "made", "freed"} => Quiet(d)'
  <2>1. ASSUME life[d] \in {"absent", "made", "freed"} PROVE Quiet(d)'
        BY <2>1, QuietKept, Zenon DEF Stages, Lives
  <2>2. CASE FreeAll
    <3>1. load.pc = "unregister" /\ load.i = load.n /\ life'[d] = IF d < load.n THEN "freed" ELSE life[d]
          BY <2>2, Zenon DEF FreeAll
    <3>2. CASE d < load.n
      <4>1. life[d] = "gone" /\ Quiet(d)
            BY <1>0, <3>1, <3>2, Zenon DEF Stages, Unloading
      <4> QED BY <4>1, QuietKept, Zenon
    <3>3. CASE ~(d < load.n)
          BY <2>1, <3>1, <3>3, Zenon
    <3> QED BY <3>2, <3>3
  <2>3. CASE Register
    <3>1. load.pc = "register" /\ load.i < 2 /\ load.i \in Dev
          BY <1>0, <2>3 DEF Register, Stages, Loading, Dev
    <3>2. CASE d = load.i
      <4>1. life[d] = "made"
            BY <3>1, <3>2, Zenon DEF Stages, Loading
      <4> QED BY <2>1, <4>1, Zenon
    <3>3. CASE d # load.i
      <4>1. life'[d] = life[d]
            BY <1>1, <2>3, <3>3, Zenon DEF Register
      <4> QED BY <2>1, <4>1, Zenon
    <3> QED BY <3>2, <3>3, Zenon
  <2>4. CASE ldd_create
    <3>1. load.pc = "create" /\ load.i < 2 /\ load.i \in Dev
          BY <1>0, <2>4 DEF ldd_create, Stages, Loading, Dev
    <3>2. CASE d = load.i
      <4>1. life[d] = "absent"
            BY <3>1, <3>2 DEF Stages, Loading
      <4> QED BY <2>1, <4>1, Zenon
    <3>3. CASE d # load.i
      <4>1. life'[d] = life[d]
            BY <1>1, <2>4, <3>3, Zenon DEF ldd_create
      <4> QED BY <2>1, <4>1, Zenon
    <3> QED BY <3>2, <3>3, Zenon
  <2>5. CASE Unregister
    <3>1. life'[d] = life[d] \/ life'[d] = "gone"
          BY <1>1, <2>5, Zenon DEF Unregister
    <3> QED BY <2>1, <3>1, Zenon
  <2>6. CASE m_exit \/ Unregistered
        BY <2>1, <2>6 DEF m_exit, Unregistered
  <2>7. CASE UNCHANGED life
        BY <2>1, <2>7, Zenon
  <2> QED BY <2>2, <2>3, <2>4, <2>5, <2>6, <2>7, LoadStill, Zenon DEF ldd_destroy
<1>5. up'[d] \/ At(d, {"open"})' => life'[d] = "registered"
  <2>1. ASSUME UNCHANGED <<up, link, life>> PROVE up'[d] \/ At(d, {"open"})' => life'[d] = "registered"
        BY <2>1, Zenon DEF Stages, Lives, At
  <2>2. ASSUME NEW c \in Dev, Send(c) \/ Xmit(c) \/ ldd_poll(c) \/ PollTail(c)
        PROVE  UNCHANGED <<up, link, life>>
        BY <2>2, XmitFrame, PollFrame, Zenon
  <2>3. ASSUME NEW c \in Dev, LinkUp(c)
        PROVE  up'[d] \/ At(d, {"open"})' => life'[d] = "registered"
    <3>1. up' = up /\ life' = life /\ life[c] = "registered" /\ link'.dev = c
          BY <2>3, Zenon DEF LinkUp, core, Types, TypeCore, LinkState
    <3> QED BY <3>1, Zenon DEF Stages, Lives, At
  <2>4. ASSUME NEW c \in Dev, LinkDown(c)
        PROVE  up'[d] \/ At(d, {"open"})' => life'[d] = "registered"
    <3>1. (up'[d] => up[d]) /\ life' = life /\ link'.pc = "stop"
          BY <2>4, Zenon DEF LinkDown, Types, TypeCore, LinkState, TypeParam
    <3> QED BY <3>1 DEF Stages, Lives, At
  <2>5. ASSUME ldd_open PROVE up'[d] \/ At(d, {"open"})' => life'[d] = "registered"
    <3>1. link.pc = "open" /\ life' = life /\ up' = [up EXCEPT ![link.dev] = TRUE]
          BY <2>5, Zenon DEF ldd_open
    <3>2. link'.pc = "idle"
          BY <2>5, Zenon DEF ldd_open, Types, TypeCore, LinkState
    <3>3. up'[d] => up[d] \/ link.dev = d
          BY <3>1, Zenon DEF Types, TypeParam
    <3> QED BY <3>1, <3>2, <3>3, Zenon DEF Stages, Lives, At
  <2>6. ASSUME ldd_stop PROVE up'[d] \/ At(d, {"open"})' => life'[d] = "registered"
    <3>1. up' = up /\ life' = life
          BY <2>6, Zenon DEF ldd_stop, StopReceive, NapiDisabled, StopDrain, StopRelease,
             StopWake, core
    <3>2. link'.pc # "open"
          BY <2>6, ZenonT(40) DEF ldd_stop, StopReceive, NapiDisabled, StopDrain, StopRelease,
             StopWake,
             Types, TypeCore, LinkState
    <3> QED BY <3>1, <3>2, Zenon DEF Stages, Lives, At
  <2>7. ASSUME Unregister PROVE up'[d] \/ At(d, {"open"})' => life'[d] = "registered"
    <3>1. link'.pc # "open"
          BY <2>7, Zenon DEF Unregister, Types, TypeCore, LinkState
    <3>2. up'[d] => up[d] /\ load.i # d
          BY <2>7, Zenon DEF Unregister, Types, TypeParam
    <3>3. load.i # d => life'[d] = life[d]
          BY <1>1, <2>7 DEF Unregister
    <3> QED BY <3>1, <3>2, <3>3, Zenon DEF Stages, Lives, At
  <2>8. ASSUME ldd_create \/ Register \/ m_exit \/ Unregistered \/ FreeAll
        PROVE  up'[d] \/ At(d, {"open"})' => life'[d] = "registered"
    <3>1. UNCHANGED <<up, link>>
          BY <2>8, Zenon DEF ldd_create, Register, m_exit, Unregistered, FreeAll
    <3>2. CASE life'[d] = life[d]
          BY <3>1, <3>2, Zenon DEF Stages, Lives, At
    <3>3. CASE life'[d] # life[d]
      <4>1. life[d] # "registered" \/ life'[d] = "registered"
        <5>1. CASE ldd_create
              BY <1>0, <1>1, <3>3, <5>1 DEF ldd_create, Stages, Loading
        <5>2. CASE Register
              BY <1>0, <1>1, <3>3, <5>2, Zenon DEF Register, Stages, Loading
        <5>3. CASE FreeAll
              BY <1>0, <1>1, <3>3, <5>3, Zenon DEF FreeAll, Stages, Unloading
        <5> QED BY <2>8, <3>3, <5>1, <5>2, <5>3, Zenon DEF m_exit, Unregistered
      <4> QED BY <3>1, <4>1 DEF Stages, Lives, At
    <3> QED BY <3>2, <3>3, Zenon
  <2> QED BY <2>1, <2>2, <2>3, <2>4, <2>5, <2>6, <2>7, <2>8, ZenonT(40)
          DEF Next, ldd_destroy, Unloaded, vars
<1> QED BY <1>2, <1>3, <1>4, <1>5

\* A device loses its memory only when both are quiet, and a device whose twin is
\* not there has nothing of it.
LEMMA UsesKept ==
  ASSUME Base, Stages, Uses, Next, 1 \notin RegisterFails
  PROVE  Uses'
<1> USE DEF Base
<1> SUFFICES ASSUME NEW d \in Dev, NEW e \in Dev, e = ldd_peer(d), ~Live(e)'
             PROVE  Apart(d)'
      BY Twins, Zenon DEF Uses
<1>0. e # d /\ ldd_peer(e) = d /\ \A c \in Dev : c = d \/ c = e
      BY Twins, Zenon
<1>1. d # None /\ e # None
      BY Twins, Zenon
<1>2. /\ load.i \in 0..2 /\ load.n \in 0..2
      /\ life \in [Dev -> {"absent", "made", "registered", "gone", "freed"}]
      BY Zenon DEF Types, TypeParam, LoadState
\* the twin is lost in this step
<1>3. CASE Live(e)
  <2>1. FreeAll \/ Register
    <3>1. ASSUME ldd_create \/ Unregister PROVE FALSE
      <4>1. life'[e] \in {life[e], "made", "gone"}
            BY <1>2, <3>1, Zenon DEF ldd_create, Unregister
      <4> QED BY <1>3, <4>1, Zenon DEF Live
    <3>2. ASSUME m_exit \/ Unregistered PROVE FALSE
          BY <1>3, <3>2, Zenon DEF m_exit, Unregistered, Live
    <3> QED BY <1>3, <3>1, <3>2, LoadStill, Zenon DEF ldd_destroy, Live
  <2>2. Quiet(d) /\ life[d] # "registered"
    <3>1. CASE FreeAll
      <4>1. load.pc = "unregister" /\ load.i = load.n /\ life'[e] = IF e < load.n THEN "freed" ELSE life[e]
            BY <3>1, Zenon DEF FreeAll
      <4>2. CASE d < load.n
            BY <1>2, <4>1, <4>2, Zenon DEF Stages, Unloading
      <4>3. CASE ~(d < load.n)
        <5>1. life[d] \in {"absent", "freed"}
              BY <1>2, <4>1, <4>3 DEF Stages, Unloading, Dev
        <5> QED BY <5>1, Zenon DEF Stages, Lives
      <4> QED BY <4>2, <4>3, Zenon
    <3>2. CASE Register
      <4>1. load.pc = "register" /\ load.i = e /\ e \in RegisterFails
            BY <1>2, <1>3, <3>2, Zenon DEF Register, Live
      <4>2. e = 0 /\ d = 1
            BY <1>0, <4>1, Zenon DEF Dev
      <4>3. life[d] = "absent"
            BY <4>1, <4>2 DEF Stages, Loading
      <4> QED BY <4>3, Zenon DEF Stages, Lives
    <3> QED BY <2>1, <3>1, <3>2, Zenon
  <2>3. Quiet(d)'
        BY <2>2, QuietKept, Zenon
  <2>4. Apart(d)
        BY <2>2, QuietApart, Zenon
  <2>5. UNCHANGED <<xpc, irq, rxq, ppc, link>>
        BY <2>1, Zenon DEF FreeAll, Register, x, p, priv
  <2> QED BY <2>4, <2>5, Zenon DEF Apart
\* it was not there before
<1>4. CASE ~Live(e)
  <2>1. Apart(d) /\ Quiet(e)
        BY <1>4, Zenon DEF Uses, Stages, Lives, Live
  <2>2. /\ xpc[d] # "wire" /\ irq[d] # e /\ (irq[d] = d => xpc[d] \notin {"put", "wake"})
        /\ rxq[d] = <<>> /\ ppc[d] \notin {"put", "wake"}
        /\ (link.dev = d => link.pc \notin {"put", "wake"})
        BY <2>1, Zenon DEF Apart
  <2> DEFINE Xmits == xpc'[d] # "wire" /\ irq'[d] # e /\ (irq'[d] = d => xpc'[d] \notin {"put", "wake"})
  <2> DEFINE Links == link'.dev = d => link'.pc \notin {"put", "wake"}
  <2>3. Empty(d) /\ First(d) = 0
        BY <2>2, Zenon DEF Empty, First
  <2>4. ASSUME NEW c \in Dev, Send(c) \/ Xmit(c) PROVE c = d
    <3>1. xpc[e] = "idle" /\ ~up[e]
          BY <2>1, Zenon DEF Quiet
    <3>2. c # e
          BY <2>4, <3>1, ZenonT(40)
          DEF Send, ldd_start_xmit, ldd_start_xmit_drop, MaySend, Xmit, ldd_rx_enqueue,
             TxInterrupt, ldd_ack_interrupt, ldd_regular_interrupt, ldd_napi_interrupt,
             XmitRelease,
             XmitWake, HandlerEnd
    <3> QED BY <1>0, <2>4, <3>2, Zenon
  <2>5. rxq'[d] = <<>>
    <3>1. ASSUME NEW c \in Dev, ldd_rx_enqueue(c) PROVE FALSE
          BY <2>2, <2>4, <3>1, ZenonT(40) DEF Xmit, ldd_rx_enqueue
    <3>2. ASSUME NEW c \in Dev, ldd_rx_dequeue(c) PROVE rxq'[d] = <<>>
          BY <1>0, <2>2, <2>3, <3>2, Dequeue, Zenon
    <3>3. ASSUME StopDrain PROVE rxq'[d] = <<>>
          BY <3>2, <3>3, LinkDev DEF StopDrain, ldd_stop
    <3> QED BY <2>2, <3>1, <3>2, <3>3, QueueSteps, ZenonT(40)
  <2>6. Xmits
    <3>1. ASSUME NEW c \in Dev, Send(c) PROVE Xmits
      <4>1. ~ldd_start_xmit(d)
            BY <1>4, Zenon DEF ldd_start_xmit, Live
      <4>2. ldd_start_xmit_drop(d)
            BY <2>4, <3>1, <4>1 DEF Send
      <4> QED BY <2>2, <4>2, ZenonT(40) DEF ldd_start_xmit_drop, x
    <3>2. ASSUME NEW c \in Dev, Xmit(c) PROVE Xmits
      <4>1. Xmit(d)
            BY <2>4, <3>2, Zenon
      <4>2. CASE ldd_rx_enqueue(d)
            BY <2>2, <4>2, ZenonT(40) DEF ldd_rx_enqueue
      <4>3. CASE TxInterrupt(d)
            BY <1>0, <4>3, Zenon DEF TxInterrupt, Path, Types, TypeXmit
      <4>4. CASE ldd_ack_interrupt(d)
            BY <2>2, <4>4, ZenonT(40) DEF ldd_ack_interrupt, Path, Types, TypeXmit
      <4>5. CASE ldd_regular_interrupt(d)
        <5>1. irq[d] = d
              BY <1>0, <2>2, <4>5, ZenonT(40) DEF ldd_regular_interrupt, Shape, XmitShape
        <5>2. xpc'[d] = "fin" /\ irq'[d] = d
              BY <2>3, <4>5, <5>1, Zenon DEF ldd_regular_interrupt, Path, Types, TypeXmit
        <5> QED BY <1>0, <5>2, Zenon
      <4>6. CASE ldd_napi_interrupt(d)
            BY <2>2, <4>6, ZenonT(40) DEF ldd_napi_interrupt, Goto, Types, TypeXmit
      <4>7. CASE XmitRelease(d) \/ XmitWake(d)
        <5>1. irq'[d] = irq[d] /\ xpc[d] \in {"put", "wake"}
              BY <4>7, Zenon DEF XmitRelease, XmitWake, Path, Goto, Types, TypeXmit
        <5>2. irq[d] = None
              BY <1>0, <2>2, <5>1, ZenonT(40) DEF Types, TypeXmit
        <5>3. xpc'[d] # "wire"
              BY <4>7, Zenon DEF XmitRelease, XmitWake, Released, Path, Goto, Types, TypeXmit
        <5> QED BY <1>1, <5>1, <5>2, <5>3, ZenonT(40)
      <4>8. CASE HandlerEnd(d)
            BY <1>1, <4>8, Zenon DEF HandlerEnd, Path, Types, TypeXmit
      <4> QED BY <4>1, <4>2, <4>3, <4>4, <4>5, <4>6, <4>7, <4>8, ZenonT(40) DEF Xmit
    <3>3. ASSUME UNCHANGED <<xpc, irq>> PROVE Xmits
          BY <2>2, <3>3, ZenonT(40)
    <3> HIDE DEF Xmits
    <3> QED BY <3>1, <3>2, <3>3, PollFrame, LinkFrame, LoadFrame, ZenonT(40)
            DEF Next, Unloaded, vars, x
  <2>7. ppc'[d] \notin {"put", "wake"}
    <3>1. ASSUME NEW c \in Dev, ldd_poll(c) \/ PollTail(c) PROVE ppc'[d] \notin {"put", "wake"}
      <4>1. CASE c = d
            BY <2>2, <2>3, <3>1, <4>1, ZenonT(40)
            DEF ldd_poll, PollStart, PollTake, PollBudget, PollRelease, PollWake,
               PollComplete, PollTail, PollLook, PollAgain, PollAt, p, Types, TypePoll
      <4>2. CASE c # d
            BY <2>2, <3>1, <4>2, ZenonT(40)
            DEF ldd_poll, PollStart, PollTake, PollBudget, PollRelease, PollWake,
               PollComplete, PollTail, PollLook, PollAgain, PollAt, p, Types, TypePoll
      <4> QED BY <4>1, <4>2
    <3> QED BY <2>2, <3>1, XmitFrame, LinkFrame, LoadFrame, ZenonT(40)
            DEF Next, Unloaded, vars, p
  <2>8. Links
    <3>1. ASSUME NEW c \in Dev, LinkUp(c) \/ LinkDown(c) PROVE Links
          BY <3>1, Zenon DEF LinkUp, LinkDown, Types, TypeCore, LinkState
    <3>2. ASSUME ldd_open \/ StopReceive \/ NapiDisabled \/ StopWake PROVE Links
          BY <3>2, Zenon DEF ldd_open, StopReceive, NapiDisabled, StopWake, Types, TypeCore,
             LinkState
    <3>3. ASSUME StopDrain PROVE Links
      <4>1. CASE link.dev = d
            BY <1>1, <2>3, <3>3, <4>1, Zenon DEF StopDrain, Types, TypeCore, LinkState
      <4>2. CASE link.dev # d
            BY <1>1, <3>3, <4>2, Zenon DEF StopDrain, Types, TypeCore, LinkState
      <4> QED BY <4>1, <4>2
    <3>4. ASSUME StopRelease PROVE Links
          BY <2>2, <3>4, Zenon DEF StopRelease, Types, TypeCore, LinkState
    <3>5. ASSUME Unregister PROVE Links
          BY <2>2, <3>5, Zenon DEF Unregister, Types, TypeCore, LinkState
    <3>6. ASSUME UNCHANGED link PROVE Links
          BY <2>2, <3>6, ZenonT(40)
    <3> HIDE DEF Links
    <3>7. ASSUME ldd_create \/ Register \/ m_exit \/ Unregistered \/ FreeAll \/ Unloaded PROVE Links
          BY <3>6, <3>7 DEF ldd_create, Register, m_exit, Unregistered, FreeAll, Unloaded, vars
    <3> QED BY <3>1, <3>2, <3>3, <3>4, <3>5, <3>6, <3>7, XmitFrame, PollFrame, ZenonT(40)
            DEF Next, ldd_stop, ldd_destroy
  <2> QED BY <2>5, <2>6, <2>7, <2>8, Zenon DEF Apart
<1> QED BY <1>3, <1>4, Zenon

\* What the stages and the uses say is what the property asks for.
LEMMA UsesSafe ==
  ASSUME Base, Stages, Uses
  PROVE  NoUseAfterFree
<1> SUFFICES ASSUME NEW d \in Dev, NEW e \in Dev, e = ldd_peer(d)
             PROVE  /\ xpc[d] # "idle" => Live(d)
                    /\ xpc[d] = "wire" => Live(e)
                    /\ irq[d] # None => Live(irq[d])
                    /\ xpc[d] \in {"put", "wake"} => Live(Owner(d))
                    /\ ppc[d] # "idle" \/ tail[d] # "none" \/ link.dev = d => Live(d)
                    /\ ppc[d] \in {"put", "wake"} => Live(e)
                    /\ link.pc \in {"put", "wake"} => Live(ldd_peer(link.dev))
      BY Twins, ZenonT(40) DEF NoUseAfterFree
<1>1. Live(d) \/ Quiet(d)
      BY Zenon DEF Stages, Lives, Live
<1>2. Live(e) \/ Apart(d)
      BY Zenon DEF Uses
<1>3. irq[d] = None \/ irq[d] = d \/ irq[d] = e
      BY Twins, Zenon DEF Base, Types, TypeXmit
<1>4. irq[d] # None => Live(irq[d])
  <2>1. irq[d] # None => xpc[d] # "idle"
        BY Zenon DEF Base, Shape, XmitShape
  <2> QED BY <1>1, <1>2, <1>3, <2>1, Zenon DEF Quiet, Apart
<1>5. xpc[d] \in {"put", "wake"} => Live(Owner(d))
  <2>1. Owner(d) = IF irq[d] = d THEN e ELSE d
        BY <1>3, Twins, Zenon DEF Owner
  <2> QED BY <1>1, <1>2, <2>1, ZenonT(40) DEF Quiet, Apart
<1>6. link.pc \in {"put", "wake"} => Live(ldd_peer(link.dev))
  <2> SUFFICES ASSUME link.pc \in {"put", "wake"} PROVE Live(ldd_peer(link.dev))
        BY Zenon
  <2>1. link.dev \in Dev
        BY Zenon DEF Base, Types, TypeCore, LinkState, Shape, LinkShape
  <2> QED BY <2>1, Zenon DEF Uses, Apart
<1>7. /\ xpc[d] # "idle" => Live(d)
      /\ ppc[d] # "idle" \/ tail[d] # "none" \/ link.dev = d => Live(d)
      BY <1>1, Zenon DEF Quiet
<1>8. /\ xpc[d] = "wire" => Live(e)
      /\ ppc[d] \in {"put", "wake"} => Live(e)
      BY <1>2 DEF Apart
<1> QED BY <1>4, <1>5, <1>6, <1>7, <1>8, ZenonT(40)

-------------------------------------------------------------------------------
(* The theorems.                                                           *)

\* The inductive invariant, and its part for drivers whose second device does
\* not fail to register.
IInv == Base /\ WakeComing /\ PlainTaken /\ NapiTaken /\ Buffers /\ Skbs /\ Order
LifeInv == Stages /\ Uses

\* The invariant holds before the module is loaded.
LEMMA InvInit ==
  ASSUME Init
  PROVE  IInv /\ LifeInv
<1>1. Base
      BY BaseInit, Zenon
<1>a. \A d \in Dev : /\ pool[d] = pool_size /\ rxq[d] = <<>> /\ status[d] = {} /\ tx_skb[d] = 0
                     /\ ~running[d] /\ life[d] = "absent" /\ ~up[d]
      BY Zenon DEF Init, PrivInit
<1>b. \A d \in Dev : /\ xpc[d] = "idle" /\ irq[d] = None /\ skb[d] = 0 /\ pkt[d] = 0
                     /\ ppc[d] = "idle" /\ ppkt[d] = 0 /\ tail[d] = "none"
      BY Zenon DEF Init
<1>c. \A d \in Dev : sent[d] = 0 /\ freed[d] = 0 /\ passed[d] = <<>>
      BY Zenon DEF Init
<1>d. /\ pool_size \in PoolSizes /\ link = [pc |-> "idle", dev |-> None, pkt |-> 0, ups |-> 0]
      /\ load = [pc |-> "create", i |-> 0, n |-> 0]
      BY Zenon DEF Init
<1>e. None \notin Dev /\ \A d \in Dev : ldd_peer(d) \in Dev
      BY Twins, NetdevAssumption, Zenon
<1>2. WakeComing
      BY ZenonT(40) DEF WakeComing, Init, PrivInit
<1>3. PlainTaken /\ NapiTaken
  <2>1. \A d \in Dev : Len(rxq[d]) = 0
        BY <1>a, SMTT(30)
  <2>2. \A d \in Dev : One("RX" \in status[d]) = 0 /\ \A y \in Dev : Taking(y, d) = 0
        BY <1>a, <1>b, Zenon DEF One, Taking
  <2>3. PlainTaken
        BY <1>a, <1>e, <2>1, <2>2, SMTT(30) DEF PlainTaken
  <2> QED BY <1>a, <2>1, <2>3, ZenonT(40) DEF NapiTaken
<1>4. Buffers
  <2>1. \A d \in Dev : Waiting(d) = 0
        BY <1>a, SMTT(30) DEF Waiting
  <2>2. \A d \in Dev : PollHolds(d) = 0 /\ LinkHolds(d) = 0 /\ \A y \in Dev : Holds(y, d) = 0
        BY <1>b, <1>d, Zenon DEF PollHolds, LinkHolds, Holds, One
  <2>3. pool_size \in Int
        BY <1>d, NetdevAssumption, SMTT(30)
  <2> QED BY <1>a, <1>e, <2>1, <2>2, <2>3, SMTT(30) DEF Buffers
<1>5. Skbs
  <2>1. \A d \in Dev : WithPath(d) = 0 /\ Finished(d) = 0 /\ \A y \in Dev : InHand(y, d) = 0
        BY <1>a, <1>b, ZenonT(40) DEF WithPath, Finished, InHand, One
  <2> QED BY <1>c, <1>e, <2>1, SMTT(30) DEF Skbs
<1>6. Order
  <2>1. \A d \in Dev : Len(rxq[d]) = 0 /\ Len(passed[d]) = 0
        BY <1>a, <1>c, SMTT(30)
  <2>2. \A d \in Dev : ppkt[d] = 0 /\ \A y \in Dev : In(y, d) = 0
        BY <1>b, Zenon DEF In
  <2> QED BY <2>1, <2>2, SMTT(30) DEF Order, QueueOrder, OutOrder, Out, HandOrder, PassedOrder
<1>7. \A d \in Dev : Quiet(d) /\ life[d] = "absent"
      BY <1>a, <1>b, <1>d, <1>e, Twins, ZenonT(40) DEF Quiet
<1>8. Stages
  <2>1. load.pc = "create" /\ load.i = 0 /\ link.pc = "idle"
        BY <1>d, Zenon
  <2>2. Dev = {0, 1}
        BY Zenon DEF Dev
  <2>3. Loading
        BY <1>7, <2>1, <2>2, SMTT(30) DEF Loading
  <2>4. Unloading
        BY <2>1, Zenon DEF Unloading
  <2>5. Lives
        BY <1>7, <1>a, <2>1, Zenon DEF Lives, At
  <2> QED BY <2>3, <2>4, <2>5, Zenon DEF Stages
<1>9. Uses
      BY <1>1, <1>7, QuietApart, Zenon DEF Uses
<1> QED BY <1>1, <1>2, <1>3, <1>4, <1>5, <1>6, <1>8, <1>9, Zenon DEF IInv, LifeInv

\* Every step keeps the invariant.
LEMMA InvKept ==
  ASSUME IInv, [Next]_vars
  PROVE  IInv'
<1>1. Base'
      BY BaseKept, Zenon DEF IInv
<1>2. CASE Next
  <2>1. Order'
        BY <1>2, QueueOrderKept, OutOrderKept, HandOrderKept, PassedOrderKept, Zenon
        DEF IInv, Order
  <2> QED BY <1>1, <1>2, <2>1, WakeKept, PlainKept, NapiKept, BuffersKept, SkbsKept DEF IInv
<1>3. CASE UNCHANGED vars
  <2> USE <1>3 DEF vars, param, priv, irqs, modes, x, p, IInv
  <2>1. WakeComing'
        BY ZenonT(40) DEF WakeComing, Owner
  <2>2. PlainTaken' /\ NapiTaken'
        BY ZenonT(40) DEF PlainTaken, Taking, One, NapiTaken, Coming
  <2>3. Buffers'
        BY ZenonT(40) DEF Buffers, Waiting, Holds, Owner, PollHolds, LinkHolds, One
  <2>4. Skbs'
        BY ZenonT(40) DEF Skbs, WithPath, Finished, InHand, One
  <2>5. QueueOrder' /\ OutOrder'
        BY ZenonT(40) DEF Order, QueueOrder, OutOrder, Out, Before, Newest, In
  <2>6. HandOrder' /\ PassedOrder'
    <3>1. \A y, d \in Dev : In(y, d)' = In(y, d)
          BY Zenon DEF In
    <3>2. passed' = passed /\ ppkt' = ppkt /\ use_napi' = use_napi
          BY ZenonT(40)
    <3> HIDE <1>3
    <3>3. HandOrder'
          BY <3>1, <3>2, SMTT(30) DEF Order, HandOrder
    <3> QED BY <3>2, <3>3, SMTT(30) DEF Order, PassedOrder
  <2> QED BY <1>1, <2>1, <2>2, <2>3, <2>4, <2>5, <2>6, Zenon DEF Order
<1> QED BY <1>2, <1>3, Zenon

\* Every step keeps the part about freed devices.
LEMMA LifeKept ==
  ASSUME Base, LifeInv, [Next]_vars, 1 \notin RegisterFails
  PROVE  LifeInv'
<1>1. CASE Next
      BY <1>1, StagesKept, LivesKept, UsesKept, Zenon DEF LifeInv, Stages
<1>2. CASE UNCHANGED vars
  <2>1. UNCHANGED <<xpc, irq, ppc, tail, up, link, life, load, rxq>>
        BY <1>2, Zenon DEF vars, param, priv, irqs, modes, x, p
  <2>2. Stages'
        BY <2>1, ZenonT(40) DEF LifeInv, Stages, Loading, Unloading, Lives, Quiet, At
  <2> QED BY <2>1, <2>2, Zenon DEF LifeInv, Uses, Apart, Live
<1> QED BY <1>1, <1>2, Zenon

\* The invariant holds in every reachable state, whatever the pools, the budget
\* of a poll, the number of frames and the order of the threads.
THEOREM NetdevInvariant == Spec => []IInv
<1>1. Init => IInv
      BY InvInit, Zenon
<1>2. IInv /\ [Next]_vars => IInv'
      BY InvKept, Zenon
<1> QED BY <1>1, <1>2, PTL DEF Spec

\* No transmit buffer and no skb is lost or freed twice on any path through the
\* sender, the handlers, the poll and ldd_stop().
THEOREM NothingLost == Spec => []Conserved
<1>1. IInv => Conserved
      BY AllConserved, Zenon DEF IInv
<1> QED BY <1>1, NetdevInvariant, PTL

\* Every frame goes up at most once, with NAPI in the order of transmission.
THEOREM FramesInOrder == Spec => []PassedInOrder
<1>1. IInv => PassedInOrder
  <2> SUFFICES ASSUME IInv PROVE PassedInOrder
        BY Zenon
  <2>1. \A d \in Dev : passed[d] \in Seq(Nat)
        BY Zenon DEF IInv, Base, Types, TypeCount
  <2>2. \A d \in Dev : DOMAIN passed[d] = 1..Len(passed[d])
        BY <2>1
  <2> QED BY <2>2, Zenon DEF IInv, Order, PassedOrder, PassedInOrder
<1> QED BY <1>1, NetdevInvariant, PTL

\* A frame queued at a running device always has a handler or a poll coming for it.
THEOREM FramesTaken == Spec => []FrameHasTaker
<1>1. IInv => FrameHasTaker
      BY TakersCome, Zenon DEF IInv
<1> QED BY <1>1, NetdevInvariant, PTL

\* A transmit queue stopped for want of buffers is always about to be woken once
\* a buffer is back.
THEOREM QueuesWoken == Spec => []WakeComing
<1>1. IInv => WakeComing
      BY Zenon DEF IInv
<1> QED BY <1>1, NetdevInvariant, PTL

\* "Unregister both before freeing either": unless the registration of the second
\* device fails, no thread ever touches a freed device.
THEOREM FreedUnused ==
  ASSUME 1 \notin RegisterFails
  PROVE  Spec => []NoUseAfterFree
<1>1. Init => Base /\ LifeInv
      BY InvInit, BaseInit, Zenon
<1>2. Base /\ LifeInv /\ [Next]_vars => (Base /\ LifeInv)'
      BY BaseKept, LifeKept, Zenon
<1>3. Base /\ LifeInv => NoUseAfterFree
      BY UsesSafe, Zenon DEF LifeInv
<1> QED BY <1>1, <1>2, <1>3, PTL DEF Spec
===============================================================================
