----------------------------- MODULE NetdevCounts -----------------------------
(***************************************************************************)
(* 30_netdev: every transmit buffer and every skb is in one place, in      *)
(* every state.  The counts are shown to be kept by every step, on what    *)
(* NetdevBase says of the threads.                                         *)
(***************************************************************************)
EXTENDS NetdevBase

-------------------------------------------------------------------------------
(* Every buffer is in one place.                                           *)

\* Buffers of device d held by the transmit path of y, and packets for d held by
\* its poll and by the rtnl holder.
Holds(y, d) == One(pkt[y] # 0 /\ Owner(y) = d)
PollHolds(d) == One(ppkt[d] # 0)
Waiting(d) == Len(rxq[d])
LinkHolds(d) == One(link.dev = d /\ link.pkt # 0)

Buffers ==
  \A d \in Dev :
    LET e == ldd_peer(d) IN
    pool_size = pool[d] + Waiting(e) + Holds(d, d) + Holds(e, d) + PollHolds(e) + LinkHolds(e)

\* Every step that takes a buffer from one place puts it into another.
LEMMA BuffersKept ==
  ASSUME Base, Buffers, Next
  PROVE  Buffers'
<1> USE DEF Base
<1>0. pool_size' = pool_size
      BY XmitFrame, PollFrame, LinkFrame, LoadFrame, Zenon DEF Next, Unloaded, vars, param
<1> SUFFICES ASSUME NEW d \in Dev, NEW e \in Dev, e = ldd_peer(d)
             PROVE  pool_size = pool'[d] + Waiting(e)' + Holds(d, d)' + Holds(e, d)'
                                + PollHolds(e)' + LinkHolds(e)'
      BY <1>0, Twins, Zenon DEF Buffers
<1>1. e # d /\ ldd_peer(e) = d /\ \A c \in Dev : c = d \/ c = e
      BY Twins, Zenon
<1>2. \A c \in Dev : c # e => c = d
      BY <1>1, Zenon
<1> DEFINE Goal == pool_size = pool'[d] + Waiting(e)' + Holds(d, d)' + Holds(e, d)'
                               + PollHolds(e)' + LinkHolds(e)'
<1>3. /\ pool[d] \in Int /\ pool'[d] \in Int /\ Waiting(e) \in Int /\ Waiting(e)' \in Int
      /\ PollHolds(e) \in Int /\ PollHolds(e)' \in Int /\ LinkHolds(e) \in Int /\ LinkHolds(e)' \in Int
      BY <1>1, BaseKept, SMTT(30) DEF Types, TypePriv, Waiting, PollHolds, LinkHolds, One
<1>q. rxq[e] \in Seq(Nat)
      BY Zenon DEF Types, TypePriv
<1>p. pool_size \in Int
      BY NetdevAssumption DEF Types, TypeParam
<1>4. \A y \in Dev : Holds(y, d) \in Int /\ Holds(y, d)' \in Int
      BY DEF Holds, One
<1>5. pool_size = pool[d] + Waiting(e) + Holds(d, d) + Holds(e, d) + PollHolds(e) + LinkHolds(e)
      BY Zenon DEF Buffers
\* the transmit path of c
<1>r. rxq' = rxq => Waiting(e)' = Waiting(e)
      BY Zenon DEF Waiting
<1>6. ASSUME NEW c \in Dev, Send(c) \/ Xmit(c),
             pool'[d] + Waiting(e)' + Holds(c, d)' = pool[d] + Waiting(e) + Holds(c, d)
      PROVE  Goal
  <2>1. \A y \in Dev : y # c => Holds(y, d)' = Holds(y, d)
        BY <1>6, OnePath, ZenonT(40) DEF Holds, Owner
  <2>2. PollHolds(e)' = PollHolds(e) /\ LinkHolds(e)' = LinkHolds(e)
        BY <1>6, XmitFrame, Zenon DEF PollHolds, LinkHolds
  <2>3. Holds(d, d) \in Int /\ Holds(e, d) \in Int /\ Holds(d, d)' \in Int /\ Holds(e, d)' \in Int
        BY <1>1, <1>4, Zenon
  <2>4. CASE c = d
    <3>1. Holds(e, d)' = Holds(e, d)
          BY <1>1, <2>1, <2>4, Zenon
    <3>2. pool'[d] + Waiting(e)' + Holds(d, d)' = pool[d] + Waiting(e) + Holds(d, d)
          BY <1>6, <2>4, ZenonT(40)
    <3> QED BY <1>5, <2>2, <3>1, <3>2, Zenon
  <2>5. CASE c = e
    <3>1. Holds(d, d)' = Holds(d, d)
          BY <1>1, <2>1, <2>5, Zenon
    <3>2. pool'[d] + Waiting(e)' + Holds(e, d)' = pool[d] + Waiting(e) + Holds(e, d)
          BY <1>6, <2>5, Zenon
    <3>3. /\ pool[d] + Waiting(e) + Holds(d, d) + Holds(e, d)
            = pool[d] + Waiting(e) + Holds(e, d) + Holds(d, d)
          /\ pool'[d] + Waiting(e)' + Holds(d, d)' + Holds(e, d)'
            = pool'[d] + Waiting(e)' + Holds(e, d)' + Holds(d, d)'
          BY <1>3, <2>3
    <3> QED BY <1>5, <2>2, <3>1, <3>2, <3>3
  <2> QED BY <1>1, <2>4, <2>5, Zenon
<1>7. ASSUME NEW c \in Dev, Send(c) \/ Xmit(c), pkt[c] = 0, pkt'[c] = 0, UNCHANGED <<pool, rxq>>
      PROVE  Goal
  <2>1. Holds(c, d) = 0 /\ Holds(c, d)' = 0
        BY <1>7, Zenon DEF Holds, One
  <2> HIDE DEF Goal
  <2> QED BY <1>3, <1>r, <1>6, <1>7, <2>1, Zenon
<1>8. ASSUME NEW c \in Dev, ldd_start_xmit(c) PROVE Goal
  <2>1. Send(c) /\ xpc[c] = "idle" /\ rxq' = rxq /\ Path(c, "wire", None, 0, sent[c] + 1)
        BY <1>8, Zenon DEF Send, ldd_start_xmit, MaySend, ldd_get_tx_buffer
  <2>2. pool'[c] = pool[c] - 1 /\ \A y \in Dev : y # c => pool'[y] = pool[y]
        BY <1>8, Zenon DEF ldd_start_xmit, ldd_get_tx_buffer, Types, TypePriv
  <2>3. irq'[c] = None /\ pkt'[c] = sent[c] + 1 /\ sent[c] \in Nat
        BY <2>1, Zenon DEF Path, Types, TypeXmit, TypeCount
  <2>4. Holds(c, d) = 0
        BY <2>1, Zenon DEF Shape, XmitShape, Holds, One
  <2>5. Holds(c, d)' = IF c = d THEN 1 ELSE 0
        BY <2>3 DEF Holds, One, Owner
  <2>6. pool'[d] = IF c = d THEN pool[d] - 1 ELSE pool[d]
        BY <2>2, Zenon
  <2> HIDE DEF Goal
  <2> QED BY <1>3, <1>r, <1>6, <2>1, <2>4, <2>5, <2>6, SMTT(30)
<1>9. ASSUME NEW c \in Dev, ldd_rx_enqueue(c) PROVE Goal
  <2>1. Xmit(c) /\ xpc[c] = "wire" /\ irq[c] = None /\ pkt[c] # 0 /\ pool' = pool /\ rxq'[c] = rxq[c]
        /\ pkt[c] \in Nat
        BY <1>9, Enqueue, Zenon DEF Xmit, Shape, XmitShape, Types, TypeXmit
  <2>2. Holds(c, d) = IF c = d THEN 1 ELSE 0
        BY <2>1, Zenon DEF Holds, One, Owner
  <2>3. CASE ~running[ldd_peer(c)]
    <3>1. UNCHANGED <<rxq, irq, pkt>>
          BY <1>9, <2>3, Enqueue, Zenon DEF Goto
    <3>2. Holds(c, d)' = Holds(c, d)
          BY <3>1, Zenon DEF Holds, Owner
    <3> HIDE DEF Goal
    <3> QED BY <1>3, <1>4, <1>r, <1>6, <2>1, <3>1, <3>2, Zenon
  <2>4. CASE running[ldd_peer(c)]
    <3>0. /\ rxq'[ldd_peer(c)] = Append(rxq[ldd_peer(c)], pkt[c])
          /\ \/ Path(c, "ack", ldd_peer(c), 0, 0)
             \/ Path(c, "sent", None, 0, 0)
          BY <1>9, <2>4, Enqueue, ZenonT(40)
    <3>1. rxq'[ldd_peer(c)] = Append(rxq[ldd_peer(c)], pkt[c]) /\ pkt'[c] = 0
          BY <3>0, Zenon DEF Path, Types, TypeXmit
    <3>2. Holds(c, d)' = 0
          BY <3>1, Zenon DEF Holds, One
    <3>3. Waiting(e)' = IF c = d THEN Waiting(e) + 1 ELSE Waiting(e)
      <4>1. CASE c = d
            BY <1>q, <2>1, <3>1, <4>1, Appended DEF Waiting
      <4>2. CASE c = e
            BY <1>1, <2>1, <4>2, Zenon DEF Waiting
      <4> QED BY <1>1, <4>1, <4>2, Zenon
    <3>4. pool'[d] + Waiting(e)' + Holds(c, d)' = pool[d] + Waiting(e) + Holds(c, d)
      <4>1. CASE c = d
        <5>1. Holds(c, d) = 1 /\ Waiting(e)' = Waiting(e) + 1 /\ pool'[d] = pool[d]
              BY <2>1, <2>2, <3>3, <4>1, Zenon
        <5> QED BY <1>3, <3>2, <5>1
      <4>2. CASE c # d
        <5>1. Holds(c, d) = 0 /\ Waiting(e)' = Waiting(e) /\ pool'[d] = pool[d]
              BY <2>1, <2>2, <3>3, <4>2, Zenon
        <5> QED BY <1>3, <3>2, <5>1, Zenon
      <4> QED BY <4>1, <4>2, Zenon
    <3> HIDE DEF Goal
    <3> QED BY <1>6, <2>1, <3>4, Zenon
  <2> QED BY <2>3, <2>4, Zenon
\* the queue of e loses its first packet
<1>10. ASSUME NEW c \in Dev, ldd_rx_dequeue(c)
       PROVE  IF c = e /\ First(c) # 0 THEN Waiting(e)' = Waiting(e) - 1
              ELSE Waiting(e)' = Waiting(e)
  <2>1. First(c) # 0 <=> ~Empty(c)
        BY FirstIs, Zenon DEF Shape
  <2>2. CASE c = d
        BY <1>1, <1>10, <2>2, Dequeue, Zenon DEF Waiting
  <2>3. CASE c = e /\ Empty(e)
        BY <1>10, <2>1, <2>3, Dequeue, Zenon DEF Waiting
  <2>4. CASE c = e /\ ~Empty(e)
    <3>1. rxq'[e] = Tail(rxq[e]) /\ rxq[e] # <<>>
          BY <1>10, <2>4, Dequeue, Zenon DEF Empty
    <3>2. Waiting(e)' = Waiting(e) - 1
          BY <1>q, <3>1, Tailed, Zenon DEF Waiting
    <3> QED BY <2>1, <2>4, <3>2, Zenon
  <2> QED BY <1>1, <2>2, <2>3, <2>4, Zenon
<1>11. ASSUME NEW c \in Dev, ldd_regular_interrupt(c) PROVE Goal
  <2>1. PICK i \in Dev : i = irq[c]
        BY <1>11, Zenon DEF ldd_regular_interrupt, Shape, XmitShape
  <2>2. Xmit(c) /\ xpc[c] = "rx" /\ ldd_rx_dequeue(i)
        BY <1>11, <2>1, Zenon DEF Xmit, ldd_regular_interrupt
  <2>3. irq'[c] = i /\ pkt'[c] = First(i) /\ pool' = pool
        BY <1>11, <2>1, Zenon DEF ldd_regular_interrupt, ldd_rx_dequeue, Path, Types, TypeXmit
  <2>4. Holds(c, d) = 0
        BY <2>2, ZenonT(40) DEF Shape, XmitShape, Holds, One
  <2>5. Owner(c)' = ldd_peer(i)
        BY <2>3, Twins, Zenon DEF Owner
  <2>6. ldd_peer(i) = d <=> i = e
        BY <1>1, <2>1, Twins, Zenon
  <2>7. Holds(c, d)' = IF i = e /\ First(i) # 0 THEN 1 ELSE 0
        BY <2>3, <2>5, <2>6, Zenon DEF Holds, One
  <2>8. IF i = e /\ First(i) # 0 THEN Waiting(e)' = Waiting(e) - 1 ELSE Waiting(e)' = Waiting(e)
        BY <1>10, <2>2, Zenon
  <2>9. pool'[d] + Waiting(e)' + Holds(c, d)' = pool[d] + Waiting(e) + Holds(c, d)
    <3>1. CASE i = e /\ First(i) # 0
      <4>1. Holds(c, d)' = 1 /\ Waiting(e)' = Waiting(e) - 1 /\ pool'[d] = pool[d]
            BY <2>3, <2>7, <2>8, <3>1, Zenon
      <4> QED BY <1>3, <2>4, <4>1
    <3>2. CASE ~(i = e /\ First(i) # 0)
      <4>1. Holds(c, d)' = 0 /\ Waiting(e)' = Waiting(e) /\ pool'[d] = pool[d]
            BY <2>3, <2>7, <2>8, <3>2, Zenon
      <4> QED BY <1>3, <2>4, <4>1
    <3> QED BY <3>1, <3>2, Zenon
  <2> HIDE DEF Goal
  <2> QED BY <1>6, <2>2, <2>9, Zenon
<1>12. ASSUME NEW c \in Dev, XmitRelease(c) PROVE Goal
  <2>1. PICK o \in Dev : o = Owner(c)
        BY Twins DEF Owner, Types, TypeXmit
  <2>2. Xmit(c) /\ xpc[c] = "put" /\ ldd_release_buffer(o) /\ pkt'[c] = 0
        BY <1>12, <2>1, ZenonT(40) DEF Xmit, XmitRelease, Path, Types, TypeXmit
  <2>3. Holds(c, d)' = 0
        BY <2>2, Zenon DEF Holds, One
  <2>4. Holds(c, d) = IF o = d THEN 1 ELSE 0
        BY <2>1, <2>2, Zenon DEF Shape, XmitShape, Holds, One
  <2>5. rxq' = rxq /\ pool'[d] = pool[d] + IF o = d THEN 1 ELSE 0
    <3>1. CASE o = d
          BY <2>2, <3>1, Release, Zenon
    <3>2. CASE o = e
          BY <1>1, <1>3, <2>2, <3>2, Release, SMTT(30)
    <3> QED BY <1>1, <3>1, <3>2, Zenon
  <2> HIDE DEF Goal
  <2> QED BY <1>3, <1>r, <1>6, <2>2, <2>3, <2>4, <2>5, SMTT(30)
<1>13. ASSUME NEW c \in Dev, Send(c) \/ Xmit(c), ~ldd_start_xmit(c), ~ldd_rx_enqueue(c),
              ~ldd_regular_interrupt(c), ~XmitRelease(c)
       PROVE  Goal
  <2>1. UNCHANGED <<pool, rxq>> /\ xpc[c] \notin {"wire", "put"}
        BY <1>13, Zenon DEF Send, ldd_start_xmit_drop, MaySend, Xmit, TxInterrupt,
           ldd_ack_interrupt, ldd_napi_interrupt, XmitWake, HandlerEnd, priv
  <2>2. pkt'[c] = pkt[c] \/ pkt'[c] = 0
        BY <1>13, Zenon DEF Send, ldd_start_xmit_drop, Xmit, TxInterrupt,
           ldd_ack_interrupt, ldd_napi_interrupt, XmitWake, HandlerEnd, Path, Goto, x, Types,
           TypeXmit
  <2>3. pkt[c] = 0
        BY <2>1, Zenon DEF Shape, XmitShape
  <2> HIDE DEF Goal
  <2> QED BY <1>7, <1>13, <2>1, <2>2, <2>3, Zenon
\* the poll and the rtnl holder
<1>14. ASSUME UNCHANGED <<irq, pkt>>,
              pool'[d] + Waiting(e)' + PollHolds(e)' + LinkHolds(e)'
                = pool[d] + Waiting(e) + PollHolds(e) + LinkHolds(e)
       PROVE  Goal
  <2>1. Holds(d, d)' = Holds(d, d) /\ Holds(e, d)' = Holds(e, d) /\ Holds(d, d) \in Int /\ Holds(e, d) \in Int
        BY <1>1, <1>4, <1>14, Zenon DEF Holds, Owner
  <2>2. /\ pool[d] + Waiting(e) + Holds(d, d) + Holds(e, d) + PollHolds(e) + LinkHolds(e)
          = pool[d] + Waiting(e) + PollHolds(e) + LinkHolds(e) + Holds(d, d) + Holds(e, d)
        /\ pool'[d] + Waiting(e)' + Holds(d, d) + Holds(e, d) + PollHolds(e)' + LinkHolds(e)'
          = pool'[d] + Waiting(e)' + PollHolds(e)' + LinkHolds(e)' + Holds(d, d) + Holds(e, d)
        BY <1>3, <2>1, SMTT(30)
  <2> QED BY <1>5, <1>14, <2>1, <2>2, Zenon
<1>15. ASSUME NEW c \in Dev, PollTake(c) PROVE Goal
  <2>1. ldd_rx_dequeue(c) /\ ppc[c] = "take" /\ UNCHANGED <<irq, pkt, link>> /\ pool' = pool
        /\ ppkt'[c] = First(c) /\ \A y \in Dev : y # c => ppkt'[y] = ppkt[y]
        BY <1>15, Zenon DEF PollTake, PollAt, x, ldd_rx_dequeue, Types, TypePoll
  <2>2. ppkt[c] = 0 /\ LinkHolds(e)' = LinkHolds(e)
        BY <2>1, Zenon DEF Shape, PollShape, LinkHolds
  <2>3. pool'[d] + Waiting(e)' + PollHolds(e)' + LinkHolds(e)'
          = pool[d] + Waiting(e) + PollHolds(e) + LinkHolds(e)
    <3>1. CASE c = e /\ First(c) # 0
      <4>1. PollHolds(e)' = 1 /\ PollHolds(e) = 0
            BY <2>1, <2>2, <3>1, Zenon DEF PollHolds, One
      <4>2. Waiting(e)' = Waiting(e) - 1 /\ pool'[d] = pool[d]
            BY <1>10, <2>1, <3>1, Zenon
      <4> QED BY <1>3, <2>2, <4>1, <4>2, SMTT(30)
    <3>2. CASE ~(c = e /\ First(c) # 0)
      <4>1. PollHolds(e)' = PollHolds(e)
            BY <2>1, <2>2, <3>2, Zenon DEF PollHolds, One
      <4>2. Waiting(e)' = Waiting(e) /\ pool'[d] = pool[d]
            BY <1>10, <2>1, <3>2, Zenon
      <4> QED BY <1>3, <2>2, <4>1, <4>2, ZenonT(40)
    <3> QED BY <3>1, <3>2, Zenon
  <2> QED BY <1>14, <2>1, <2>3, Zenon
\* a release by somebody who serves c
<1>16. ASSUME NEW c \in Dev, ldd_release_buffer(ldd_peer(c))
       PROVE  /\ c = e => pool'[d] = pool[d] + 1
              /\ c # e => pool'[d] = pool[d]
              /\ Waiting(e)' = Waiting(e)
  <2>1. c = e \/ c = d
        BY <1>1, Zenon
  <2>2. rxq' = rxq
        BY <1>16, Twins, Release, Zenon
  <2>3. c = e => pool'[d] = pool[d] + 1
        BY <1>1, <1>16, Release, Zenon
  <2>4. c = d => pool'[d] = pool[d]
        BY <1>1, <1>16, Release, Zenon
  <2> QED BY <1>1, <1>r, <2>1, <2>2, <2>3, <2>4, Zenon
<1>17. ASSUME NEW c \in Dev, PollRelease(c) PROVE Goal
  <2>1. ldd_release_buffer(ldd_peer(c)) /\ ppc[c] = "put" /\ UNCHANGED <<irq, pkt, link>>
        /\ ppkt'[c] = 0 /\ \A y \in Dev : y # c => ppkt'[y] = ppkt[y]
        BY <1>17, Zenon DEF PollRelease, PollAt, x, Types, TypePoll
  <2>2. ppkt[c] # 0 /\ LinkHolds(e)' = LinkHolds(e)
        BY <2>1, Zenon DEF Shape, PollShape, LinkHolds
  <2>3. pool'[d] + Waiting(e)' + PollHolds(e)' + LinkHolds(e)'
          = pool[d] + Waiting(e) + PollHolds(e) + LinkHolds(e)
    <3>1. CASE c = e
      <4>1. PollHolds(e)' = 0 /\ PollHolds(e) = 1
            BY <2>1, <2>2, <3>1, ZenonT(40) DEF PollHolds, One
      <4>2. Waiting(e)' = Waiting(e) /\ pool'[d] = pool[d] + 1
            BY <1>16, <2>1, <3>1, Zenon
      <4> QED BY <1>3, <2>2, <4>1, <4>2
    <3>2. CASE c # e
      <4>1. PollHolds(e)' = PollHolds(e)
            BY <2>1, <3>2, ZenonT(40) DEF PollHolds
      <4>2. Waiting(e)' = Waiting(e) /\ pool'[d] = pool[d]
            BY <1>16, <2>1, <3>2, ZenonT(40)
      <4> QED BY <1>3, <2>2, <4>1, <4>2, Zenon
    <3> QED BY <3>1, <3>2, Zenon
  <2> QED BY <1>14, <2>1, <2>3, ZenonT(40)
<1>18. ASSUME NEW c \in Dev, ldd_poll(c) \/ PollTail(c), ~PollTake(c), ~PollRelease(c)
       PROVE  Goal
  <2>1. UNCHANGED <<pool, rxq, irq, pkt, link>>
        BY <1>18, ZenonT(40) DEF ldd_poll, PollStart, PollBudget, PollWake, PollComplete,
           PollTail, PollLook,
           PollAgain, priv, x
  <2>2. PollHolds(e)' = PollHolds(e)
    <3>1. \/ ppkt' = ppkt
          \/ ppc[c] # "put" /\ ppkt'[c] = 0 /\ \A y \in Dev : y # c => ppkt'[y] = ppkt[y]
          BY <1>18, ZenonT(40) DEF ldd_poll, PollStart, PollBudget, PollWake, PollComplete,
             PollTail, PollLook,
             PollAgain, PollAt, p, Types, TypePoll
    <3> QED BY <3>1, Zenon DEF Shape, PollShape, PollHolds, One
  <2>3. LinkHolds(e)' = LinkHolds(e) /\ Waiting(e)' = Waiting(e) /\ pool'[d] = pool[d]
        BY <1>r, <2>1, ZenonT(40) DEF LinkHolds
  <2>4. pool'[d] + Waiting(e)' + PollHolds(e)' + LinkHolds(e)'
          = pool[d] + Waiting(e) + PollHolds(e) + LinkHolds(e)
        BY <2>2, <2>3, ZenonT(40)
  <2> QED BY <1>14, <2>1, <2>4, Zenon
<1>19. ASSUME StopDrain PROVE Goal
  <2>1. PICK c \in Dev : c = link.dev
        BY <1>19, LinkDev, Zenon DEF ldd_stop
  <2>2. ldd_rx_dequeue(c) /\ UNCHANGED <<irq, pkt, ppkt>> /\ pool' = pool /\ link.pkt = 0
        BY <1>19, <2>1, Zenon DEF StopDrain, x, p, ldd_rx_dequeue, Shape, LinkShape
  <2>3. First(c) # 0 <=> ~Empty(c)
        BY FirstIs, Zenon DEF Shape
  <2>4. /\ First(c) = 0 => link'.dev = None /\ link'.pkt = 0
        /\ First(c) # 0 => link'.dev = c /\ link'.pkt = First(c)
        BY <1>19, <2>1, <2>2, <2>3, Zenon DEF StopDrain, Types, TypeCore, LinkState
  <2>5. PollHolds(e)' = PollHolds(e) /\ LinkHolds(e) = 0
        BY <2>2, Zenon DEF PollHolds, LinkHolds, One
  <2>6. pool'[d] + Waiting(e)' + PollHolds(e)' + LinkHolds(e)'
          = pool[d] + Waiting(e) + PollHolds(e) + LinkHolds(e)
    <3>1. CASE c = e /\ First(c) # 0
      <4>1. LinkHolds(e)' = 1
            BY <2>4, <3>1, Zenon DEF LinkHolds, One
      <4>2. Waiting(e)' = Waiting(e) - 1 /\ pool'[d] = pool[d]
            BY <1>10, <2>2, <3>1, Zenon
      <4> QED BY <1>3, <2>5, <4>1, <4>2
    <3>2. CASE ~(c = e /\ First(c) # 0)
      <4>1. LinkHolds(e)' = 0
            BY <2>4, <3>2, Zenon DEF LinkHolds, One
      <4>2. Waiting(e)' = Waiting(e) /\ pool'[d] = pool[d]
            BY <1>10, <2>2, <3>2
      <4> QED BY <1>3, <2>5, <4>1, <4>2, ZenonT(40)
    <3> QED BY <3>1, <3>2, Zenon
  <2> QED BY <1>14, <2>2, <2>6, Zenon
<1>20. ASSUME StopRelease PROVE Goal
  <2>1. PICK c \in Dev : c = link.dev
        BY <1>20, LinkDev, Zenon DEF ldd_stop
  <2>2. ldd_release_buffer(ldd_peer(c)) /\ UNCHANGED <<irq, pkt, ppkt>> /\ link.pkt # 0
        /\ link'.pkt = 0
        BY <1>20, <2>1, Zenon DEF StopRelease, x, p, Shape, LinkShape, Types, TypeCore,
           LinkState
  <2>3. PollHolds(e)' = PollHolds(e) /\ LinkHolds(e)' = 0
        BY <2>2, ZenonT(40) DEF PollHolds, LinkHolds, One
  <2>4. pool'[d] + Waiting(e)' + PollHolds(e)' + LinkHolds(e)'
          = pool[d] + Waiting(e) + PollHolds(e) + LinkHolds(e)
    <3>1. CASE c = e
      <4>1. LinkHolds(e) = 1
            BY <2>1, <2>2, <3>1, Zenon DEF LinkHolds, One
      <4>2. Waiting(e)' = Waiting(e) /\ pool'[d] = pool[d] + 1
            BY <1>16, <2>2, <3>1, ZenonT(40)
      <4> QED BY <1>3, <2>3, <4>1, <4>2
    <3>2. CASE c # e
      <4>1. LinkHolds(e) = 0
            BY <2>1, <2>2, <3>2 DEF LinkHolds, One
      <4>2. Waiting(e)' = Waiting(e) /\ pool'[d] = pool[d]
            BY <1>16, <2>2, <3>2, ZenonT(40)
      <4> QED BY <1>3, <2>3, <4>1, <4>2, Zenon
    <3> QED BY <3>1, <3>2, Zenon
  <2> QED BY <1>14, <2>2, <2>4, Zenon
\* the rest leaves pools and queues alone, and link.pkt is 0 before and after
<1>21. ASSUME UNCHANGED <<pool, rxq, irq, pkt, ppkt>>, link.pkt = 0, link'.pkt = 0
       PROVE  Goal
  <2>1. LinkHolds(e)' = 0 /\ LinkHolds(e) = 0 /\ PollHolds(e)' = PollHolds(e)
        BY <1>21, Zenon DEF LinkHolds, PollHolds, One
  <2>2. Waiting(e)' = Waiting(e) /\ pool'[d] = pool[d]
        BY <1>r, <1>21
  <2>3. pool'[d] + Waiting(e)' + PollHolds(e)' + LinkHolds(e)'
          = pool[d] + Waiting(e) + PollHolds(e) + LinkHolds(e)
        BY <2>1, <2>2, ZenonT(40)
  <2> QED BY <1>14, <1>21, <2>3
<1>22. ASSUME UNCHANGED <<pool, rxq, irq, pkt, ppkt>>, link.pc # "put", link'.pc # "put"
       PROVE  Goal
       BY <1>21, <1>22, BaseKept, ZenonT(40) DEF Shape, LinkShape
<1>23. ASSUME NEW c \in Dev, LinkUp(c) \/ LinkDown(c) PROVE Goal
  <2>1. UNCHANGED <<pool, rxq, irq, pkt, ppkt>> /\ link.pc = "idle"
        BY <1>23, Zenon DEF LinkUp, LinkDown, priv, x, p
  <2>2. link'.pc # "put"
        BY <1>23, ZenonT(40) DEF LinkUp, LinkDown, Types, TypeCore, LinkState
  <2> QED BY <1>22, <2>1, <2>2, Zenon
<1>24. ASSUME ldd_open PROVE Goal
       BY <1>22, <1>24, Zenon DEF ldd_open, x, p, Types, TypeCore, LinkState
<1>25. ASSUME StopReceive \/ NapiDisabled \/ StopWake PROVE Goal
       BY <1>22, <1>25, Zenon DEF StopReceive, NapiDisabled, StopWake, priv, x, p, Types,
          TypeCore, LinkState
<1>26. ASSUME UNCHANGED <<pool, rxq, irq, pkt, ppkt, link>> PROVE Goal
  <2>1. LinkHolds(e)' = LinkHolds(e) /\ PollHolds(e)' = PollHolds(e)
        BY <1>26, ZenonT(40) DEF LinkHolds, PollHolds
  <2>2. Waiting(e)' = Waiting(e) /\ pool'[d] = pool[d]
        BY <1>r, <1>26, Zenon
  <2>3. pool'[d] + Waiting(e)' + PollHolds(e)' + LinkHolds(e)'
          = pool[d] + Waiting(e) + PollHolds(e) + LinkHolds(e)
        BY <2>1, <2>2, Zenon
  <2> QED BY <1>14, <1>26, <2>3, Zenon
<1>27. ASSUME Unregister PROVE Goal
       BY <1>22, <1>27, Zenon DEF Unregister, priv, x, p, Types, TypeCore, LinkState
<1>28. ASSUME ldd_create \/ Register \/ m_exit \/ Unregistered \/ FreeAll \/ Unloaded PROVE Goal
       BY <1>26, <1>28, Zenon DEF ldd_create, Register, m_exit, Unregistered, FreeAll,
          Unloaded, vars,
          priv, x, p
<1> HIDE DEF Goal
<1> QED BY <1>8, <1>9, <1>11, <1>12, <1>13, <1>15, <1>17, <1>18, <1>19, <1>20, <1>23, <1>24,
           <1>25,
           <1>27, <1>28, ZenonT(40) DEF Next, ldd_stop, ldd_destroy, Goal

-------------------------------------------------------------------------------
(* Every skb is in one place.                                              *)

\* The skb of device d is still with its transmit path, in tx_skb, or in the
\* hands of the handler that the path of y runs.
WithPath(d) == One(xpc[d] # "idle" /\ irq[d] # d)
Finished(d) == One(tx_skb[d] # 0)
InHand(y, d) == One(irq[y] = d /\ skb[y] # 0)

Skbs ==
  \A d \in Dev :
    sent[d] = freed[d] + WithPath(d) + Finished(d) + InHand(d, d) + InHand(ldd_peer(d), d)

\* A skb moves from the sender to its path, to tx_skb, to a handler, and is freed.
LEMMA SkbsKept ==
  ASSUME Base, Skbs, Next
  PROVE  Skbs'
<1> USE DEF Base
<1> SUFFICES ASSUME NEW d \in Dev, NEW e \in Dev, e = ldd_peer(d)
             PROVE  sent'[d] = freed'[d] + WithPath(d)' + Finished(d)' + InHand(d, d)' + InHand(e, d)'
      BY Twins, Zenon DEF Skbs
<1>1. e # d /\ ldd_peer(e) = d /\ \A c \in Dev : c = d \/ c = e
      BY Twins, Zenon
<1> DEFINE Goal == sent'[d] = freed'[d] + WithPath(d)' + Finished(d)' + InHand(d, d)' + InHand(e, d)'
<1>2. /\ sent[d] \in Int /\ freed[d] \in Int /\ freed'[d] \in Int
      /\ WithPath(d) \in Int /\ WithPath(d)' \in Int /\ Finished(d) \in Int /\ Finished(d)' \in Int
      BY BaseKept DEF Types, TypeCount, WithPath, Finished, One
<1>3. \A y \in Dev : InHand(y, d) \in Int /\ InHand(y, d)' \in Int
      BY DEF InHand, One
<1>4. sent[d] = freed[d] + WithPath(d) + Finished(d) + InHand(d, d) + InHand(e, d)
      BY Zenon DEF Skbs
<1>5. ASSUME UNCHANGED <<xpc, irq, skb, tx_skb, sent, freed>> PROVE Goal
      BY <1>4, <1>5, Zenon DEF WithPath, Finished, InHand
\* the transmit path of c moves a skb
<1>6. ASSUME NEW c \in Dev, Send(c) \/ Xmit(c), sent'[d] = sent[d],
             freed'[d] + WithPath(d)' + Finished(d)' + InHand(c, d)'
               = freed[d] + WithPath(d) + Finished(d) + InHand(c, d)
      PROVE  Goal
  <2>1. \A y \in Dev : y # c => InHand(y, d)' = InHand(y, d)
        BY <1>6, OnePath DEF InHand
  <2>2. InHand(d, d) \in Int /\ InHand(e, d) \in Int /\ InHand(d, d)' \in Int /\ InHand(e, d)' \in Int
        BY <1>3, Zenon
  <2>3. CASE c = d
    <3>1. InHand(e, d)' = InHand(e, d)
          BY <1>1, <2>1, <2>3, Zenon
    <3> QED BY <1>4, <1>6, <2>3, <3>1, Zenon
  <2>4. CASE c = e
    <3>1. InHand(d, d)' = InHand(d, d)
          BY <1>1, <2>1, <2>4, Zenon
    <3>2. freed'[d] + WithPath(d)' + Finished(d)' + InHand(e, d)'
            = freed[d] + WithPath(d) + Finished(d) + InHand(e, d)
          BY <1>6, <2>4, Zenon
    <3>3. /\ freed[d] + WithPath(d) + Finished(d) + InHand(d, d) + InHand(e, d)
            = freed[d] + WithPath(d) + Finished(d) + InHand(e, d) + InHand(d, d)
          /\ freed'[d] + WithPath(d)' + Finished(d)' + InHand(d, d)' + InHand(e, d)'
            = freed'[d] + WithPath(d)' + Finished(d)' + InHand(e, d)' + InHand(d, d)'
          BY <1>2, <2>2
    <3> QED BY <1>4, <1>6, <3>1, <3>2, <3>3, Zenon
  <2> QED BY <1>1, <2>3, <2>4, Zenon
<1>7. ASSUME NEW c \in Dev, Send(c) \/ Xmit(c), sent'[d] = sent[d], freed'[d] = freed[d],
             WithPath(d)' = WithPath(d), Finished(d)' = Finished(d), InHand(c, d)' = InHand(c, d)
      PROVE  Goal
  <2> HIDE DEF Goal
  <2> QED BY <1>6, <1>7, Zenon
<1>8. ASSUME NEW c \in Dev, ldd_start_xmit(c) PROVE Goal
  <2>1. Send(c) /\ xpc[c] = "idle" /\ Path(c, "wire", None, 0, sent[c] + 1)
        /\ UNCHANGED <<tx_skb, freed>>
        BY <1>8, Zenon DEF Send, ldd_start_xmit, MaySend, ldd_get_tx_buffer, irqs
  <2>2. sent'[c] = sent[c] + 1 /\ \A y \in Dev : y # c => sent'[y] = sent[y]
        BY <1>8, Zenon DEF ldd_start_xmit, MaySend, Types, TypeCount
  <2>3. xpc'[c] = "wire" /\ irq'[c] = None /\ irq[c] = None /\ c # None
        BY <2>1 DEF Path, Types, TypeXmit, Shape, XmitShape, Dev, None
  <2>4. \A y \in Dev : InHand(y, d)' = InHand(y, d)
        BY <2>1, <2>3, OnePath DEF InHand, One, Dev, None
  <2>5. Finished(d)' = Finished(d) /\ freed'[d] = freed[d]
        BY <2>1, Zenon DEF Finished
  <2>6. CASE c = d
    <3>1. WithPath(d) = 0 /\ WithPath(d)' = 1
          BY <2>1, <2>3, <2>6, Zenon DEF WithPath, One
    <3>2. sent'[d] = sent[d] + 1
          BY <2>2, <2>6, Zenon
    <3>3. InHand(d, d) \in Int /\ InHand(e, d) \in Int
          BY <1>3, Zenon
    <3> QED BY <1>2, <1>4, <2>4, <2>5, <3>1, <3>2, <3>3
  <2>7. CASE c # d
    <3>1. WithPath(d)' = WithPath(d)
          BY <2>1, <2>7, OnePath, Zenon DEF WithPath
    <3> HIDE DEF Goal
    <3> QED BY <1>7, <2>1, <2>2, <2>4, <2>5, <2>7, <3>1, Zenon
  <2> QED BY <2>6, <2>7, Zenon
<1>9. ASSUME NEW c \in Dev, ldd_start_xmit_drop(c) PROVE Goal
  <2>1. Send(c) /\ UNCHANGED <<xpc, irq, skb, tx_skb>>
        BY <1>9, Zenon DEF Send, ldd_start_xmit_drop, priv, irqs, x
  <2>2. sent'[c] = sent[c] + 1 /\ \A y \in Dev : y # c => sent'[y] = sent[y]
        BY <1>9, Zenon DEF ldd_start_xmit_drop, MaySend, Types, TypeCount
  <2>3. freed'[c] = freed[c] + 1 /\ \A y \in Dev : y # c => freed'[y] = freed[y]
        BY <1>9, Zenon DEF ldd_start_xmit_drop, Types, TypeCount
  <2>4. /\ WithPath(d)' = WithPath(d) /\ Finished(d)' = Finished(d)
        /\ \A y \in Dev : InHand(y, d)' = InHand(y, d)
        BY <2>1, Zenon DEF WithPath, Finished, InHand
  <2>5. CASE c = d
    <3>1. sent'[d] = sent[d] + 1 /\ freed'[d] = freed[d] + 1
          BY <2>2, <2>3, <2>5, Zenon
    <3>2. InHand(d, d) \in Int /\ InHand(e, d) \in Int
          BY <1>3, Zenon
    <3> QED BY <1>2, <1>4, <2>4, <3>1, <3>2
  <2>6. CASE c # d
    <3> HIDE DEF Goal
    <3> QED BY <1>7, <2>1, <2>2, <2>3, <2>4, <2>6, Zenon
  <2> QED BY <2>5, <2>6, Zenon
<1>10. ASSUME NEW c \in Dev, ldd_rx_enqueue(c) PROVE Goal
  <2>1. Xmit(c) /\ xpc[c] = "wire" /\ irq[c] = None /\ UNCHANGED <<tx_skb, sent, freed>>
        BY <1>10, Zenon DEF Xmit, ldd_rx_enqueue, Shape, XmitShape
  <2>2. xpc'[c] # "idle" /\ irq'[c] # c /\ skb'[c] = 0 /\ skb[c] = 0
    <3>1. skb[c] = 0
          BY <2>1, Zenon DEF Shape, XmitShape
    <3>2. c # None /\ c # ldd_peer(c)
          BY Twins, Zenon DEF Dev, None
    <3> QED BY <1>10, <2>1, <3>1, <3>2, Enqueue DEF Path, Goto, Types, TypeXmit
  <2>3. WithPath(d)' = WithPath(d)
    <3>1. CASE c = d
      <4>1. None # d
            BY Twins DEF Dev, None
      <4> QED BY <2>1, <2>2, <3>1, <4>1, Zenon DEF WithPath, One
    <3>2. CASE c # d
          BY <2>1, <3>2, OnePath DEF WithPath
    <3> QED BY <3>1, <3>2, Zenon
  <2>4. Finished(d)' = Finished(d) /\ InHand(c, d)' = InHand(c, d)
        BY <2>1, <2>2, Zenon DEF Finished, InHand, One
  <2> HIDE DEF Goal
  <2> QED BY <1>7, <2>1, <2>3, <2>4, Zenon
<1>11. ASSUME NEW c \in Dev, TxInterrupt(c) PROVE Goal
  <2>1. Xmit(c) /\ xpc[c] = "sent" /\ irq[c] = None /\ Path(c, "ack", c, 0, 0)
        /\ tx_skb' = [tx_skb EXCEPT ![c] = sent[c]] /\ UNCHANGED <<sent, freed>>
        BY <1>11, Zenon DEF Xmit, TxInterrupt, Shape, XmitShape
  <2>2. tx_skb'[c] = sent[c] /\ sent[c] # 0 /\ tx_skb[c] = 0
        /\ \A y \in Dev : y # c => tx_skb'[y] = tx_skb[y]
    <3>1. tx_skb'[c] = sent[c] /\ \A y \in Dev : y # c => tx_skb'[y] = tx_skb[y]
          BY <2>1, Zenon DEF Types, TypePriv
    <3>2. tx_skb[c] = 0
          BY <2>1, Zenon DEF Interrupts
    <3>3. sent[c] > 0 /\ sent[c] \in Nat
          BY <2>1, Zenon DEF Types, TypeCount, Shape, XmitShape
    <3> QED BY <3>1, <3>2, <3>3
  <2>3. irq'[c] = c /\ skb'[c] = 0 /\ skb[c] = 0
        BY <2>1, Zenon DEF Path, Types, TypeXmit, Shape, XmitShape
  <2>4. InHand(c, d)' = 0 /\ InHand(c, d) = 0
        BY <2>3, Zenon DEF InHand, One
  <2>5. CASE c = d
    <3>1. WithPath(d) = 1 /\ WithPath(d)' = 0
          BY <2>1, <2>3, <2>5 DEF WithPath, One, Dev, None
    <3>2. Finished(d) = 0 /\ Finished(d)' = 1
          BY <2>2, <2>5, Zenon DEF Finished, One
    <3>3. freed'[d] + WithPath(d)' + Finished(d)' + InHand(c, d)'
            = freed[d] + WithPath(d) + Finished(d) + InHand(c, d)
          BY <1>2, <2>1, <2>4, <3>1, <3>2
    <3> HIDE DEF Goal
    <3> QED BY <1>6, <2>1, <3>3
  <2>6. CASE c # d
    <3>1. WithPath(d)' = WithPath(d) /\ Finished(d)' = Finished(d)
          BY <2>1, <2>2, <2>6, OnePath DEF WithPath, Finished
    <3> HIDE DEF Goal
    <3> QED BY <1>7, <2>1, <2>4, <3>1, Zenon
  <2> QED BY <2>5, <2>6, Zenon
<1>12. ASSUME NEW c \in Dev, ldd_ack_interrupt(c) PROVE Goal
  <2>1. PICK i \in Dev : i = irq[c]
        BY <1>12, Zenon DEF ldd_ack_interrupt, Shape, XmitShape
  <2>2. Xmit(c) /\ xpc[c] = "ack" /\ UNCHANGED <<sent, freed>> /\ skb[c] = 0
        BY <1>12, Zenon DEF Xmit, ldd_ack_interrupt, Shape, XmitShape
  <2>3. xpc'[c] # "idle" /\ irq' = irq
    <3>1. irq' = [irq EXCEPT ![c] = i] /\ xpc'[c] \in {"rx", "fin"}
          BY <1>12, <2>1, Zenon DEF ldd_ack_interrupt, Path, Types, TypeXmit
    <3> QED BY <2>1, <3>1 DEF Types, TypeXmit
  <2>4. /\ tx_skb'[i] = 0 /\ skb'[c] = tx_skb[i]
        /\ \A y \in Dev : y # i => tx_skb'[y] = tx_skb[y]
    <3>1. CASE "TX" \in status[i]
          BY <1>12, <2>1, <3>1, Zenon DEF ldd_ack_interrupt, Path, Types, TypeXmit, TypePriv
    <3>2. CASE "TX" \notin status[i]
      <4>1. tx_skb[i] = 0
            BY <3>2, Zenon DEF Interrupts
      <4> QED BY <1>12, <2>1, <3>2, <4>1, Zenon
              DEF ldd_ack_interrupt, Path, Types, TypeXmit, TypePriv
    <3> QED BY <3>1, <3>2, Zenon
  <2>5. WithPath(d)' = WithPath(d)
        BY <2>2, <2>3, OnePath DEF WithPath
  <2>6. CASE i = d
    <3>1. /\ InHand(c, d) = 0 /\ Finished(d)' = 0 /\ InHand(c, d)' = Finished(d)
          BY <2>1, <2>2, <2>3, <2>4, <2>6, Zenon DEF InHand, Finished, One
    <3>2. freed'[d] + WithPath(d)' + Finished(d)' + InHand(c, d)'
            = freed[d] + WithPath(d) + Finished(d) + InHand(c, d)
          BY <1>2, <2>2, <2>5, <3>1
    <3> HIDE DEF Goal
    <3> QED BY <1>6, <2>2, <3>2, Zenon
  <2>7. CASE i # d
    <3>1. /\ InHand(c, d) = 0 /\ InHand(c, d)' = 0 /\ Finished(d)' = Finished(d)
          BY <2>1, <2>3, <2>4, <2>7, Zenon DEF InHand, Finished, One
    <3> HIDE DEF Goal
    <3> QED BY <1>7, <2>2, <2>5, <3>1, Zenon
  <2> QED BY <2>6, <2>7, Zenon
<1>13. ASSUME NEW c \in Dev, ldd_regular_interrupt(c) \/ ldd_napi_interrupt(c) \/ XmitRelease(c)
                              \/ XmitWake(c)
       PROVE  Goal
  <2>1. Xmit(c) /\ xpc[c] # "idle" /\ UNCHANGED <<tx_skb, sent, freed>>
        BY <1>13, ZenonT(40) DEF Xmit, ldd_regular_interrupt, ldd_napi_interrupt, XmitRelease,
           XmitWake,
           ldd_rx_dequeue, ldd_release_buffer, irqs, priv
  <2>2. xpc'[c] # "idle" /\ irq'[c] = irq[c] /\ skb'[c] = skb[c]
        BY <1>13 DEF ldd_regular_interrupt, ldd_napi_interrupt, XmitRelease, XmitWake,
           Released, Path, Goto, Types, TypeXmit
  <2>3. WithPath(d)' = WithPath(d)
        BY <2>1, <2>2, OnePath, ZenonT(40) DEF WithPath
  <2>4. InHand(c, d)' = InHand(c, d) /\ Finished(d)' = Finished(d)
        BY <2>1, <2>2, Zenon DEF InHand, Finished
  <2> HIDE DEF Goal
  <2> QED BY <1>7, <2>1, <2>3, <2>4, Zenon
<1>14. ASSUME NEW c \in Dev, HandlerEnd(c) PROVE Goal
  <2>1. PICK i \in Dev : i = irq[c]
        BY <1>14, Zenon DEF HandlerEnd, Shape, XmitShape
  <2>2. Xmit(c) /\ xpc[c] = "fin" /\ UNCHANGED <<sent, tx_skb>>
        BY <1>14, Zenon DEF Xmit, HandlerEnd, priv, irqs
  <2>3. irq'[c] = None /\ xpc'[c] = IF i = c THEN "idle" ELSE "sent"
        BY <1>14, <2>1, Zenon DEF HandlerEnd, Path, Types, TypeXmit
  <2>4. /\ freed'[i] = IF skb[c] # 0 THEN freed[i] + 1 ELSE freed[i]
        /\ \A y \in Dev : y # i => freed'[y] = freed[y]
        BY <1>14, <2>1, Zenon DEF HandlerEnd, Types, TypeCount
  <2>5. WithPath(d)' = WithPath(d)
    <3>1. CASE c = d
          BY <2>1, <2>2, <2>3, <3>1 DEF WithPath, One, Dev, None
    <3>2. CASE c # d
          BY <2>2, <3>2, OnePath, Zenon DEF WithPath
    <3> QED BY <3>1, <3>2, Zenon
  <2>6. InHand(c, d)' = 0 /\ Finished(d)' = Finished(d)
        BY <2>2, <2>3 DEF InHand, Finished, One, Dev, None
  <2>7. CASE i = d /\ skb[c] # 0
    <3>1. InHand(c, d) = 1 /\ freed'[d] = freed[d] + 1
          BY <2>1, <2>4, <2>7, Zenon DEF InHand, One
    <3>2. freed'[d] + WithPath(d)' + Finished(d)' + InHand(c, d)'
            = freed[d] + WithPath(d) + Finished(d) + InHand(c, d)
          BY <1>2, <2>5, <2>6, <3>1
    <3> HIDE DEF Goal
    <3> QED BY <1>6, <2>2, <3>2, Zenon
  <2>8. CASE ~(i = d /\ skb[c] # 0)
    <3>1. InHand(c, d) = 0 /\ freed'[d] = freed[d]
          BY <2>1, <2>4, <2>8, Zenon DEF InHand, One
    <3> HIDE DEF Goal
    <3> QED BY <1>7, <2>2, <2>5, <2>6, <3>1, Zenon
  <2> QED BY <2>7, <2>8, Zenon
\* everybody else leaves the skbs alone
<1>15. ASSUME NEW c \in Dev, ldd_poll(c) \/ PollTail(c) PROVE Goal
       BY <1>5, <1>15, Zenon DEF ldd_poll, PollStart, PollTake, PollBudget, PollRelease,
          PollWake,
          PollComplete, PollTail, PollLook, PollAgain, ldd_rx_dequeue, ldd_release_buffer,
          irqs, priv, x
<1>16. ASSUME NEW c \in Dev, LinkUp(c) \/ LinkDown(c) PROVE Goal
       BY <1>5, <1>16 DEF LinkUp, LinkDown, priv, irqs, x
<1>17. ASSUME ldd_open \/ ldd_stop PROVE Goal
       BY <1>5, <1>17, Zenon DEF ldd_open, ldd_stop, StopReceive, NapiDisabled, StopDrain,
          StopRelease,
          StopWake, ldd_rx_dequeue, ldd_release_buffer, irqs, priv, x
<1>18. ASSUME ldd_create \/ Register \/ m_exit \/ ldd_destroy \/ Unloaded PROVE Goal
       BY <1>5, <1>18, Zenon DEF ldd_create, Register, m_exit, ldd_destroy, Unregister,
          Unregistered,
          FreeAll, Unloaded, vars, irqs, priv, x
<1> HIDE DEF Goal
<1> QED BY <1>8, <1>9, <1>10, <1>11, <1>12, <1>13, <1>14, <1>15, <1>16, <1>17, <1>18, Zenon
        DEF Next, Send, Xmit, Goal

\* What the property says of buffers and skbs, path by path and summed up.
LEMMA AllConserved ==
  ASSUME Base, Buffers, Skbs
  PROVE  Conserved
<1> USE DEF Base
<1> SUFFICES ASSUME NEW d \in Dev, NEW e \in Dev, e = ldd_peer(d)
             PROVE  /\ pool_size = pool[d] + Len(rxq[e])
                          + One(irq[d] = None /\ pkt[d] # 0)
                          + Count({y \in Dev : irq[y] = e /\ pkt[y] # 0})
                          + One(ppkt[e] # 0)
                          + One(link.dev = e /\ link.pkt # 0)
                    /\ sent[d] = freed[d] + One(xpc[d] # "idle" /\ irq[d] # d)
                          + One(tx_skb[d] # 0)
                          + Count({y \in Dev : irq[y] = d /\ skb[y] # 0})
      BY Twins DEF Conserved
<1>1. e # d /\ ldd_peer(e) = d /\ d # None /\ e # None
      BY Twins, Zenon DEF Dev, None
<1>2. Count({y \in Dev : irq[y] = e /\ pkt[y] # 0})
        = One(irq[d] = e /\ pkt[d] # 0) + One(irq[e] = e /\ pkt[e] # 0)
  <2> DEFINE S == {y \in Dev : irq[y] = e /\ pkt[y] # 0}
  <2>1. Count(S) = One(d \in S) + One(e \in S)
        BY CountDev, Zenon
  <2>2. /\ d \in S <=> irq[d] = e /\ pkt[d] # 0
        /\ e \in S <=> irq[e] = e /\ pkt[e] # 0
        BY Zenon
  <2> HIDE DEF S
  <2>3. Count(S) = One(irq[d] = e /\ pkt[d] # 0) + One(irq[e] = e /\ pkt[e] # 0)
        BY <2>1, <2>2, Zenon DEF One
  <2> QED BY <2>3, Zenon DEF S
<1>3. Count({y \in Dev : irq[y] = d /\ skb[y] # 0}) = InHand(d, d) + InHand(e, d)
  <2> DEFINE S == {y \in Dev : irq[y] = d /\ skb[y] # 0}
  <2>1. Count(S) = One(d \in S) + One(e \in S)
        BY CountDev, Zenon
  <2>2. /\ d \in S <=> irq[d] = d /\ skb[d] # 0
        /\ e \in S <=> irq[e] = d /\ skb[e] # 0
        BY Zenon
  <2> HIDE DEF S
  <2>3. Count(S) = InHand(d, d) + InHand(e, d)
        BY <2>1, <2>2, Zenon DEF One, InHand
  <2> QED BY <2>3, Zenon DEF S
<1>4. Holds(e, d) = One(irq[e] = e /\ pkt[e] # 0)
      BY <1>1, Twins, Zenon DEF Holds, Owner, One, Types, TypeXmit, Dev, None
<1>5. Holds(d, d) = One(irq[d] = None /\ pkt[d] # 0) + One(irq[d] = e /\ pkt[d] # 0)
      BY <1>1, Twins DEF Holds, Owner, One, Types, TypeXmit, Dev, None
<1>6. pool_size = pool[d] + Len(rxq[e]) + Holds(d, d) + Holds(e, d) + PollHolds(e) + LinkHolds(e)
      BY Zenon DEF Buffers, Waiting
<1>7. sent[d] = freed[d] + WithPath(d) + Finished(d) + InHand(d, d) + InHand(e, d)
      BY Zenon DEF Skbs
<1>8. /\ pool[d] \in Int /\ Len(rxq[e]) \in Int /\ sent[d] \in Int /\ freed[d] \in Int
      /\ PollHolds(e) \in Int /\ LinkHolds(e) \in Int
      BY DEF Types, TypePriv, TypeCount, PollHolds, LinkHolds, One
<1>10. pool_size = pool[d] + Len(rxq[e]) + One(irq[d] = None /\ pkt[d] # 0)
                  + (One(irq[d] = e /\ pkt[d] # 0) + One(irq[e] = e /\ pkt[e] # 0))
                  + PollHolds(e) + LinkHolds(e)
  <2>1. /\ One(irq[d] = None /\ pkt[d] # 0) \in Int
        /\ One(irq[d] = e /\ pkt[d] # 0) \in Int /\ One(irq[e] = e /\ pkt[e] # 0) \in Int
        BY DEF One
  <2>2. PICK h1, h2, h3 \in Int : /\ h1 = One(irq[d] = None /\ pkt[d] # 0)
                                  /\ h2 = One(irq[d] = e /\ pkt[d] # 0)
                                  /\ h3 = One(irq[e] = e /\ pkt[e] # 0)
        BY <2>1, Zenon
  <2>3. pool_size = pool[d] + Len(rxq[e]) + (h1 + h2) + h3 + PollHolds(e) + LinkHolds(e)
        BY <1>4, <1>5, <1>6, <2>2, Zenon
  <2>4. pool[d] + Len(rxq[e]) + (h1 + h2) + h3 + PollHolds(e) + LinkHolds(e)
          = pool[d] + Len(rxq[e]) + h1 + (h2 + h3) + PollHolds(e) + LinkHolds(e)
    <3>1. PICK m \in Int : m = pool[d] + Len(rxq[e])
          BY <1>8
    <3>2. m + (h1 + h2) + h3 = m + h1 + (h2 + h3)
          OBVIOUS
    <3> QED BY <3>1, <3>2, Zenon
  <2>5. pool_size = pool[d] + Len(rxq[e]) + h1 + (h2 + h3) + PollHolds(e) + LinkHolds(e)
        BY <2>3, <2>4, Zenon
  <2> QED BY <2>2, <2>5, Zenon
<1>11. sent[d] = freed[d] + WithPath(d) + Finished(d) + (InHand(d, d) + InHand(e, d))
  <2>1. WithPath(d) \in Int /\ Finished(d) \in Int /\ InHand(d, d) \in Int /\ InHand(e, d) \in Int
        BY DEF WithPath, Finished, InHand, One
  <2> QED BY <1>7, <1>8, <2>1
<1> QED BY <1>2, <1>3, <1>10, <1>11, Zenon DEF PollHolds, LinkHolds, WithPath, Finished

===============================================================================
