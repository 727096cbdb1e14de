------------------------------ MODULE NetdevBase ------------------------------
(***************************************************************************)
(* What every state of 30_netdev satisfies: the types, where the threads   *)
(* are, the interrupts, the wake-up of a stopped queue, and somebody to    *)
(* come for every queued frame.  Each part is shown to be kept by every    *)
(* step.  NetdevCounts adds one place for every buffer and every skb, and  *)
(* NetdevProofs draws the theorems from all of them.                       *)
(***************************************************************************)
EXTENDS Netdev, TLAPS

XmitPC == {"idle", "wire", "put", "wake", "sent", "ack", "rx", "sched", "fin"}
PollPC == {"idle", "take", "put", "wake", "complete"}
LinkState == [pc : {"idle", "open", "stop", "disable", "drain", "put", "wake"},
              dev : Dev \cup {None}, pkt : Nat, ups : Nat]
LoadState == [pc : {"create", "register", "loaded", "unregister", "done"},
              i : 0..2, n : 0..2]
NapiState == [state : {"off", "idle", "sched"}, missed : BOOLEAN, disable : BOOLEAN]

TypeParam ==
  /\ use_napi \in BOOLEAN /\ pool_size \in Nat
  /\ life \in [Dev -> {"absent", "made", "registered", "gone", "freed"}]
  /\ up \in [Dev -> BOOLEAN]
  /\ load \in LoadState
TypePriv ==
  /\ pool \in [Dev -> Nat] /\ rxq \in [Dev -> Seq(Nat)]
  /\ status \in [Dev -> SUBSET {"RX", "TX"}] /\ tx_skb \in [Dev -> Nat]
  /\ running \in [Dev -> BOOLEAN] /\ rx_int_enabled \in [Dev -> BOOLEAN]
TypeXmit ==
  /\ xpc \in [Dev -> XmitPC] /\ irq \in [Dev -> Dev \cup {None}]
  /\ skb \in [Dev -> Nat] /\ pkt \in [Dev -> Nat]
TypePoll ==
  /\ ppc \in [Dev -> PollPC] /\ ppkt \in [Dev -> Nat] /\ done \in [Dev -> Nat]
  /\ tail \in [Dev -> {"none", "look", "again"}]
TypeCore ==
  /\ stopped \in [Dev -> BOOLEAN] /\ napi \in [Dev -> NapiState]
  /\ link \in LinkState
TypeCount ==
  /\ sent \in [Dev -> Nat] /\ freed \in [Dev -> Nat]
  /\ passed \in [Dev -> Seq(Nat)]
Types == TypeParam /\ TypePriv /\ TypeXmit /\ TypePoll /\ TypeCore /\ TypeCount

\* What a thread is doing says what it holds.
XmitShape ==
  \A d \in Dev :
    /\ xpc[d] \in {"idle", "wire", "sent"} => irq[d] = None
    /\ xpc[d] \in {"ack", "rx", "sched", "fin"} => irq[d] \in Dev
    /\ pkt[d] # 0 <=> xpc[d] \in {"wire", "put"}
    /\ irq[d] = None \/ xpc[d] = "ack" => skb[d] = 0
    /\ xpc[d] = "sched" => use_napi
    /\ irq[d] \in Dev /\ xpc[d] \in {"put", "wake"} => ~use_napi
    /\ xpc[d] # "idle" => sent[d] > 0
    /\ irq[d] = None /\ pkt[d] # 0 => pkt[d] = sent[d]
PollShape ==
  \A d \in Dev :
    /\ ppkt[d] # 0 <=> ppc[d] = "put"
    /\ ppc[d] = "idle" => done[d] = 0
QueueShape == \A d \in Dev : \A i \in 1..Len(rxq[d]) : rxq[d][i] # 0
LinkShape ==
  /\ link.pkt # 0 <=> link.pc = "put"
  /\ link.dev = None <=> link.pc = "idle"
Shape == XmitShape /\ PollShape /\ QueueShape /\ LinkShape

\* What the rtnl holder is doing says which devices run.
At(d, pcs) == link.dev = d /\ link.pc \in pcs
LinkRuns ==
  \A d \in Dev :
    /\ up[d] => link.dev # d
    /\ running[d] <=> up[d] \/ At(d, {"stop"})
NapiRuns ==
  \A d \in Dev :
    /\ napi[d].state # "off" <=> use_napi /\ (up[d] \/ At(d, {"open", "stop", "disable"}))
    /\ napi[d].disable <=> At(d, {"disable"})
    /\ ppc[d] # "idle" => napi[d].state = "sched"
    /\ tail[d] # "none" => use_napi
QueueRuns ==
  \A d \in Dev :
    rxq[d] # <<>> => running[d] \/ At(d, {"disable", "drain", "put", "wake"})
XmitRuns == \A d \in Dev : xpc[d] # "idle" => running[d]
Runs == LinkRuns /\ NapiRuns /\ QueueRuns /\ XmitRuns

\* Who raised an interrupt runs its handler, and has not acknowledged it yet.
Interrupts ==
  \A d \in Dev :
    /\ "TX" \in status[d] <=> tx_skb[d] # 0
    /\ "TX" \in status[d] => irq[d] = d /\ xpc[d] = "ack"
    /\ "RX" \in status[d] => irq[ldd_peer(d)] = d /\ xpc[ldd_peer(d)] = "ack"

Base == Types /\ Shape /\ Runs /\ Interrupts

\* There are two devices, each the twin of the other.
LEMMA Twins ==
  ASSUME NEW d \in Dev
  PROVE  /\ ldd_peer(d) \in Dev /\ ldd_peer(d) # d /\ ldd_peer(ldd_peer(d)) = d
         /\ \A c \in Dev : c = d \/ c = ldd_peer(d)
         /\ None \notin Dev
BY DEF Dev, ldd_peer, None

\* Elements of a queue after an Append or a Tail.
LEMMA Appended ==
  ASSUME NEW q \in Seq(Nat), NEW k \in Nat
  PROVE  /\ Append(q, k) \in Seq(Nat) /\ Len(Append(q, k)) = Len(q) + 1 /\ Len(q) \in Nat
         /\ \A i \in 1..Len(q) : Append(q, k)[i] = q[i]
         /\ Append(q, k)[Len(q) + 1] = k
OBVIOUS

\* A sequence without its first element.
LEMMA Tailed ==
  ASSUME NEW q \in Seq(Nat), q # <<>>
  PROVE  /\ Tail(q) \in Seq(Nat) /\ Head(q) \in Nat /\ Head(q) = q[1]
         /\ Len(q) \in Nat /\ Len(q) > 0 /\ Len(Tail(q)) = Len(q) - 1
         /\ \A i \in 1..(Len(q) - 1) : Tail(q)[i] = q[i + 1]
OBVIOUS

\* The packet at the head of the receive queue, and the queue without it.
LEMMA Dequeue ==
  ASSUME Types, NEW d \in Dev, ldd_rx_dequeue(d)
  PROVE  /\ UNCHANGED <<pool, status, tx_skb, running, rx_int_enabled>>
         /\ First(d) \in Nat /\ rxq' \in [Dev -> Seq(Nat)]
         /\ rxq'[ldd_peer(d)] = rxq[ldd_peer(d)]
         /\ Empty(d) => First(d) = 0 /\ rxq'[d] = rxq[d]
         /\ ~Empty(d) => First(d) = Head(rxq[d]) /\ rxq'[d] = Tail(rxq[d])
<1>1. UNCHANGED <<pool, status, tx_skb, running, rx_int_enabled>>
      BY Zenon DEF ldd_rx_dequeue, irqs, modes
<1>2. ~Empty(d) => Head(rxq[d]) \in Nat /\ Tail(rxq[d]) \in Seq(Nat)
      BY DEF Types, TypePriv, Empty
<1>3. /\ First(d) \in Nat
      /\ Empty(d) => First(d) = 0
      /\ ~Empty(d) => First(d) = Head(rxq[d])
      BY <1>2, Zenon DEF First
<1> DEFINE q == IF Empty(d) THEN rxq[d] ELSE Tail(rxq[d])
<1>4. q \in Seq(Nat) /\ rxq' = [rxq EXCEPT ![d] = q]
      BY <1>2, Zenon DEF ldd_rx_dequeue, Types, TypePriv
<1>5. (Empty(d) => q = rxq[d]) /\ (~Empty(d) => q = Tail(rxq[d]))
      BY Zenon
<1> HIDE DEF q
<1>6. rxq' \in [Dev -> Seq(Nat)] /\ rxq'[d] = q /\ rxq'[ldd_peer(d)] = rxq[ldd_peer(d)]
      BY <1>4, Twins, Zenon DEF Types, TypePriv
<1> QED BY <1>1, <1>3, <1>5, <1>6, Zenon

\* No packet is numbered 0, which stands for "none".
LEMMA FirstIs ==
  ASSUME Types, QueueShape, NEW d \in Dev
  PROVE  First(d) \in Nat /\ (First(d) # 0 <=> ~Empty(d))
<1>1. rxq[d] \in Seq(Nat)
      BY Zenon DEF Types, TypePriv
<1>2. CASE rxq[d] # <<>>
  <2>1. Head(rxq[d]) = rxq[d][1] /\ 1 \in 1..Len(rxq[d]) /\ Head(rxq[d]) \in Nat
        BY <1>1, <1>2
  <2> QED BY <1>2, <2>1, Zenon DEF QueueShape, Empty, First
<1> QED BY <1>2, Zenon DEF Empty, First

\* A buffer goes back to the pool of device e.
LEMMA Release ==
  ASSUME Types, NEW e \in Dev, ldd_release_buffer(e)
  PROVE  /\ UNCHANGED <<rxq, status, tx_skb, running, rx_int_enabled>>
         /\ pool' \in [Dev -> Nat] /\ pool'[e] = pool[e] + 1
         /\ pool'[ldd_peer(e)] = pool[ldd_peer(e)]
         /\ TypePriv'
<1>1. UNCHANGED <<rxq, status, tx_skb, running, rx_int_enabled>>
      BY Zenon DEF ldd_release_buffer, irqs, modes
<1>2. /\ pool' \in [Dev -> Nat] /\ pool'[e] = pool[e] + 1
      /\ pool'[ldd_peer(e)] = pool[ldd_peer(e)]
      BY Twins DEF ldd_release_buffer, Types, TypePriv
<1> QED BY <1>1, <1>2, Zenon DEF Types, TypePriv

\* A transmit path moves on, the one of the twin stays where it is.
LEMMA Moves ==
  ASSUME Types, NEW d \in Dev, NEW pc \in XmitPC, NEW i \in Dev \cup {None},
         NEW s \in Nat, NEW k \in Nat, Path(d, pc, i, s, k)
  PROVE  /\ TypeXmit'
         /\ xpc'[d] = pc /\ irq'[d] = i /\ skb'[d] = s /\ pkt'[d] = k
         /\ \A c \in Dev : c # d => /\ xpc'[c] = xpc[c] /\ irq'[c] = irq[c]
                                  /\ skb'[c] = skb[c] /\ pkt'[c] = pkt[c]
BY Zenon DEF Types, TypeXmit, Path

\* A transmit path moves on with what it holds, the one of the twin stays.
LEMMA Goes ==
  ASSUME Types, NEW d \in Dev, NEW pc \in XmitPC, Goto(d, pc)
  PROVE  /\ TypeXmit' /\ UNCHANGED <<irq, skb, pkt>>
         /\ xpc'[d] = pc /\ \A c \in Dev : c # d => xpc'[c] = xpc[c]
BY Zenon DEF Types, TypeXmit, Goto

\* What ldd_rx_enqueue() does: the frame is not taken, or it is queued, with
\* an interrupt or without one.
LEMMA Enqueue ==
  ASSUME Types, NEW d \in Dev, ldd_rx_enqueue(d)
  PROVE  LET e == ldd_peer(d) IN
         /\ TypeXmit' /\ TypePriv' /\ xpc[d] = "wire"
         /\ UNCHANGED <<pool, tx_skb, running, rx_int_enabled>>
         /\ rxq'[d] = rxq[d] /\ status'[d] = status[d]
         /\ \/ ~running[e] /\ UNCHANGED <<rxq, status>> /\ Goto(d, "put")
            \/ /\ running[e] /\ rx_int_enabled[e] /\ rxq'[e] = Append(rxq[e], pkt[d])
               /\ status'[e] = status[e] \cup {"RX"} /\ Path(d, "ack", e, 0, 0)
            \/ /\ running[e] /\ ~rx_int_enabled[e] /\ rxq'[e] = Append(rxq[e], pkt[d])
               /\ status' = status /\ Path(d, "sent", None, 0, 0)
<1> DEFINE e == ldd_peer(d)
<1>0. e \in Dev /\ e # d
      BY Twins, Zenon
<1>1. UNCHANGED <<pool, tx_skb, running, rx_int_enabled>> /\ xpc[d] = "wire"
      BY Zenon DEF modes, ldd_rx_enqueue
<1>2. CASE ~running[e]
  <2>1. UNCHANGED <<rxq, status>> /\ Goto(d, "put")
        BY <1>2, Zenon DEF ldd_rx_enqueue
  <2>2. TypePriv'
        BY <1>1, <2>1, Zenon DEF Types, TypePriv
  <2>3. TypeXmit'
        BY <2>1, Goes, Zenon DEF XmitPC
  <2> QED BY <1>1, <1>2, <2>1, <2>2, <2>3, Zenon
<1>3. CASE running[e]
  <2>1. Append(rxq[e], pkt[d]) \in Seq(Nat)
        BY <1>0 DEF Types, TypePriv, TypeXmit
  <2>2. rxq' = [rxq EXCEPT ![e] = Append(rxq[e], pkt[d])]
        BY <1>3, Zenon DEF Queued, ldd_rx_enqueue
  <2>3. /\ rxq' \in [Dev -> Seq(Nat)]
        /\ rxq'[d] = rxq[d] /\ rxq'[e] = Append(rxq[e], pkt[d])
        BY <1>0, <2>1, <2>2, Zenon DEF Types, TypePriv
  <2> DEFINE s == IF rx_int_enabled[e] THEN status[e] \cup {"RX"} ELSE status[e]
  <2>4. status' = [status EXCEPT ![e] = s]
        BY <1>3, Zenon DEF ldd_rx_enqueue
  <2>5. s \in SUBSET {"RX", "TX"}
        BY <1>0, Zenon DEF Types, TypePriv
  <2>6. /\ rx_int_enabled[e] => s = status[e] \cup {"RX"} /\ Path(d, "ack", e, 0, 0)
        /\ ~rx_int_enabled[e] => s = status[e] /\ Path(d, "sent", None, 0, 0)
        BY <1>3, Zenon DEF ldd_rx_enqueue
  <2> HIDE DEF s
  <2>7. /\ status' \in [Dev -> SUBSET {"RX", "TX"}] /\ status'[d] = status[d] /\ status'[e] = s
        /\ s = status[e] => status' = status
        BY <1>0, <2>4, <2>5, Zenon DEF Types, TypePriv
  <2>8. TypePriv'
        BY <1>1, <2>3, <2>7, Zenon DEF Types, TypePriv
  <2>9. TypeXmit'
        BY <1>0, <2>6, Moves, Zenon DEF XmitPC
  <2> QED BY <1>1, <1>3, <2>3, <2>6, <2>7, <2>8, <2>9, Zenon
<1> QED BY <1>2, <1>3, Zenon

\* napi_schedule() and napi_complete_done().
LEMMA NapiCalls ==
  ASSUME NEW n \in NapiState
  PROVE  /\ Scheduled(n) \in NapiState /\ Completed(n) \in NapiState
         /\ Scheduled(n).disable = n.disable /\ Completed(n).disable = n.disable
         /\ Scheduled(n).state = "off" <=> n.state = "off"
         /\ n.state = "sched" => Scheduled(n).state = "sched"
         /\ n.state # "off" /\ ~n.disable => Scheduled(n).state = "sched"
         /\ Completed(n).state = IF n.missed THEN n.state ELSE "idle"
BY Zenon DEF NapiState, Scheduled, Completed


\* What the transmit path leaves alone.
LEMMA XmitFrame ==
  ASSUME NEW d \in Dev, Send(d) \/ Xmit(d)
  PROVE  UNCHANGED <<use_napi, pool_size, life, up, load, running, ppc, ppkt, done, tail, link>>
BY Zenon DEF Send, Xmit, ldd_start_xmit, ldd_start_xmit_drop, MaySend, ldd_get_tx_buffer,
       ldd_rx_enqueue, TxInterrupt, ldd_ack_interrupt, ldd_regular_interrupt,
       ldd_rx_dequeue, ldd_napi_interrupt, XmitRelease, ldd_release_buffer, XmitWake,
       HandlerEnd, core, param, priv, irqs, modes, p

\* What the poll leaves alone.
LEMMA PollFrame ==
  ASSUME NEW d \in Dev, ldd_poll(d) \/ PollTail(d)
  PROVE  UNCHANGED <<use_napi, pool_size, life, up, load, status, tx_skb, running,
                     xpc, irq, skb, pkt, link, sent, freed>>
BY Zenon DEF ldd_poll, PollTail, PollStart, PollTake, PollBudget, PollRelease, PollWake,
       PollComplete, PollLook, PollAgain, ldd_rx_dequeue, ldd_release_buffer,
       core, param, priv, irqs, modes, x

\* What bringing a device up or down leaves alone.
LEMMA LinkFrame ==
  ASSUME (\E d \in Dev : LinkUp(d) \/ LinkDown(d)) \/ ldd_open \/ ldd_stop
  PROVE  UNCHANGED <<use_napi, pool_size, life, load, status, tx_skb, xpc, irq, skb, pkt,
                     ppc, ppkt, done, tail, sent, freed, passed>>
BY Zenon DEF LinkUp, LinkDown, ldd_open, ldd_stop, StopReceive, NapiDisabled, StopDrain,
       StopRelease, StopWake, ldd_rx_dequeue, ldd_release_buffer,
       core, param, priv, irqs, modes, x, p

\* What loading and unloading the module leaves alone.
LEMMA LoadFrame ==
  ASSUME ldd_create \/ Register \/ m_exit \/ ldd_destroy
  PROVE  UNCHANGED <<use_napi, pool_size, pool, rxq, status, tx_skb, running, rx_int_enabled,
                     stopped, napi, xpc, irq, skb, pkt, ppc, ppkt, done, tail,
                     sent, freed, passed>>
BY Zenon DEF ldd_create, Register, m_exit, ldd_destroy, Unregister, Unregistered, FreeAll,
       param, priv, irqs, modes, x, p

\* No step puts anything but a place, a device, a skb or a packet in a transmit path.
LEMMA TypeXmitKept ==
  ASSUME Types, Shape, Next
  PROVE  TypeXmit'
<1> USE DEF Types, TypeXmit, TypePriv, TypeCount, XmitPC, Path, Goto
<1>1. ASSUME NEW d \in Dev, ldd_start_xmit(d) PROVE TypeXmit'
      BY <1>1 DEF ldd_start_xmit
<1>2. ASSUME NEW d \in Dev, ldd_start_xmit_drop(d) PROVE TypeXmit'
      BY <1>2, Zenon DEF ldd_start_xmit_drop, x
<1>3. ASSUME NEW d \in Dev, ldd_rx_enqueue(d) PROVE TypeXmit'
      BY <1>3, Enqueue, Zenon
<1>4. ASSUME NEW d \in Dev, TxInterrupt(d) PROVE TypeXmit'
      BY <1>4, Zenon DEF TxInterrupt
<1>5. ASSUME NEW d \in Dev, ldd_ack_interrupt(d) PROVE TypeXmit'
      BY <1>5, Zenon DEF ldd_ack_interrupt, Shape, XmitShape
<1>6. ASSUME NEW d \in Dev, ldd_regular_interrupt(d) PROVE TypeXmit'
  <2>1. irq[d] \in Dev
        BY <1>6, Zenon DEF ldd_regular_interrupt, Shape, XmitShape
  <2>2. First(irq[d]) \in Nat
        BY <1>6, <2>1, Dequeue, Zenon DEF ldd_regular_interrupt
  <2> QED BY <1>6, <2>1, <2>2, Zenon DEF ldd_regular_interrupt
<1>7. ASSUME NEW d \in Dev, ldd_napi_interrupt(d) PROVE TypeXmit'
      BY <1>7, Zenon DEF ldd_napi_interrupt
<1>8. ASSUME NEW d \in Dev, XmitRelease(d) PROVE TypeXmit'
      BY <1>8, Zenon DEF XmitRelease, Released
<1>9. ASSUME NEW d \in Dev, XmitWake(d) PROVE TypeXmit'
      BY <1>9, Zenon DEF XmitWake, Released
<1>10. ASSUME NEW d \in Dev, HandlerEnd(d) PROVE TypeXmit'
      BY <1>10, Zenon DEF HandlerEnd
<1>11. CASE Unloaded
      BY <1>11, Zenon DEF Unloaded, vars, x
<1> QED BY <1>1, <1>2, <1>3, <1>4, <1>5, <1>6, <1>7, <1>8, <1>9, <1>10, <1>11,
           PollFrame, LinkFrame, LoadFrame, Zenon DEF Next, Send, Xmit

\* The fields of struct ldd_dev keep their types.
LEMMA TypePrivKept ==
  ASSUME Types, Shape, Next
  PROVE  TypePriv'
<1> USE DEF Types, TypeXmit, TypePriv, TypeCount, TypePoll, TypeCore
<1>1. ASSUME NEW d \in Dev, ldd_start_xmit(d) PROVE TypePriv'
  <2>1. /\ pool[d] > 0 /\ pool' = [pool EXCEPT ![d] = @ - 1]
        /\ UNCHANGED <<rxq, status, tx_skb, running, rx_int_enabled>>
        BY <1>1, Zenon DEF ldd_start_xmit, ldd_get_tx_buffer, irqs, modes
  <2>2. pool[d] - 1 \in Nat
        BY <2>1
  <2> QED BY <2>1, <2>2, Zenon
<1>2. ASSUME NEW d \in Dev, ldd_start_xmit_drop(d) PROVE TypePriv'
      BY <1>2, Zenon DEF ldd_start_xmit_drop, priv, irqs, modes
<1>3. ASSUME NEW d \in Dev, ldd_rx_enqueue(d) PROVE TypePriv'
      BY <1>3, Enqueue, Zenon
<1>4. ASSUME NEW d \in Dev, TxInterrupt(d) PROVE TypePriv'
      BY <1>4, Zenon DEF TxInterrupt, modes
<1>5. ASSUME NEW d \in Dev, ldd_ack_interrupt(d) PROVE TypePriv'
      BY <1>5, Zenon DEF ldd_ack_interrupt, Shape, XmitShape, modes
<1>6. ASSUME NEW d \in Dev, ldd_regular_interrupt(d) PROVE TypePriv'
  <2>1. irq[d] \in Dev
        BY <1>6, Zenon DEF ldd_regular_interrupt, Shape, XmitShape
  <2> QED BY <1>6, <2>1, Dequeue, Zenon DEF ldd_regular_interrupt
<1>7. ASSUME NEW d \in Dev, ldd_napi_interrupt(d) PROVE TypePriv'
      BY <1>7, Zenon DEF ldd_napi_interrupt, Shape, XmitShape, irqs
<1>8. ASSUME NEW d \in Dev, XmitRelease(d) PROVE TypePriv'
  <2>1. Owner(d) \in Dev
        BY Twins DEF Owner
  <2> QED BY <1>8, <2>1, Release, Zenon DEF XmitRelease
<1>9. ASSUME NEW d \in Dev, XmitWake(d) \/ HandlerEnd(d) PROVE TypePriv'
      BY <1>9, Zenon DEF XmitWake, HandlerEnd, priv, irqs, modes
<1>10. ASSUME NEW d \in Dev, ldd_poll(d) PROVE TypePriv'
  <2>1. CASE PollTake(d)
        BY <2>1, Dequeue, Zenon DEF PollTake
  <2>2. CASE PollRelease(d)
        BY <2>2, Twins, Release, Zenon DEF PollRelease
  <2> QED BY <1>10, <2>1, <2>2, Zenon
          DEF ldd_poll, PollStart, PollBudget, PollWake, PollComplete, priv, irqs, modes
<1>11. ASSUME NEW d \in Dev, PollTail(d) PROVE TypePriv'
      BY <1>11, Zenon DEF PollTail, PollLook, PollAgain, Empty, priv, irqs, modes
<1>12. ASSUME NEW d \in Dev, LinkUp(d) \/ LinkDown(d) PROVE TypePriv'
      BY <1>12, Zenon DEF LinkUp, LinkDown, priv, irqs, modes
<1>13. ASSUME link.dev \in Dev, ldd_open PROVE TypePriv'
      BY <1>13, Zenon DEF ldd_open, irqs
<1>14. ASSUME link.dev \in Dev, ldd_stop PROVE TypePriv'
  <2>1. CASE StopReceive
        BY <1>14, <2>1, Zenon DEF StopReceive, irqs
  <2>2. CASE StopDrain
        BY <1>14, <2>2, Dequeue, Zenon DEF StopDrain
  <2>3. CASE StopRelease
        BY <1>14, <2>3, Twins, Release, Zenon DEF StopRelease
  <2> QED BY <1>14, <2>1, <2>2, <2>3, Zenon
          DEF ldd_stop, NapiDisabled, StopWake, priv, irqs, modes
<1>15. ldd_open \/ ldd_stop => link.dev \in Dev
      BY Zenon DEF ldd_open, ldd_stop, StopReceive, NapiDisabled, StopDrain, StopRelease,
             StopWake, Shape, LinkShape, LinkState
<1>16. CASE Unloaded
      BY <1>16, Zenon DEF Unloaded, vars, priv, irqs, modes
<1> QED BY <1>1, <1>2, <1>3, <1>4, <1>5, <1>6, <1>7, <1>8, <1>9, <1>10, <1>11, <1>12,
           <1>13, <1>14, <1>15, <1>16, LoadFrame, Zenon DEF Next, Send, Xmit

\* The variables of the poll keep their types.
LEMMA TypePollKept ==
  ASSUME Types, Next
  PROVE  TypePoll'
<1> USE DEF Types, TypePoll, PollPC, PollAt
<1>1. ASSUME NEW d \in Dev, PollTake(d) PROVE TypePoll'
  <2>1. First(d) \in Nat
        BY <1>1, Dequeue, Zenon DEF PollTake
  <2> QED BY <1>1, <2>1, Zenon DEF PollTake
<1>2. ASSUME NEW d \in Dev, ldd_poll(d), ~PollTake(d) PROVE TypePoll'
      BY <1>2 DEF ldd_poll, PollStart, PollBudget, PollRelease, PollWake, PollComplete
<1>3. ASSUME NEW d \in Dev, PollTail(d) PROVE TypePoll'
      BY <1>3, Zenon DEF PollTail, PollLook, PollAgain, p
<1>4. CASE Unloaded
      BY <1>4, Zenon DEF Unloaded, vars, p
<1> QED BY <1>1, <1>2, <1>3, <1>4, XmitFrame, LinkFrame, LoadFrame, Zenon DEF Next

\* The parameters, the life of the devices and of the module keep their types.
LEMMA TypeParamKept ==
  ASSUME Types, Next
  PROVE  TypeParam'
<1> USE DEF Types, TypeParam
<1>1. use_napi' \in BOOLEAN /\ pool_size' \in Nat
      BY XmitFrame, PollFrame, LinkFrame, LoadFrame, Zenon DEF Next, Unloaded, vars, param
<1>2. life' \in [Dev -> {"absent", "made", "registered", "gone", "freed"}]
  <2>1. CASE ldd_create
        BY <2>1, Zenon DEF ldd_create
  <2>2. CASE Register
        BY <2>2, Zenon DEF Register
  <2>3. CASE m_exit
        BY <2>3, Zenon DEF m_exit
  <2>4. CASE ldd_destroy
        BY <2>4, Zenon DEF ldd_destroy, Unregister, Unregistered, FreeAll
  <2> QED BY <2>1, <2>2, <2>3, <2>4, XmitFrame, PollFrame, LinkFrame, Zenon
          DEF Next, Unloaded, vars
<1>3. up' \in [Dev -> BOOLEAN]
  <2>1. ASSUME NEW d \in Dev, LinkUp(d) \/ LinkDown(d) PROVE up' \in [Dev -> BOOLEAN]
        BY <2>1, Zenon DEF LinkUp, LinkDown, core
  <2>2. CASE ldd_open \/ ldd_stop
        BY <2>2, Zenon DEF ldd_open, ldd_stop, StopReceive, NapiDisabled, StopDrain,
           StopRelease,
                    StopWake, core
  <2>3. CASE ldd_create \/ Register \/ m_exit \/ ldd_destroy
        BY <2>3, Zenon DEF ldd_create, Register, m_exit, ldd_destroy, Unregister, Unregistered,
                    FreeAll
  <2> QED BY <2>1, <2>2, <2>3, XmitFrame, PollFrame, Zenon DEF Next, Unloaded, vars
<1>4. load' \in LoadState
  <2>1. CASE ldd_create \/ Register \/ m_exit
    <3>1. \A n \in 0..2 : Destroy(n) \in LoadState
          BY DEF Destroy, LoadState
    <3>2. load.i \in 0..2
          BY Zenon DEF LoadState
    <3>3. CASE load' = Destroy(load.i) \/ load' = Destroy(2)
          BY <3>1, <3>2, <3>3
    <3>4. CASE ~(load' = Destroy(load.i) \/ load' = Destroy(2))
      <4>1. \/ load' = [load EXCEPT !.pc = "register"]
            \/ load' = [load EXCEPT !.pc = "loaded"]
            \/ load' = [load EXCEPT !.pc = "create", !.i = 1]
            BY <2>1, <3>4, Zenon DEF ldd_create, Register, m_exit
      <4>2. CASE load' = [load EXCEPT !.pc = "register"]
            BY <4>2, Zenon DEF LoadState
      <4>3. CASE load' = [load EXCEPT !.pc = "loaded"]
            BY <4>3, Zenon DEF LoadState
      <4>4. CASE load' = [load EXCEPT !.pc = "create", !.i = 1]
        <5>1. 1 \in 0..2
              OBVIOUS
        <5>2. load.n \in 0..2 /\ load' = [pc |-> "create", i |-> 1, n |-> load.n]
              BY <4>4, Zenon DEF LoadState
        <5> QED BY <5>1, <5>2, Zenon DEF LoadState
      <4> QED BY <4>1, <4>2, <4>3, <4>4, Zenon
    <3> QED BY <3>3, <3>4, Zenon
  <2>2. CASE ldd_destroy
        BY <2>2 DEF ldd_destroy, Unregister, Unregistered, FreeAll, LoadState
  <2> QED BY <2>1, <2>2, XmitFrame, PollFrame, LinkFrame, Zenon DEF Next, Unloaded, vars
<1> QED BY <1>1, <1>2, <1>3, <1>4, Zenon

\* The counts of frames and skbs stay numbers, what is passed up a sequence of them.
LEMMA TypeCountKept ==
  ASSUME Types, Shape, Next
  PROVE  TypeCount'
<1> USE DEF Types, TypeCount
<1>1. sent' \in [Dev -> Nat]
  <2>1. ASSUME NEW d \in Dev, Send(d) \/ Xmit(d) PROVE sent' \in [Dev -> Nat]
    <3>1. sent' = sent \/ sent' = [sent EXCEPT ![d] = @ + 1]
          BY <2>1, Zenon DEF Send, MaySend, ldd_start_xmit, ldd_start_xmit_drop,
             Xmit, ldd_rx_enqueue, TxInterrupt, ldd_ack_interrupt,
             ldd_regular_interrupt, ldd_napi_interrupt, XmitRelease, XmitWake, HandlerEnd
    <3>2. sent[d] + 1 \in Nat
          OBVIOUS
    <3> QED BY <3>1, <3>2, Zenon
  <2> QED BY <2>1, PollFrame, LinkFrame, LoadFrame, Zenon DEF Next, Unloaded, vars
<1>2. freed' \in [Dev -> Nat]
  <2>1. ASSUME NEW d \in Dev, Send(d) \/ Xmit(d) PROVE freed' \in [Dev -> Nat]
    <3>1. \A e \in Dev : freed[e] \in Nat /\ freed[e] + 1 \in Nat
          OBVIOUS
    <3>2. CASE ldd_start_xmit_drop(d)
          BY <3>1, <3>2, Zenon DEF ldd_start_xmit_drop
    <3>3. CASE HandlerEnd(d)
      <4>1. freed' = [freed EXCEPT ![irq[d]] = IF skb[d] # 0 THEN freed[irq[d]] + 1
                                                             ELSE freed[irq[d]]]
            BY <3>3, Zenon DEF HandlerEnd
      <4>2. CASE skb[d] # 0
            BY <3>1, <4>1, <4>2, Zenon
      <4>3. CASE skb[d] = 0
            BY <3>1, <4>1, <4>3, Zenon
      <4> QED BY <4>2, <4>3, Zenon
    <3>4. CASE ~ldd_start_xmit_drop(d) /\ ~HandlerEnd(d)
      <4>1. freed' = freed
            BY <2>1, <3>4, Zenon DEF Send, ldd_start_xmit, Xmit, ldd_rx_enqueue, TxInterrupt,
               ldd_ack_interrupt, ldd_regular_interrupt, ldd_napi_interrupt, XmitRelease,
               XmitWake
      <4> QED BY <4>1, Zenon
    <3> QED BY <3>2, <3>3, <3>4, Zenon
  <2> QED BY <2>1, PollFrame, LinkFrame, LoadFrame, Zenon DEF Next, Unloaded, vars
<1>3. passed' \in [Dev -> Seq(Nat)]
  <2>1. ASSUME NEW d \in Dev, NEW k \in Nat, ldd_rx(d, k) PROVE passed' \in [Dev -> Seq(Nat)]
    <3>1. Append(passed[d], k) \in Seq(Nat)
          OBVIOUS
    <3> QED BY <2>1, <3>1, Zenon DEF ldd_rx
  <2>2. ASSUME NEW d \in Dev, XmitRelease(d) PROVE passed' \in [Dev -> Seq(Nat)]
        BY <2>1, <2>2, Zenon DEF XmitRelease, TypeXmit
  <2>3. ASSUME NEW d \in Dev, PollRelease(d) PROVE passed' \in [Dev -> Seq(Nat)]
        BY <2>1, <2>3, Zenon DEF PollRelease, TypePoll
  <2>4. ASSUME NEW d \in Dev, Send(d) \/ Xmit(d), ~XmitRelease(d) PROVE UNCHANGED passed
        BY <2>4, Zenon DEF Send, ldd_start_xmit, ldd_start_xmit_drop,
           Xmit, ldd_rx_enqueue, TxInterrupt, ldd_ack_interrupt,
           ldd_regular_interrupt, ldd_napi_interrupt, XmitWake, HandlerEnd
  <2>5. ASSUME NEW d \in Dev, ldd_poll(d) \/ PollTail(d), ~PollRelease(d) PROVE UNCHANGED passed
        BY <2>5, Zenon DEF ldd_poll, PollTail, PollStart, PollTake, PollBudget, PollWake,
           PollComplete, PollLook, PollAgain
  <2> QED BY <2>2, <2>3, <2>4, <2>5, LinkFrame, LoadFrame, Zenon DEF Next, Unloaded, vars
<1> QED BY <1>1, <1>2, <1>3, Zenon

\* The state of the core (queues, NAPI contexts, the rtnl holder) keeps its types.
LEMMA TypeCoreKept ==
  ASSUME Types, Shape, Next
  PROVE  TypeCore'
<1> USE DEF Types, TypeCore
<1>1. stopped' \in [Dev -> BOOLEAN]
  <2>1. ASSUME NEW d \in Dev, Send(d) \/ Xmit(d) PROVE stopped' \in [Dev -> BOOLEAN]
    <3>1. CASE ldd_start_xmit(d)
          BY <3>1, Zenon DEF ldd_start_xmit, ldd_get_tx_buffer
    <3> QED BY <2>1, <3>1, Zenon DEF Send, ldd_start_xmit_drop,
           Xmit, ldd_rx_enqueue, TxInterrupt, ldd_ack_interrupt,
           ldd_regular_interrupt, ldd_napi_interrupt, XmitRelease, XmitWake, HandlerEnd
  <2>2. ASSUME NEW d \in Dev, ldd_poll(d) \/ PollTail(d) PROVE stopped' \in [Dev -> BOOLEAN]
        BY <2>2, Zenon DEF ldd_poll, PollTail, PollStart, PollTake, PollBudget, PollRelease,
           PollWake,
           PollComplete, PollLook, PollAgain
  <2>3. ASSUME NEW d \in Dev, LinkUp(d) \/ LinkDown(d) PROVE UNCHANGED stopped
        BY <2>3, Zenon DEF LinkUp, LinkDown
  <2>4. CASE ldd_open \/ ldd_stop
        BY <2>4, Zenon DEF ldd_open, ldd_stop, StopReceive, NapiDisabled, StopDrain,
           StopRelease, StopWake
  <2> QED BY <2>1, <2>2, <2>3, <2>4, LoadFrame, Zenon DEF Next, Unloaded, vars
<1>2. napi' \in [Dev -> NapiState]
  <2>1. ASSUME NEW d \in Dev, Send(d) \/ Xmit(d) PROVE napi' \in [Dev -> NapiState]
    <3>1. CASE ldd_napi_interrupt(d)
      <4> DEFINE n == Scheduled(napi[irq[d]])
      <4>1. UNCHANGED napi \/ (irq[d] \in Dev /\ napi' = [napi EXCEPT ![irq[d]] = n])
            BY <3>1, Zenon DEF ldd_napi_interrupt, Shape, XmitShape
      <4>2. irq[d] \in Dev => n \in NapiState
            BY NapiCalls
      <4> HIDE DEF n
      <4> QED BY <4>1, <4>2, Zenon
    <3> QED BY <2>1, <3>1, Zenon DEF Send, ldd_start_xmit, ldd_start_xmit_drop,
           Xmit, ldd_rx_enqueue, TxInterrupt, ldd_ack_interrupt,
           ldd_regular_interrupt, XmitRelease, XmitWake, HandlerEnd
  <2>2. ASSUME NEW d \in Dev, ldd_poll(d) \/ PollTail(d) PROVE napi' \in [Dev -> NapiState]
    <3>1. napi[d] \in NapiState
          BY Zenon
    <3>2. PICK n \in NapiState : UNCHANGED napi \/ napi' = [napi EXCEPT ![d] = n]
          BY <2>2, <3>1, NapiCalls, Zenon
          DEF ldd_poll, PollTail, PollStart, PollTake, PollBudget, PollRelease,
              PollWake, PollComplete, PollLook, PollAgain
    <3> QED BY <3>2, Zenon
  <2>3. ASSUME NEW d \in Dev, LinkUp(d) \/ LinkDown(d) PROVE napi' \in [Dev -> NapiState]
        BY <2>3 DEF LinkUp, LinkDown, NapiState
  <2>4. CASE ldd_open \/ StopDrain \/ StopRelease \/ StopWake
        BY <2>4, Zenon DEF ldd_open, StopDrain, StopRelease, StopWake
  <2>5. CASE StopReceive
        BY <2>5, Zenon DEF StopReceive, NapiState, TypeParam
  <2>6. CASE NapiDisabled
        BY <2>6, ZenonT(40) DEF NapiDisabled, NapiState
  <2> QED BY <2>1, <2>2, <2>3, <2>4, <2>5, <2>6, LoadFrame DEF Next, ldd_stop, Unloaded, vars
<1>3. link' \in LinkState
  <2>1. ASSUME NEW d \in Dev, LinkUp(d) \/ LinkDown(d) PROVE link' \in LinkState
    <3>1. CASE LinkUp(d)
      <4>1. link.ups + 1 \in Nat
            BY DEF LinkState
      <4>2. link' = [link EXCEPT !.pc = "open", !.dev = d, !.ups = link.ups + 1]
            BY <3>1, Zenon DEF LinkUp
      <4> QED BY <4>1, <4>2, Zenon DEF LinkState
    <3>2. CASE LinkDown(d)
          BY <3>2, Zenon DEF LinkDown, LinkState
    <3> QED BY <2>1, <3>1, <3>2, Zenon
  <2>2. CASE ldd_open \/ StopReceive \/ NapiDisabled \/ StopRelease \/ StopWake
    <3>1. CASE ldd_open
          BY <3>1, Zenon DEF ldd_open, LinkState
    <3>2. CASE StopReceive \/ NapiDisabled \/ StopWake
          BY <3>2 DEF StopReceive, NapiDisabled, StopWake, LinkState
    <3>3. CASE StopRelease
          BY <3>3, Zenon DEF StopRelease, LinkState
    <3> QED BY <2>2, <3>1, <3>2, <3>3, Zenon
  <2>3. CASE StopDrain
    <3>1. link.dev \in Dev
          BY <2>3, Zenon DEF StopDrain, Shape, LinkShape, LinkState
    <3>2. First(link.dev) \in Nat
          BY <2>3, <3>1, Dequeue, Zenon DEF StopDrain
    <3> QED BY <2>3, <3>2, Zenon DEF StopDrain, LinkState
  <2>4. CASE ldd_create \/ Register \/ m_exit
        BY <2>4, Zenon DEF ldd_create, Register, m_exit
  <2>5. CASE ldd_destroy
    <3>1. CASE Unregister
      <4>1. load.i \in Dev
            BY <3>1 DEF Unregister, TypeParam, LoadState, Dev
      <4>2. CASE up[load.i]
            BY <3>1, <4>1, <4>2, Zenon DEF Unregister, LinkState
      <4>3. CASE ~up[load.i]
            BY <3>1, <4>3, Zenon DEF Unregister
      <4> QED BY <4>2, <4>3, Zenon
    <3> QED BY <2>5, <3>1, Zenon DEF ldd_destroy, Unregistered, FreeAll
  <2> QED BY <2>1, <2>2, <2>3, <2>4, <2>5, XmitFrame, PollFrame, Zenon
          DEF Next, ldd_stop, Unloaded, vars
<1> QED BY <1>1, <1>2, <1>3, Zenon

\* Every step keeps every type.
LEMMA TypesKept ==
  ASSUME Types, Shape, Next
  PROVE  Types'
BY TypeXmitKept, TypePrivKept, TypePollKept, TypeParamKept, TypeCountKept, TypeCoreKept,
   Zenon DEF Types

\* The rtnl holder works on a device.
LEMMA LinkDev ==
  ASSUME Types, Shape, ldd_open \/ ldd_stop
  PROVE  link.dev \in Dev
BY Zenon DEF ldd_open, ldd_stop, StopReceive, NapiDisabled, StopDrain, StopRelease,
       StopWake, Shape, LinkShape, LinkState, Types, TypeCore

\* The receive queues change only in ldd_rx_enqueue() and ldd_rx_dequeue().
LEMMA QueueSteps ==
  ASSUME Types, Shape, Next
  PROVE  \/ UNCHANGED rxq \/ StopDrain
         \/ \E d \in Dev : ldd_rx_enqueue(d) \/ (ldd_rx_dequeue(d) /\ UNCHANGED link)
<1>1. ASSUME NEW d \in Dev, Send(d) \/ Xmit(d), ~ldd_rx_enqueue(d), ~ldd_regular_interrupt(d)
      PROVE  UNCHANGED rxq
      BY <1>1, Zenon DEF Send, ldd_start_xmit, ldd_start_xmit_drop, ldd_get_tx_buffer,
           Xmit, TxInterrupt, ldd_ack_interrupt,
           ldd_napi_interrupt, XmitRelease, ldd_release_buffer, XmitWake, HandlerEnd, priv
<1>2. ASSUME NEW d \in Dev, ldd_regular_interrupt(d)
      PROVE  irq[d] \in Dev /\ ldd_rx_dequeue(irq[d]) /\ UNCHANGED link
      BY <1>2, Zenon DEF ldd_regular_interrupt, Shape, XmitShape
<1>3. ASSUME NEW d \in Dev, ldd_poll(d) \/ PollTail(d)
      PROVE  UNCHANGED rxq \/ (ldd_rx_dequeue(d) /\ UNCHANGED link)
      BY <1>3, Zenon
      DEF ldd_poll, PollTail, PollStart, PollTake, PollBudget, PollRelease, PollWake,
          PollComplete, PollLook, PollAgain, ldd_release_buffer, priv
<1>4. ASSUME NEW d \in Dev, LinkUp(d) \/ LinkDown(d) PROVE UNCHANGED rxq
      BY <1>4, Zenon DEF LinkUp, LinkDown, priv
<1>5. CASE ldd_open \/ ldd_stop
      BY <1>5, Zenon DEF ldd_open, ldd_stop, StopReceive, NapiDisabled, StopRelease,
                  StopWake, ldd_release_buffer, priv
<1> QED BY <1>1, <1>2, <1>3, <1>4, <1>5, LoadFrame, Zenon DEF Next, Xmit, Unloaded, vars, priv

\* A queued packet is never the packet 0 that stands for none.
LEMMA QueueShapeKept ==
  ASSUME Types, Shape, Next
  PROVE  QueueShape'
<1> USE DEF Types, TypePriv, QueueShape
<1>1. ASSUME NEW d \in Dev, ldd_rx_enqueue(d) PROVE QueueShape'
  <2> DEFINE e == ldd_peer(d)
  <2>1. e \in Dev /\ \A c \in Dev : c = d \/ c = e
        BY Twins, Zenon
  <2>2. rxq'[d] = rxq[d] /\ (rxq'[e] = rxq[e] \/ rxq'[e] = Append(rxq[e], pkt[d]))
        BY <1>1, <2>1, Enqueue, Zenon
  <2>3. pkt[d] \in Nat /\ pkt[d] # 0
        BY <1>1, Zenon DEF ldd_rx_enqueue, Shape, XmitShape, TypeXmit
  <2>4. rxq[e] \in Seq(Nat) /\ \A i \in 1..Len(rxq[e]) : rxq[e][i] # 0
        BY <2>1, Zenon DEF Shape
  <2>5. \A i \in 1..Len(rxq'[e]) : rxq'[e][i] # 0
    <3>1. CASE rxq'[e] = Append(rxq[e], pkt[d])
      <4> SUFFICES ASSUME NEW i \in 1..Len(rxq'[e]) PROVE rxq'[e][i] # 0
            BY Zenon
      <4>1. Len(rxq[e]) \in Nat /\ (i \in 1..Len(rxq[e]) \/ i = Len(rxq[e]) + 1)
            BY <2>3, <2>4, <3>1, Appended
      <4> QED BY <2>3, <2>4, <3>1, <4>1, Appended
    <3> QED BY <2>2, <2>4, <3>1, Zenon
  <2> HIDE DEF e
  <2> QED BY <2>1, <2>2, <2>5, Zenon DEF Shape
<1>2. ASSUME NEW d \in Dev, ldd_rx_dequeue(d) PROVE QueueShape'
  <2>1. rxq'[ldd_peer(d)] = rxq[ldd_peer(d)]
        BY <1>2, Dequeue, Zenon
  <2>2. rxq'[d] = rxq[d] \/ (rxq[d] # <<>> /\ rxq'[d] = Tail(rxq[d]))
        BY <1>2, Dequeue, Zenon DEF Empty
  <2>3. \A i \in 1..Len(rxq'[d]) : rxq'[d][i] # 0
    <3>1. CASE rxq[d] # <<>> /\ rxq'[d] = Tail(rxq[d])
          BY <3>1, Tailed DEF Shape
    <3> QED BY <2>2, <3>1, Zenon DEF Shape
  <2> QED BY <2>1, <2>3, Twins, ZenonT(40) DEF Shape
<1>3. ASSUME UNCHANGED rxq PROVE QueueShape'
      BY <1>3, Zenon DEF Shape
<1>4. CASE StopDrain
  <2>1. link.dev \in Dev /\ ldd_rx_dequeue(link.dev)
        BY <1>4, LinkDev, Zenon DEF StopDrain, ldd_stop
  <2> QED BY <1>2, <2>1, Zenon
<1> QED BY <1>1, <1>2, <1>3, <1>4, QueueSteps, Zenon

\* A poll holds a packet exactly while it passes it up.
LEMMA PollShapeKept ==
  ASSUME Types, Shape, Next
  PROVE  PollShape'
<1> USE DEF Types, TypePoll, PollShape, PollPC, PollAt
<1>1. ASSUME NEW d \in Dev, PollTake(d) PROVE PollShape'
  <2>1. First(d) \in Nat /\ (First(d) # 0 <=> ~Empty(d))
        BY FirstIs, Zenon DEF Shape
  <2> QED BY <1>1, <2>1, Zenon DEF PollTake, Shape
<1>2. ASSUME NEW d \in Dev, ldd_poll(d), ~PollTake(d) PROVE PollShape'
      BY <1>2, ZenonT(40) DEF ldd_poll, PollStart, PollBudget, PollRelease, PollWake, PollComplete,
         Shape
<1>3. ASSUME NEW d \in Dev, PollTail(d) PROVE PollShape'
      BY <1>3, Zenon DEF PollTail, PollLook, PollAgain, p, Shape
<1> QED BY <1>1, <1>2, <1>3, XmitFrame, LinkFrame, LoadFrame, Zenon
        DEF Next, Unloaded, vars, p, Shape

\* The rtnl holder has a device unless idle, and a packet while it gives it back.
LEMMA LinkShapeKept ==
  ASSUME Types, Shape, Next
  PROVE  LinkShape'
<1> USE DEF Types, TypeCore, LinkShape, LinkState
<1>1. ASSUME NEW d \in Dev, LinkUp(d) PROVE LinkShape'
      BY <1>1, Twins, Zenon DEF LinkUp, Shape
<1>2. ASSUME NEW d \in Dev, LinkDown(d) PROVE LinkShape'
      BY <1>2, Twins, Zenon DEF LinkDown, Shape
<1>3. CASE ldd_open \/ StopReceive \/ NapiDisabled \/ StopRelease \/ StopWake
      BY <1>3, Zenon DEF ldd_open, StopReceive, NapiDisabled, StopRelease, StopWake, Shape
<1>4. CASE StopDrain
  <2>1. link.dev \in Dev
        BY <1>4, Zenon DEF StopDrain, Shape
  <2>2. First(link.dev) \in Nat /\ (First(link.dev) # 0 <=> ~Empty(link.dev))
        BY <2>1, FirstIs, Zenon DEF Shape
  <2> QED BY <1>4, <2>2, Zenon DEF StopDrain, Shape
<1>5. CASE ldd_create \/ Register \/ m_exit
      BY <1>5, Zenon DEF ldd_create, Register, m_exit, Shape
<1>6. CASE ldd_destroy
  <2>1. CASE Unregister
    <3>1. load.i \in Dev
          BY <2>1 DEF Unregister, TypeParam, LoadState, Dev
    <3> QED BY <2>1, <3>1, Twins, Zenon DEF Unregister, Shape
  <2> QED BY <1>6, <2>1, Zenon DEF ldd_destroy, Unregistered, FreeAll, Shape
<1> QED BY <1>1, <1>2, <1>3, <1>4, <1>5, <1>6, XmitFrame, PollFrame
        DEF Next, ldd_stop, Unloaded, vars, Shape

\* A transmit path holds a packet, a skb and an interrupt only where its place says so.
LEMMA XmitShapeKept ==
  ASSUME Types, Shape, Next
  PROVE  XmitShape'
<1> USE DEF XmitPC
<1>0. ASSUME NEW d \in Dev, NEW pc \in XmitPC, NEW i \in Dev \cup {None}, NEW s \in Nat, NEW k \in Nat,
             Path(d, pc, i, s, k), UNCHANGED <<use_napi, sent>>,
             xpc[d] # "idle",
             pc \in {"wire", "idle", "sent"} => i = None,
             pc \in {"ack", "rx", "sched", "fin"} => i \in Dev,
             k # 0 <=> pc \in {"wire", "put"},
             i = None \/ pc = "ack" => s = 0,
             pc = "sched" => use_napi,
             i \in Dev /\ pc \in {"put", "wake"} => ~use_napi,
             i = None /\ k # 0 => k = sent[d]
      PROVE  XmitShape'
  <2>1. /\ xpc'[d] = pc /\ irq'[d] = i /\ skb'[d] = s /\ pkt'[d] = k
        /\ \A c \in Dev : c # d => /\ xpc'[c] = xpc[c] /\ irq'[c] = irq[c]
                                 /\ skb'[c] = skb[c] /\ pkt'[c] = pkt[c]
        BY <1>0, Moves, SMTT(30)
  <2> QED BY <1>0, <2>1, SMTT(30) DEF Shape, XmitShape
<1>1. ASSUME NEW d \in Dev, ldd_start_xmit(d) PROVE XmitShape'
  <2>1. Path(d, "wire", None, 0, sent[d] + 1) /\ sent[d] + 1 \in Nat
        BY <1>1 DEF ldd_start_xmit, Types, TypeCount
  <2>2. /\ xpc'[d] = "wire" /\ irq'[d] = None /\ skb'[d] = 0 /\ pkt'[d] = sent[d] + 1
        /\ \A c \in Dev : c # d => /\ xpc'[c] = xpc[c] /\ irq'[c] = irq[c]
                                 /\ skb'[c] = skb[c] /\ pkt'[c] = pkt[c]
    <3>1. "wire" \in XmitPC /\ None \in Dev \cup {None} /\ 0 \in Nat
          BY Zenon
    <3> HIDE DEF XmitPC
    <3> QED BY <2>1, <3>1, Moves
  <2>3. /\ sent'[d] = sent[d] + 1 /\ sent[d] \in Nat
        /\ \A c \in Dev : c # d => sent'[c] = sent[c]
        BY <1>1, Zenon DEF ldd_start_xmit, MaySend, Types, TypeCount
  <2>4. use_napi' = use_napi
        BY <1>1, XmitFrame, Zenon DEF Send
  <2> QED BY <2>2, <2>3, <2>4, Twins DEF Shape, XmitShape
<1>2. ASSUME NEW d \in Dev, ldd_start_xmit_drop(d) PROVE XmitShape'
      BY <1>2, Zenon DEF ldd_start_xmit_drop, MaySend, x, core, param, Shape, XmitShape, Types,
         TypeCount
<1>3. ASSUME NEW d \in Dev, ldd_rx_enqueue(d) PROVE XmitShape'
  <2> DEFINE e == ldd_peer(d)
  <2>1. UNCHANGED <<use_napi, sent>> /\ xpc[d] = "wire" /\ e \in Dev
        BY <1>3, Twins, Zenon DEF ldd_rx_enqueue, core, param
  <2>2. CASE Goto(d, "put")
        BY <2>1, <2>2, Goes, Twins DEF Shape, XmitShape
  <2>3. Goto(d, "put") \/ Path(d, "ack", e, 0, 0) \/ Path(d, "sent", None, 0, 0)
    <3> HIDE DEF XmitPC
    <3> QED BY <1>3, Enqueue, Zenon
  <2> HIDE DEF e
  <2> QED BY <1>0, <2>1, <2>2, <2>3, Twins DEF None
<1>4. ASSUME NEW d \in Dev, TxInterrupt(d) PROVE XmitShape'
      BY <1>0, <1>4, Twins, Zenon DEF TxInterrupt, core, param
<1>5. ASSUME NEW d \in Dev, ldd_ack_interrupt(d) PROVE XmitShape'
  <2> DEFINE pc == IF "RX" \in status[irq[d]] THEN "rx" ELSE "fin"
             s == IF "TX" \in status[irq[d]] THEN tx_skb[irq[d]] ELSE 0
  <2>1. UNCHANGED <<use_napi, sent>> /\ xpc[d] = "ack" /\ Path(d, pc, irq[d], s, 0)
        BY <1>5, Zenon DEF ldd_ack_interrupt, core, param
  <2>2. irq[d] \in Dev /\ pc \in {"rx", "fin"} /\ s \in Nat
        BY <2>1, Zenon DEF Shape, XmitShape, Types, TypePriv
  <2> HIDE DEF pc, s
  <2> QED BY <1>0, <2>1, <2>2, Twins
<1>6. ASSUME NEW d \in Dev, ldd_regular_interrupt(d) PROVE XmitShape'
  <2> DEFINE pc == IF Empty(irq[d]) THEN "fin" ELSE "put"
             k == First(irq[d])
  <2>1. /\ UNCHANGED <<use_napi, sent>> /\ xpc[d] = "rx" /\ Path(d, pc, irq[d], skb[d], k)
        /\ ~use_napi
        BY <1>6, Zenon DEF ldd_regular_interrupt, core, param
  <2>2. irq[d] \in Dev
        BY <2>1, Zenon DEF Shape, XmitShape
  <2>3. /\ pc \in {"fin", "put"} /\ k \in Nat /\ (k # 0 <=> pc = "put")
        BY <2>2, FirstIs, Zenon DEF Shape
  <2>4. skb[d] \in Nat
        BY Zenon DEF Types, TypeXmit
  <2> HIDE DEF pc, k
  <2> QED BY <1>0, <2>1, <2>2, <2>3, <2>4, Twins
<1>7. ASSUME NEW d \in Dev, ldd_napi_interrupt(d) PROVE XmitShape'
  <2>1. /\ UNCHANGED <<use_napi, sent>> /\ use_napi
        /\ \/ xpc[d] = "rx" /\ Goto(d, "sched")
           \/ xpc[d] = "sched" /\ Goto(d, "fin")
        BY <1>7, Zenon DEF ldd_napi_interrupt, core, param
  <2> QED BY <2>1, Goes DEF Shape, XmitShape
<1>8. ASSUME NEW d \in Dev, XmitRelease(d) PROVE XmitShape'
  <2> DEFINE pc == IF WasEmpty(Owner(d)) THEN "wake" ELSE Released(d)
  <2>1. UNCHANGED <<use_napi, sent>> /\ xpc[d] = "put" /\ Path(d, pc, irq[d], skb[d], 0)
        BY <1>8, Zenon DEF XmitRelease, core, param
  <2>2. /\ pc = "wake" \/ (irq[d] = None /\ pc = "sent") \/ (irq[d] \in Dev /\ pc = "fin")
        /\ irq[d] \in Dev \cup {None}
        BY Zenon DEF Released, Types, TypeXmit
  <2>3. skb[d] \in Nat /\ (irq[d] = None => skb[d] = 0) /\ (irq[d] \in Dev => ~use_napi)
        BY <2>1, Zenon DEF Types, TypeXmit, Shape, XmitShape
  <2> HIDE DEF pc
  <2> QED BY <1>0, <2>1, <2>2, <2>3, Twins
<1>9. ASSUME NEW d \in Dev, XmitWake(d) PROVE XmitShape'
  <2>1. UNCHANGED <<use_napi, sent>> /\ xpc[d] = "wake" /\ Goto(d, Released(d))
        BY <1>9, Zenon DEF XmitWake, core, param
  <2>2. /\ \/ irq[d] = None /\ Released(d) = "sent"
           \/ irq[d] \in Dev /\ irq[d] # None /\ Released(d) = "fin"
        BY Twins, Zenon DEF Released, Types, TypeXmit
  <2> QED BY <2>1, <2>2, Goes, SMTT(30) DEF Shape, XmitShape
<1>10. ASSUME NEW d \in Dev, HandlerEnd(d) PROVE XmitShape'
  <2> DEFINE pc == IF irq[d] = d THEN "idle" ELSE "sent"
  <2>1. UNCHANGED <<use_napi, sent>> /\ xpc[d] = "fin" /\ Path(d, pc, None, 0, 0)
        BY <1>10, Zenon DEF HandlerEnd, core, param
  <2>2. pc \in {"idle", "sent"}
        BY Zenon
  <2> HIDE DEF pc
  <2> QED BY <1>0, <2>1, <2>2, Twins
<1>11. ASSUME UNCHANGED <<xpc, irq, skb, pkt, use_napi, sent>> PROVE XmitShape'
      BY <1>11, Zenon DEF Shape, XmitShape
<1> QED BY <1>1, <1>2, <1>3, <1>4, <1>5, <1>6, <1>7, <1>8, <1>9, <1>10, <1>11,
           PollFrame, LinkFrame, LoadFrame, Zenon DEF Next, Send, Xmit, Unloaded, vars, x, param

\* A device runs exactly while it is up or ldd_stop() is about to stop it.
LEMMA LinkRunsKept ==
  ASSUME Types, Shape, Runs, Next
  PROVE  LinkRuns'
<1> USE DEF Runs, LinkRuns, At, Types, TypeCore, TypePriv, TypeParam, LinkState
<1>1. ASSUME NEW d \in Dev, LinkUp(d) PROVE LinkRuns'
      BY <1>1, Twins, Zenon DEF LinkUp, priv, modes, core, Shape, LinkShape
<1>2. ASSUME NEW d \in Dev, LinkDown(d) PROVE LinkRuns'
      BY <1>2, Twins DEF LinkDown, priv, modes, core, Shape, LinkShape
<1>3. CASE ldd_open
  <2>1. link.dev \in Dev
        BY <1>3, LinkDev, Zenon
  <2>2. link'.dev = None /\ link'.pc = "idle"
        BY <1>3, Zenon DEF ldd_open
  <2>3. running'[link.dev] /\ up'[link.dev] /\ link.pc = "open"
        BY <1>3, <2>1, Zenon DEF ldd_open
  <2>4. \A c \in Dev : c # link.dev => running'[c] = running[c] /\ up'[c] = up[c]
        BY <1>3, <2>1 DEF ldd_open
  <2> QED BY <2>1, <2>2, <2>3, <2>4, Twins, ZenonT(40)
<1>4. CASE StopReceive
      BY <1>4, LinkDev, Twins DEF StopReceive, ldd_stop, core
<1>5. CASE NapiDisabled
      BY <1>5, LinkDev, Twins, Zenon DEF NapiDisabled, ldd_stop, core, priv, modes
<1>6. CASE StopDrain
      BY <1>6, LinkDev, Twins, Zenon DEF StopDrain, ldd_stop, core, ldd_rx_dequeue, modes
<1>7. CASE StopRelease
      BY <1>7, LinkDev, Twins, Zenon DEF StopRelease, ldd_stop, core, ldd_release_buffer, modes
<1>8. CASE StopWake
      BY <1>8, LinkDev, Twins, Zenon DEF StopWake, ldd_stop, core, priv, modes
<1>9. CASE Unregister
  <2>1. load.i \in Dev
        BY <1>9 DEF Unregister, LoadState, Dev
  <2> QED BY <1>9, <2>1, LoadFrame, Twins DEF Unregister, ldd_destroy, Shape, LinkShape
<1>10. ASSUME UNCHANGED <<link, up, running>> PROVE LinkRuns'
      BY <1>10, Zenon
<1>11. CASE ldd_create \/ Register \/ m_exit \/ Unregistered \/ FreeAll
      BY <1>10, <1>11, LoadFrame, Zenon
      DEF ldd_create, Register, m_exit, ldd_destroy, Unregistered, FreeAll
<1>12. ASSUME NEW d \in Dev, Send(d) \/ Xmit(d) \/ ldd_poll(d) \/ PollTail(d) PROVE LinkRuns'
      BY <1>10, <1>12, XmitFrame, PollFrame, Zenon
<1>13. CASE Unloaded
      BY <1>10, <1>13, Zenon DEF Unloaded, vars, priv, modes
<1> QED BY <1>1, <1>2, <1>3, <1>4, <1>5, <1>6, <1>7, <1>8, <1>9, <1>11, <1>12, <1>13, Zenon
        DEF Next, ldd_stop, ldd_destroy

\* A device with a transmit under way runs: dev_close() waits for it.
LEMMA XmitRunsKept ==
  ASSUME Types, Shape, Runs, Next
  PROVE  XmitRuns'
<1> USE DEF Runs, XmitRuns, Types, TypePriv, TypeXmit
<1>1. ASSUME NEW d \in Dev, Send(d) PROVE XmitRuns'
  <2>1. up[d] /\ running[d] /\ running' = running
        BY <1>1, XmitFrame, Zenon
        DEF Send, ldd_start_xmit, ldd_start_xmit_drop, MaySend, LinkRuns
  <2>2. \A c \in Dev : c # d => xpc'[c] = xpc[c]
        BY <1>1, Zenon DEF Send, ldd_start_xmit, ldd_start_xmit_drop, Path, x
  <2> QED BY <2>1, <2>2, Zenon
<1>2. ASSUME NEW d \in Dev, Xmit(d) PROVE XmitRuns'
  <2>1. running' = running
        BY <1>2, XmitFrame, Zenon
  <2>2. \A c \in Dev : c # d => xpc'[c] = xpc[c]
        BY <1>2, ZenonT(40) DEF Xmit, ldd_rx_enqueue, TxInterrupt, ldd_ack_interrupt,
           ldd_regular_interrupt, ldd_napi_interrupt, XmitRelease, XmitWake, HandlerEnd, Path,
           Goto
  <2>3. xpc[d] # "idle"
        BY <1>2, Zenon DEF Xmit, ldd_rx_enqueue, TxInterrupt, ldd_ack_interrupt,
           ldd_regular_interrupt, ldd_napi_interrupt, XmitRelease, XmitWake, HandlerEnd
  <2> QED BY <2>1, <2>2, <2>3, Zenon
<1>3. ASSUME UNCHANGED <<xpc, running>> PROVE XmitRuns'
      BY <1>3, Zenon
<1>4. ASSUME NEW d \in Dev, LinkUp(d) \/ LinkDown(d) PROVE XmitRuns'
      BY <1>3, <1>4, LinkFrame, Zenon DEF LinkUp, LinkDown, priv, modes
<1>5. CASE ldd_open
      BY <1>5, LinkFrame, Zenon DEF ldd_open
<1>6. CASE StopReceive
      BY <1>6, LinkFrame, Zenon DEF StopReceive, ldd_stop
<1>7. CASE ldd_stop /\ ~StopReceive
      BY <1>3, <1>7, LinkFrame, Zenon
      DEF ldd_stop, NapiDisabled, StopDrain, StopRelease, StopWake,
            ldd_rx_dequeue, ldd_release_buffer, priv, modes
<1> QED BY <1>1, <1>2, <1>3, <1>4, <1>5, <1>6, <1>7, PollFrame, LoadFrame, Zenon
        DEF Next, Unloaded, vars, x, priv, modes

\* Packets are queued only at a device that runs or is being drained.
LEMMA QueueRunsKept ==
  ASSUME Types, Shape, Runs, Next
  PROVE  QueueRuns'
<1> USE DEF Runs, QueueRuns, Types, TypePriv, TypeCore, LinkState, At
<1>1. ASSUME NEW d \in Dev, ldd_rx_enqueue(d) PROVE QueueRuns'
  <2>1. UNCHANGED <<running, link>> /\ rxq'[d] = rxq[d]
        BY <1>1, XmitFrame, Enqueue, Zenon DEF Xmit
  <2>2. rxq'[ldd_peer(d)] = rxq[ldd_peer(d)] \/ running[ldd_peer(d)]
        BY <1>1, Enqueue, Zenon
  <2>3. \A e \in Dev : e = d \/ e = ldd_peer(d)
        BY Twins, Zenon
  <2> QED BY <2>1, <2>2, <2>3, Zenon
<1>2. ASSUME NEW d \in Dev, ldd_rx_dequeue(d), UNCHANGED link PROVE QueueRuns'
  <2>1. /\ UNCHANGED running /\ rxq'[ldd_peer(d)] = rxq[ldd_peer(d)]
        /\ rxq'[d] # <<>> => rxq[d] # <<>>
        BY <1>2, Dequeue, Zenon DEF Empty
  <2>2. \A c \in Dev : rxq'[c] # <<>> => rxq[c] # <<>>
        BY <2>1, Twins, Zenon
  <2> QED BY <1>2, <2>1, <2>2, Zenon
<1>3. CASE StopDrain
  <2> DEFINE d == link.dev
  <2>1. d \in Dev /\ link.pc = "drain"
        BY <1>3, LinkDev, Zenon DEF ldd_stop, StopDrain
  <2>2. /\ UNCHANGED running /\ rxq'[ldd_peer(d)] = rxq[ldd_peer(d)]
        /\ Empty(d) => rxq'[d] = <<>>
        BY <1>3, <2>1, Dequeue, Zenon DEF StopDrain, Empty
  <2>3. \/ Empty(d) /\ link'.dev = None
        \/ link'.pc = "put" /\ link'.dev = d
        BY <1>3, Zenon DEF StopDrain
  <2> SUFFICES ASSUME NEW c \in Dev, rxq'[c] # <<>>
               PROVE  running'[c] \/ At(c, {"disable", "drain", "put", "wake"})'
        BY Zenon
  <2>4. CASE c = d
        BY <2>2, <2>3, <2>4, Zenon
  <2>5. CASE c # d
    <3>1. c = ldd_peer(d) /\ rxq[c] # <<>>
          BY <2>1, <2>2, <2>5, Twins
    <3> QED BY <2>1, <2>2, <2>5, <3>1, Zenon
  <2> QED BY <2>4, <2>5, Zenon
<1>4. CASE UNCHANGED <<rxq, running, link>>
      BY <1>4, Zenon
<1>5. CASE UNCHANGED rxq
  <2>1. ASSUME NEW d \in Dev, Send(d) \/ Xmit(d) \/ ldd_poll(d) \/ PollTail(d) PROVE QueueRuns'
        BY <1>5, <2>1, <1>4, XmitFrame, PollFrame, Zenon
  <2>2. ASSUME NEW d \in Dev, LinkUp(d) PROVE QueueRuns'
        BY <1>5, <2>2, Zenon DEF LinkUp, priv, modes, LinkRuns, Shape, LinkShape
  <2>3. ASSUME NEW d \in Dev, LinkDown(d) PROVE QueueRuns'
        BY <1>5, <2>3, Zenon DEF LinkDown, priv, modes, LinkRuns, Shape, LinkShape
  <2>4. CASE ldd_open
        BY <1>5, <2>4, LinkDev, Zenon DEF ldd_open, Shape, LinkShape
  <2>5. CASE StopReceive
        BY <1>5, <2>5, LinkDev, Zenon DEF StopReceive, ldd_stop, Shape, LinkShape
  <2>6. CASE NapiDisabled \/ StopRelease \/ StopWake
        BY <1>5, <2>6, LinkDev, ZenonT(40)
        DEF NapiDisabled, StopRelease, StopWake, ldd_stop, Shape, LinkShape,
             priv, modes, ldd_release_buffer
  <2>7. CASE Unregister
        BY <1>5, <2>7, LoadFrame, Zenon DEF Unregister, ldd_destroy, Shape, LinkShape
  <2>8. CASE ldd_create \/ Register \/ m_exit \/ Unregistered \/ FreeAll
        BY <1>4, <2>8, LoadFrame, Zenon
        DEF ldd_create, Register, m_exit, ldd_destroy, Unregistered, FreeAll
  <2> QED BY <1>3, <2>1, <2>2, <2>3, <2>4, <2>5, <2>6, <2>7, <2>8, <1>4, Zenon
          DEF Next, ldd_stop, ldd_destroy, Unloaded, vars, priv, modes
<1> QED BY <1>1, <1>2, <1>3, <1>5, QueueSteps, Zenon

\* A NAPI context is enabled between ldd_open() and napi_disable(), and polled only when scheduled.
LEMMA NapiRunsKept ==
  ASSUME Types, Shape, Runs, Next
  PROVE  NapiRuns'
<1> USE DEF Types, TypeCore, NapiRuns, At
\* napi changes at one device only
<1>0. ASSUME NEW d \in Dev, NEW n \in NapiState, napi' = [napi EXCEPT ![d] = n]
      PROVE  napi'[d] = n /\ \A c \in Dev : c # d => napi'[c] = napi[c]
      BY <1>0, Zenon
<1>1. ASSUME NEW d \in Dev, Send(d) \/ Xmit(d) PROVE NapiRuns'
  <2>1. UNCHANGED <<use_napi, up, link, ppc, tail>>
        BY <1>1, XmitFrame, Zenon
  <2>2. CASE UNCHANGED napi
        BY <2>1, <2>2, Zenon DEF Runs
  <2>3. CASE ~UNCHANGED napi
    <3> DEFINE e == irq[d]
               n == Scheduled(napi[e])
    <3>1. xpc[d] = "sched" /\ napi' = [napi EXCEPT ![e] = n]
          BY <1>1, <2>3, Zenon DEF Send, ldd_start_xmit, ldd_start_xmit_drop,
             Xmit, ldd_rx_enqueue, TxInterrupt, ldd_ack_interrupt,
             ldd_regular_interrupt, ldd_napi_interrupt, XmitRelease, XmitWake, HandlerEnd
    <3>2. e \in Dev
          BY <3>1, Zenon DEF Shape, XmitShape
    <3>3. /\ n \in NapiState /\ n.disable = napi[e].disable
          /\ n.state = "off" <=> napi[e].state = "off"
          /\ napi[e].state = "sched" => n.state = "sched"
          BY <3>2, NapiCalls, ZenonT(40)
    <3> HIDE DEF n, e
    <3>4. napi'[e] = n /\ \A c \in Dev : c # e => napi'[c] = napi[c]
          BY <1>0, <3>1, <3>2, <3>3, Zenon
    <3> QED BY <2>1, <3>2, <3>3, <3>4 DEF Runs
  <2> QED BY <2>2, <2>3, Zenon
<1>2. ASSUME NEW d \in Dev, ldd_poll(d), UNCHANGED napi PROVE NapiRuns'
  <2>1. UNCHANGED <<use_napi, up, link>>
        BY <1>2, PollFrame, Zenon
  <2>2. napi[d].state = "sched" \/ ppc[d] # "idle"
        BY <1>2, Zenon DEF ldd_poll, PollStart, PollTake, PollBudget, PollRelease, PollWake,
           PollComplete
  <2>3. napi[d].state = "sched" /\ use_napi
        BY <2>2, Zenon DEF Runs
  <2>4. \A c \in Dev : c # d => ppc'[c] = ppc[c]
        BY <1>2, Zenon DEF ldd_poll, PollStart, PollTake, PollBudget, PollRelease, PollWake,
           PollComplete,
                    PollAt, TypePoll
  <2> QED BY <1>2, <2>1, <2>3, <2>4 DEF Runs
<1>3. ASSUME NEW d \in Dev, PollBudget(d) \/ PollComplete(d), ~UNCHANGED napi PROVE NapiRuns'
  <2> DEFINE n == Completed(napi[d])
  <2>1. UNCHANGED <<use_napi, up, link>>
        BY <1>3, PollFrame, Zenon DEF ldd_poll
  <2>2. /\ napi' = [napi EXCEPT ![d] = n] /\ ppc'[d] = "idle" /\ ppc[d] # "idle"
        /\ \A c \in Dev : c # d => ppc'[c] = ppc[c]
        BY <1>3 DEF PollBudget, PollComplete, PollAt, TypePoll
  <2>3. napi[d].state = "sched" /\ use_napi
        BY <2>2, Zenon DEF Runs
  <2>4. n \in NapiState /\ n.disable = napi[d].disable /\ n.state # "off"
        BY <2>3, NapiCalls, ZenonT(40)
  <2> HIDE DEF n
  <2>5. napi'[d] = n /\ \A c \in Dev : c # d => napi'[c] = napi[c]
        BY <1>0, <2>2, <2>4, Zenon
  <2> QED BY <2>1, <2>2, <2>3, <2>4, <2>5 DEF Runs
<1>4. ASSUME NEW d \in Dev, PollTail(d) PROVE NapiRuns'
  <2> DEFINE n == Scheduled(napi[d])
  <2>1. UNCHANGED <<use_napi, up, link, ppc>> /\ tail[d] # "none"
        BY <1>4, PollFrame, Zenon DEF PollTail, PollLook, PollAgain, p
  <2>2. use_napi
        BY <2>1, Zenon DEF Runs
  <2>3. UNCHANGED napi \/ napi' = [napi EXCEPT ![d] = n]
        BY <1>4, Zenon DEF PollTail, PollLook, PollAgain
  <2>4. /\ n \in NapiState /\ n.disable = napi[d].disable
        /\ n.state = "off" <=> napi[d].state = "off"
        /\ napi[d].state = "sched" => n.state = "sched"
        BY NapiCalls
  <2> HIDE DEF n
  <2>5. CASE UNCHANGED napi
        BY <2>1, <2>2, <2>5, Zenon DEF Runs
  <2>6. CASE napi' = [napi EXCEPT ![d] = n]
    <3>1. napi'[d] = n /\ \A c \in Dev : c # d => napi'[c] = napi[c]
          BY <1>0, <2>4, <2>6, Zenon
    <3> QED BY <2>1, <2>2, <2>4, <3>1 DEF Runs
  <2> QED BY <2>3, <2>5, <2>6, Zenon
<1>5. ASSUME NEW d \in Dev, LinkUp(d) PROVE NapiRuns'
  <2>1. UNCHANGED <<use_napi, up, ppc, tail>> /\ ~up[d] /\ link.pc = "idle"
        BY <1>5, LinkFrame, Zenon DEF LinkUp, core
  <2>2. napi[d].state = "off" /\ ~napi[d].disable /\ ppc[d] = "idle" /\ link.dev = None
        BY <2>1, Zenon DEF Runs, Shape, LinkShape
  <2>3. link'.pc = "open" /\ link'.dev = d
        BY <1>5, Zenon DEF LinkUp, LinkState
  <2>4. /\ napi'[d].state = IF use_napi THEN "idle" ELSE "off"
        /\ napi'[d].disable = napi[d].disable
        /\ \A c \in Dev : c # d => napi'[c] = napi[c]
        BY <1>5, <2>2, Zenon DEF LinkUp, NapiState
  <2> QED BY <2>1, <2>2, <2>3, <2>4, Twins DEF Runs
<1>6. ASSUME NEW d \in Dev, LinkDown(d) PROVE NapiRuns'
  <2>1. UNCHANGED <<use_napi, ppc, tail, napi>> /\ up[d] /\ link.pc = "idle"
        BY <1>6, LinkFrame, Zenon DEF LinkDown
  <2>2. link'.pc = "stop" /\ link'.dev = d /\ link.dev = None
        BY <1>6, Zenon DEF LinkDown, LinkState, Shape, LinkShape
  <2>3. ~up'[d] /\ \A c \in Dev : c # d => up'[c] = up[c]
        BY <1>6, Zenon DEF LinkDown, TypeParam
  <2> QED BY <2>1, <2>2, <2>3, Twins DEF Runs
<1>7. CASE ldd_open
  <2> DEFINE d == link.dev
  <2>1. UNCHANGED <<use_napi, ppc, tail, napi>> /\ link.pc = "open" /\ d \in Dev
        BY <1>7, LinkFrame, LinkDev, Zenon DEF ldd_open
  <2>2. link'.pc = "idle" /\ link'.dev = None
        BY <1>7, Zenon DEF ldd_open, LinkState
  <2>3. up'[d] /\ \A c \in Dev : c # d => up'[c] = up[c]
        BY <1>7, <2>1, Zenon DEF ldd_open, TypeParam
  <2> QED BY <2>1, <2>2, <2>3, Twins DEF Runs
<1>8. CASE StopReceive
  <2> DEFINE d == link.dev
  <2>1. UNCHANGED <<use_napi, up, ppc, tail>> /\ link.pc = "stop" /\ d \in Dev
        BY <1>8, LinkFrame, LinkDev, Zenon DEF StopReceive, ldd_stop, core
  <2>2. link'.pc = (IF use_napi THEN "disable" ELSE "drain") /\ link'.dev = d
        BY <1>8, Zenon DEF StopReceive, LinkState
  <2>3. /\ napi'[d].state = napi[d].state /\ napi'[d].disable = use_napi
        /\ \A c \in Dev : c # d => napi'[c] = napi[c]
        BY <1>8, <2>1, Zenon DEF StopReceive, NapiState
  <2>4. ~up[d]
        BY <2>1, Zenon DEF Runs, LinkRuns
  <2> QED BY <2>1, <2>2, <2>3, <2>4 DEF Runs
<1>9. CASE NapiDisabled
  <2> DEFINE d == link.dev
  <2>1. UNCHANGED <<use_napi, up, ppc, tail>> /\ link.pc = "disable" /\ d \in Dev
        BY <1>9, LinkFrame, LinkDev, Zenon DEF NapiDisabled, ldd_stop, core
  <2>2. link'.pc = "drain" /\ link'.dev = d
        BY <1>9, Zenon DEF NapiDisabled, LinkState
  <2>3. /\ napi'[d].state = "off" /\ ~napi'[d].disable
        /\ \A c \in Dev : c # d => napi'[c] = napi[c]
        BY <1>9, <2>1, Zenon DEF NapiDisabled, NapiState
  <2>4. ~up[d] /\ ppc[d] = "idle"
        BY <1>9, <2>1, Zenon DEF Runs, LinkRuns, NapiDisabled
  <2> QED BY <2>1, <2>2, <2>3, <2>4 DEF Runs
<1>10. CASE StopDrain \/ StopRelease \/ StopWake
  <2>1. /\ UNCHANGED <<use_napi, up, ppc, tail, napi>>
        /\ link.pc \in {"drain", "put", "wake"}
        BY <1>10, LinkFrame, Zenon DEF StopDrain, StopRelease, StopWake, ldd_stop, core
  <2>2. \/ link'.dev = None
        \/ link'.pc \in {"drain", "put", "wake"} /\ link'.dev = link.dev
        BY <1>10, Zenon DEF StopDrain, StopRelease, StopWake, LinkState
  <2> QED BY <2>1, <2>2, Twins, ZenonT(40) DEF Runs
<1>11. CASE Unregister
  <2> DEFINE d == load.i
  <2>1. UNCHANGED <<use_napi, ppc, tail, napi>> /\ link.pc = "idle" /\ d \in Dev
        BY <1>11, LoadFrame DEF Unregister, ldd_destroy, TypeParam, LoadState, Dev
  <2>2. link.dev = None
        BY <2>1, Zenon DEF Shape, LinkShape
  <2>3. \/ up[d] /\ link'.pc = "stop" /\ link'.dev = d
        \/ ~up[d] /\ link' = link
        BY <1>11, Zenon DEF Unregister, LinkState
  <2>4. ~up'[d] /\ \A c \in Dev : c # d => up'[c] = up[c]
        BY <1>11, <2>1, Zenon DEF Unregister, TypeParam
  <2> QED BY <2>1, <2>2, <2>3, <2>4, Twins, ZenonT(40) DEF Runs
<1>12. ASSUME UNCHANGED <<use_napi, up, ppc, tail, napi, link>> PROVE NapiRuns'
      BY <1>12, Zenon DEF Runs
<1>13. CASE ldd_create \/ Register \/ m_exit \/ Unregistered \/ FreeAll
      BY <1>12, <1>13, LoadFrame, Zenon
      DEF ldd_create, Register, m_exit, ldd_destroy, Unregistered, FreeAll
<1>14. ASSUME NEW d \in Dev, ldd_poll(d) PROVE NapiRuns'
      BY <1>2, <1>3, <1>14, Zenon DEF ldd_poll, PollStart, PollTake, PollRelease, PollWake
<1>15. CASE Unloaded
      BY <1>12, <1>15, Zenon DEF Unloaded, vars, param, p
<1> QED BY <1>1, <1>4, <1>5, <1>6, <1>7, <1>8, <1>9, <1>10, <1>11, <1>13, <1>14, <1>15, Zenon
        DEF Next, ldd_stop, ldd_destroy

\* A step of the transmit path of d leaves the one of its twin where it is.
LEMMA OnePath ==
  ASSUME Types, NEW d \in Dev, Send(d) \/ Xmit(d)
  PROVE  \A c \in Dev : c # d => /\ xpc'[c] = xpc[c] /\ irq'[c] = irq[c]
                              /\ skb'[c] = skb[c] /\ pkt'[c] = pkt[c]
BY ZenonT(40) DEF Send, ldd_start_xmit, ldd_start_xmit_drop, Xmit, ldd_rx_enqueue, TxInterrupt,
       ldd_ack_interrupt, ldd_regular_interrupt, ldd_napi_interrupt, XmitRelease, XmitWake,
       HandlerEnd, Path, Goto, x, Types, TypeXmit

\* A status bit is set only while the path that raised it is about to take it.
LEMMA InterruptsKept ==
  ASSUME Base, Next
  PROVE  Interrupts'
<1> USE DEF Base
<1>0. ASSUME NEW d \in Dev, Send(d) \/ Xmit(d), xpc[d] # "ack", UNCHANGED <<status, tx_skb>>
      PROVE  Interrupts'
  <2> DEFINE e == ldd_peer(d)
  <2>1. xpc'[e] = xpc[e] /\ irq'[e] = irq[e]
        BY <1>0, OnePath, Twins, ZenonT(40)
  <2>2. "TX" \notin status[d] /\ "RX" \notin status[e]
        BY <1>0, Twins DEF Interrupts
  <2> QED BY <1>0, <2>1, <2>2, Twins, SMTT(30) DEF Interrupts
<1>1. ASSUME NEW d \in Dev, Send(d) PROVE Interrupts'
      BY <1>0, <1>1, Zenon DEF Send, ldd_start_xmit, ldd_start_xmit_drop, MaySend,
         ldd_get_tx_buffer, priv, irqs
<1>2. ASSUME NEW d \in Dev, ldd_rx_enqueue(d) PROVE Interrupts'
  <2> DEFINE e == ldd_peer(d)
  <2>1. CASE UNCHANGED status
        BY <1>0, <1>2, <2>1, Zenon DEF ldd_rx_enqueue, Xmit
  <2>2. CASE ~UNCHANGED status
    <3>1. /\ status'[d] = status[d] /\ status'[e] = status[e] \cup {"RX"} /\ xpc[d] = "wire"
          /\ Path(d, "ack", e, 0, 0) /\ tx_skb' = tx_skb
          BY <1>2, <2>2, Enqueue, Zenon
    <3>2. xpc'[d] = "ack" /\ irq'[d] = e
          BY <3>1, Moves, Twins, ZenonT(40) DEF XmitPC
    <3>3. xpc'[e] = xpc[e] /\ irq'[e] = irq[e]
          BY <1>2, OnePath, Twins, ZenonT(40) DEF Xmit
    <3> QED BY <3>1, <3>2, <3>3, Twins, SMTT(30) DEF Interrupts
  <2> QED BY <2>1, <2>2, Zenon
<1>3. ASSUME NEW d \in Dev, TxInterrupt(d) PROVE Interrupts'
  <2> DEFINE e == ldd_peer(d)
  <2>1. /\ status'[d] = status[d] \cup {"TX"} /\ status'[e] = status[e] /\ xpc[d] = "sent"
        /\ Path(d, "ack", d, 0, 0) /\ tx_skb'[d] = sent[d] /\ tx_skb'[e] = tx_skb[e]
        BY <1>3, Twins, Zenon DEF TxInterrupt, Types, TypePriv
  <2>2. xpc'[d] = "ack" /\ irq'[d] = d
        BY <2>1, Moves, Twins DEF XmitPC
  <2>3. xpc'[e] = xpc[e] /\ irq'[e] = irq[e]
        BY <1>3, OnePath, Twins, ZenonT(40) DEF Xmit
  <2>4. sent[d] # 0
    <3>1. sent[d] > 0 /\ sent[d] \in Nat
          BY <2>1, Zenon DEF Shape, XmitShape, Types, TypeCount
    <3> QED BY <3>1
  <2>5. "RX" \notin status[e]
        BY <2>1, Twins, Zenon DEF Interrupts
  <2> QED BY <2>1, <2>2, <2>3, <2>4, <2>5, Twins, SMTT(30) DEF Interrupts
<1>4. ASSUME NEW d \in Dev, ldd_ack_interrupt(d) PROVE Interrupts'
  <2> DEFINE e == irq[d]
             c == ldd_peer(d)
  <2>1. xpc[d] = "ack" /\ e \in Dev
        BY <1>4, Zenon DEF ldd_ack_interrupt, Shape, XmitShape
  <2>2. /\ status'[e] = {} /\ status'[ldd_peer(e)] = status[ldd_peer(e)]
        /\ tx_skb'[e] = (IF "TX" \in status[e] THEN 0 ELSE tx_skb[e])
        /\ tx_skb'[ldd_peer(e)] = tx_skb[ldd_peer(e)]
        BY <1>4, <2>1, Twins, Zenon DEF ldd_ack_interrupt, Types, TypePriv
  <2>3. tx_skb'[e] = 0
        BY <2>1, <2>2, Zenon DEF Interrupts
  <2>4. xpc'[c] = xpc[c] /\ irq'[c] = irq[c]
        BY <1>4, OnePath, Twins, ZenonT(40) DEF Xmit
  <2>5. e = d => "RX" \notin status[c]
        BY <2>1, Twins DEF Interrupts
  <2>6. e = c => "TX" \notin status[d]
        BY <2>1, Twins, Zenon DEF Interrupts
  <2>7. c \in Dev /\ c # d /\ ldd_peer(c) = d /\ \A y \in Dev : y = d \/ y = c
        BY Twins, Zenon
  <2>8. CASE e = d
        BY <2>2, <2>3, <2>4, <2>5, <2>7, <2>8 DEF Interrupts
  <2>9. CASE e = c
        BY <2>2, <2>3, <2>4, <2>6, <2>7, <2>9 DEF Interrupts
  <2> QED BY <2>1, <2>7, <2>8, <2>9, Zenon
<1>5. ASSUME NEW d \in Dev, Xmit(d), ~ldd_rx_enqueue(d), ~TxInterrupt(d), ~ldd_ack_interrupt(d) PROVE Interrupts'
      BY <1>0, <1>5, Zenon DEF Xmit, ldd_regular_interrupt, ldd_rx_dequeue, ldd_napi_interrupt,
         XmitRelease, ldd_release_buffer, XmitWake, HandlerEnd, priv, irqs
<1>6. ASSUME UNCHANGED <<xpc, irq, status, tx_skb>> PROVE Interrupts'
      BY <1>6, Zenon DEF Interrupts
<1>7. CASE Unloaded
      BY <1>6, <1>7, Zenon DEF Unloaded, vars, x, priv, irqs
<1> QED BY <1>1, <1>2, <1>3, <1>4, <1>5, <1>6, <1>7, PollFrame, LinkFrame, LoadFrame, Zenon
        DEF Next

\* Every step keeps the types, the shapes, what runs and the status bits.
LEMMA BaseKept ==
  ASSUME Base, [Next]_vars
  PROVE  Base'
<1>1. CASE Next
  <2>1. Types'
        BY <1>1, TypesKept, Zenon DEF Base
  <2>2. Shape'
        BY <1>1, QueueShapeKept, PollShapeKept, LinkShapeKept, XmitShapeKept, Zenon
        DEF Base, Shape
  <2>3. Runs'
        BY <1>1, LinkRunsKept, NapiRunsKept, QueueRunsKept, XmitRunsKept, Zenon DEF Base, Runs
  <2> QED BY <1>1, <2>1, <2>2, <2>3, InterruptsKept, Zenon DEF Base
<1>2. CASE UNCHANGED vars
  <2> USE <1>2 DEF vars, param, priv, irqs, modes, x, p, Base
  <2>1. Types'
        BY ZenonT(40) DEF Types, TypeParam, TypePriv, TypeXmit, TypePoll, TypeCore, TypeCount
  <2>2. Shape'
        BY ZenonT(40) DEF Shape, XmitShape, PollShape, QueueShape, LinkShape
  <2>3. Runs'
        BY ZenonT(40) DEF Runs, LinkRuns, NapiRuns, QueueRuns, XmitRuns, At
  <2>4. Interrupts'
        BY ZenonT(40) DEF Interrupts
  <2> QED BY <2>1, <2>2, <2>3, <2>4, Zenon
<1> QED BY <1>1, <1>2, Zenon

\* They hold before the module is loaded.
LEMMA BaseInit ==
  ASSUME Init
  PROVE  Base
<1> USE NetdevAssumption DEF Init, PrivInit
<1>1. TypeParam /\ TypeCount
      BY DEF TypeParam, TypeCount, LoadState
<1>2. TypePriv
      BY DEF TypePriv
<1>3. TypeXmit /\ TypePoll /\ TypeCore
      BY ZenonT(40) DEF TypeXmit, TypePoll, TypeCore, XmitPC, PollPC, NapiState, LinkState
<1>4. Shape
      BY SMTT(30) DEF Shape, XmitShape, PollShape, QueueShape, LinkShape
<1>5. Runs
      BY Twins, Zenon DEF Runs, LinkRuns, NapiRuns, QueueRuns, XmitRuns, At
<1>6. Interrupts
      BY Zenon DEF Interrupts
<1> QED BY <1>1, <1>2, <1>3, <1>4, <1>5, <1>6, ZenonT(40) DEF Base, Types

-------------------------------------------------------------------------------
(* The wake-up of a stopped queue.                                         *)

\* A thread is on its way to wake the queue of device d.
Waker(d) ==
  \/ \E y \in Dev : xpc[y] = "wake" /\ Owner(y) = d
  \/ ppc[ldd_peer(d)] = "wake"
  \/ link.pc = "wake" /\ link.dev = ldd_peer(d)

\* The thread that puts the first buffer back becomes the waker.
LEMMA ReleaseWakes ==
  ASSUME Types, WakeComing, NEW o \in Dev, ldd_release_buffer(o), UNCHANGED <<up, stopped>>,
         \A c \in Dev : Waker(c) => Waker(c)', pool[o] = 0 => Waker(o)'
  PROVE  WakeComing'
<1>1. pool'[o] = pool[o] + 1 /\ pool'[ldd_peer(o)] = pool[ldd_peer(o)] /\ pool[o] \in Nat
      BY Release, Zenon DEF Types, TypePriv
<1>2. \A c \in Dev : up[c] /\ stopped[c] /\ pool[c] > 0 => Waker(c)
      BY Zenon DEF WakeComing, Waker
<1>3. SUFFICES ASSUME NEW c \in Dev, up'[c], stopped'[c], pool'[c] > 0 PROVE Waker(c)'
      BY Zenon DEF WakeComing, Waker
<1>4. CASE c = o
  <2>1. pool[o] = 0 \/ pool[o] > 0
        BY <1>1
  <2> QED BY <1>2, <1>3, <1>4, <2>1, Zenon
<1>5. CASE c # o
  <2>1. pool'[c] = pool[c]
        BY <1>1, <1>5, Twins, Zenon
  <2> QED BY <1>2, <1>3, <2>1, Zenon
<1> QED BY <1>4, <1>5, Zenon

\* A queue stopped with a buffer in the pool keeps its waker.
LEMMA WakeKept ==
  ASSUME Base, WakeComing, Next
  PROVE  WakeComing'
<1> USE DEF Base, Types, TypePriv, TypeCore, TypeParam, Waker
\* the step neither wakes a queue nor puts a buffer back
<1>1. ASSUME \A c \in Dev : Waker(c) => Waker(c)',
             \A c \in Dev : up'[c] /\ stopped'[c] /\ pool'[c] > 0 => up[c] /\ stopped[c] /\ pool[c] > 0
      PROVE  WakeComing'
      BY <1>1, Zenon DEF WakeComing
\* the transmit path of d, not at its wake-up
<1>2. ASSUME NEW d \in Dev, Send(d) \/ Xmit(d), xpc[d] # "wake"
      PROVE  \A c \in Dev : Waker(c) => Waker(c)'
      BY <1>2, OnePath, XmitFrame, ZenonT(40) DEF Owner
<1>3. ASSUME NEW d \in Dev, ldd_start_xmit(d) PROVE WakeComing'
  <2>1. Send(d) /\ xpc[d] # "wake" /\ ~stopped[d] /\ up' = up
        BY <1>3, XmitFrame, Zenon DEF Send, ldd_start_xmit, MaySend
  <2>2. /\ pool[d] \in Nat /\ pool'[d] = pool[d] - 1
        /\ \A c \in Dev : c # d => pool'[c] = pool[c] /\ stopped'[c] = stopped[c]
        BY <1>3, Zenon DEF ldd_start_xmit, ldd_get_tx_buffer
  <2>3. stopped'[d] => pool[d] = 1
        BY <1>3, <2>1, Zenon DEF ldd_start_xmit, ldd_get_tx_buffer
  <2>4. \A c \in Dev : pool'[c] > 0 /\ stopped'[c] => stopped[c] /\ pool[c] > 0
    <3> SUFFICES ASSUME NEW c \in Dev, pool'[c] > 0, stopped'[c] PROVE stopped[c] /\ pool[c] > 0
          BY Zenon
    <3>1. c # d
          BY <2>2, <2>3
    <3> QED BY <2>2, <3>1, Zenon
  <2> HIDE DEF Waker
  <2> QED BY <1>1, <1>2, <2>1, <2>4, Zenon
<1>4. ASSUME NEW d \in Dev, Send(d) \/ Xmit(d), ~ldd_start_xmit(d), ~XmitRelease(d), ~XmitWake(d)
      PROVE  WakeComing'
  <2>1. xpc[d] # "wake" /\ UNCHANGED <<up, stopped, pool>>
        BY <1>4, XmitFrame, Zenon
        DEF Send, ldd_start_xmit_drop, MaySend, Xmit, ldd_rx_enqueue, TxInterrupt,
           ldd_ack_interrupt, ldd_regular_interrupt, ldd_rx_dequeue, ldd_napi_interrupt,
           HandlerEnd, priv
  <2> QED BY <1>1, <1>2, <1>4, <2>1, Zenon
<1>5. ASSUME NEW d \in Dev, XmitRelease(d) PROVE WakeComing'
  <2>0. PICK o \in Dev : o = Owner(d)
        BY Twins DEF Owner, TypeXmit
  <2> DEFINE pc == IF WasEmpty(o) THEN "wake" ELSE Released(d)
  <2>1. Xmit(d) /\ xpc[d] # "wake" /\ UNCHANGED <<up, stopped>>
        BY <1>5, XmitFrame, Zenon DEF Xmit, XmitRelease
  <2>2. ldd_release_buffer(o) /\ Path(d, pc, irq[d], skb[d], 0) /\ pc \in XmitPC
        BY <1>5, <2>0, Zenon DEF XmitRelease, Released, XmitPC
  <2>4. xpc'[d] = pc /\ irq'[d] = irq[d]
        BY <2>2, Moves, ZenonT(40) DEF TypeXmit
  <2>5. pool[o] = 0 => xpc'[d] = "wake" /\ Owner(d)' = o
        BY <2>0, <2>4, Zenon DEF Owner, WasEmpty
  <2>6. \A c \in Dev : Waker(c) => Waker(c)'
        BY <1>2, <2>1, Zenon
  <2>7. pool[o] = 0 => Waker(o)'
        BY <2>2, <2>5, Zenon
  <2> HIDE DEF Waker, Types
  <2> QED BY <2>1, <2>2, <2>6, <2>7, ReleaseWakes, Zenon
<1>6. ASSUME NEW d \in Dev, XmitWake(d) PROVE WakeComing'
  <2>0. PICK o \in Dev : o = Owner(d)
        BY Twins, ZenonT(40) DEF Owner, TypeXmit
  <2>1. UNCHANGED <<up, pool>> /\ stopped' = [stopped EXCEPT ![o] = FALSE]
        BY <1>6, <2>0, Zenon DEF XmitWake, core, priv
  <2>2. ~stopped'[o] /\ \A c \in Dev : c # o => stopped'[c] = stopped[c]
        BY <2>1, Zenon
  <2>3. ASSUME NEW c \in Dev, c # o, Waker(c) PROVE Waker(c)'
    <3>1. Xmit(d)
          BY <1>6, Zenon DEF Xmit
    <3>2. UNCHANGED <<link, ppc>>
          BY <3>1, XmitFrame, Zenon
    <3>3. ASSUME NEW y \in Dev, xpc[y] = "wake", Owner(y) = c
          PROVE  xpc'[y] = "wake" /\ Owner(y)' = c
      <4>1. y # d
            BY <2>0, <2>3, <3>3, Zenon
      <4>2. xpc'[y] = xpc[y] /\ irq'[y] = irq[y]
            BY <3>1, <4>1, OnePath, Zenon
      <4> QED BY <3>3, <4>2, Zenon DEF Owner
    <3> QED BY <2>3, <3>2, <3>3, Zenon
  <2> QED BY <2>1, <2>2, <2>3, Zenon DEF WakeComing
<1>7. ASSUME NEW d \in Dev, ldd_poll(d) \/ PollTail(d), ppc[d] # "wake"
      PROVE  \A c \in Dev : Waker(c) => Waker(c)'
  <2>1. \A c \in Dev : c # d => ppc'[c] = ppc[c]
        BY <1>7, ZenonT(40) DEF ldd_poll, PollTail, PollStart, PollTake, PollBudget, PollRelease,
           PollWake,
           PollComplete, PollLook, PollAgain, PollAt, TypePoll, p
  <2> QED BY <1>7, <2>1, PollFrame, Twins, Zenon DEF Owner
<1>8. ASSUME NEW d \in Dev, ldd_poll(d) \/ PollTail(d), ~PollRelease(d), ~PollWake(d)
      PROVE  WakeComing'
  <2>1. UNCHANGED <<up, stopped, pool>>
        BY <1>8, PollFrame, Zenon DEF ldd_poll, PollTail, PollStart, PollTake, PollBudget,
           PollComplete, PollLook, PollAgain, ldd_rx_dequeue, priv
  <2>2. ppc[d] # "wake" \/ PollTail(d)
        BY <1>8, Zenon DEF ldd_poll, PollStart, PollTake, PollBudget, PollComplete
  <2>3. CASE PollTail(d)
        BY <1>1, <2>1, <2>3, PollFrame, Zenon DEF PollTail, PollLook, PollAgain, p, Owner
  <2> QED BY <1>1, <1>7, <1>8, <2>1, <2>2, <2>3, Zenon
<1>9. ASSUME NEW d \in Dev, PollRelease(d) PROVE WakeComing'
  <2> DEFINE o == ldd_peer(d)
  <2>1. ldd_poll(d) /\ ppc[d] # "wake" /\ UNCHANGED <<up, stopped>>
        BY <1>9, PollFrame, Zenon DEF ldd_poll, PollRelease
  <2>2. o \in Dev /\ ldd_release_buffer(o) /\ ldd_peer(o) = d
        BY <1>9, Twins, Zenon DEF PollRelease
  <2>4. pool[o] = 0 => ppc'[d] = "wake"
        BY <1>9, Zenon DEF PollRelease, WasEmpty, PollAt, TypePoll
  <2>6. \A c \in Dev : Waker(c) => Waker(c)'
        BY <1>7, <2>1, Zenon
  <2>7. pool[o] = 0 => Waker(o)'
        BY <2>2, <2>4, Zenon
  <2> HIDE DEF Waker, Types
  <2> QED BY <2>1, <2>2, <2>6, <2>7, ReleaseWakes, Zenon
<1>10. ASSUME NEW d \in Dev, PollWake(d) PROVE WakeComing'
  <2> DEFINE o == ldd_peer(d)
  <2>1. o \in Dev /\ UNCHANGED <<up, pool>> /\ stopped' = [stopped EXCEPT ![o] = FALSE]
        BY <1>10, Twins, Zenon DEF PollWake, core, priv
  <2>2. ~stopped'[o] /\ \A c \in Dev : c # o => stopped'[c] = stopped[c]
        BY <2>1, Zenon
  <2>3. \A c \in Dev : c # d => ppc'[c] = ppc[c]
        BY <1>10, Zenon DEF PollWake, PollAt, TypePoll
  <2>4. \A c \in Dev : c # o /\ Waker(c) => Waker(c)'
        BY <1>10, <2>3, PollFrame, Twins, Zenon DEF Owner, ldd_poll
  <2> HIDE DEF o
  <2> QED BY <2>1, <2>2, <2>4, Zenon DEF WakeComing
\* the rtnl holder, not at its wake-up
<1>11. ASSUME UNCHANGED <<xpc, irq, ppc>>, link.pc # "wake" \/ UNCHANGED link
       PROVE  \A c \in Dev : Waker(c) => Waker(c)'
      BY <1>11, Zenon DEF Owner
<1>12. ASSUME NEW d \in Dev, LinkUp(d) \/ LinkDown(d) PROVE WakeComing'
  <2>1. UNCHANGED <<xpc, irq, ppc, pool, stopped>> /\ link.pc # "wake"
        BY <1>12, LinkFrame, Zenon DEF LinkUp, LinkDown, priv
  <2>2. \A c \in Dev : up'[c] => up[c]
        BY <1>12, Zenon DEF LinkUp, LinkDown, core
  <2> QED BY <1>1, <1>11, <2>1, <2>2, Zenon
<1>13. CASE ldd_open \/ StopReceive \/ NapiDisabled \/ StopDrain
  <2>1. UNCHANGED <<xpc, irq, ppc, pool>> /\ link.pc # "wake" /\ link.dev \in Dev
        BY <1>13, LinkFrame, LinkDev, Zenon
        DEF ldd_open, StopReceive, NapiDisabled, StopDrain, ldd_stop, ldd_rx_dequeue, priv
  <2>2. CASE ldd_open
    <3>1. ~stopped'[link.dev] /\ \A c \in Dev : c # link.dev => stopped'[c] = stopped[c] /\ up'[c] = up[c]
          BY <2>1, <2>2, Zenon DEF ldd_open
    <3> QED BY <1>1, <1>11, <2>1, <3>1, Zenon
  <2>3. CASE StopReceive
    <3>1. up' = up /\ ~up[link.dev]
          BY <2>1, <2>3, Zenon DEF StopReceive, core, Runs, LinkRuns
    <3>2. \A c \in Dev : c # link.dev => stopped'[c] = stopped[c]
          BY <2>1, <2>3, Zenon DEF StopReceive
    <3> QED BY <1>1, <1>11, <2>1, <3>1, <3>2, Zenon
  <2>4. CASE NapiDisabled \/ StopDrain
    <3>1. UNCHANGED <<up, stopped>>
          BY <2>4, Zenon DEF NapiDisabled, StopDrain, core
    <3> QED BY <1>1, <1>11, <2>1, <3>1, Zenon
  <2> QED BY <1>13, <2>2, <2>3, <2>4, Zenon
<1>14. CASE StopRelease
  <2>1. UNCHANGED <<up, stopped, xpc, irq, ppc>> /\ link.pc = "put" /\ link.dev \in Dev
        BY <1>14, LinkFrame, LinkDev, Zenon DEF ldd_stop, StopRelease, core
  <2>0. PICK o \in Dev : o = ldd_peer(link.dev)
        BY <2>1, Twins, Zenon
  <2>2. ldd_release_buffer(o) /\ ldd_peer(o) = link.dev
        BY <1>14, <2>0, <2>1, Twins, Zenon DEF StopRelease
  <2>4. pool[o] = 0 => link'.pc = "wake" /\ link'.dev = link.dev
        BY <1>14, <2>0, Zenon DEF StopRelease, WasEmpty, LinkState
  <2>6. \A c \in Dev : Waker(c) => Waker(c)'
        BY <1>11, <2>1, Zenon
  <2>7. pool[o] = 0 => Waker(o)'
        BY <2>2, <2>4, Zenon
  <2> HIDE DEF Waker, Types
  <2> QED BY <2>1, <2>2, <2>6, <2>7, ReleaseWakes, Zenon
<1>15. CASE StopWake
  <2>1. UNCHANGED <<up, pool, xpc, irq, ppc>> /\ link.dev \in Dev
        BY <1>15, LinkFrame, LinkDev, Zenon DEF ldd_stop, StopWake, core, priv
  <2>0. PICK o \in Dev : o = ldd_peer(link.dev)
        BY <2>1, Twins, Zenon
  <2>2. stopped' = [stopped EXCEPT ![o] = FALSE]
        BY <1>15, <2>0, Zenon DEF StopWake
  <2>3. ~stopped'[o] /\ \A c \in Dev : c # o => stopped'[c] = stopped[c]
        BY <2>2, Zenon
  <2>4. \A c \in Dev : c # o /\ Waker(c) => Waker(c)'
        BY <2>0, <2>1, Twins, Zenon DEF Owner
  <2> QED BY <2>1, <2>2, <2>3, <2>4, Zenon DEF WakeComing
<1>16. CASE ldd_create \/ Register \/ m_exit \/ ldd_destroy
  <2>1. UNCHANGED <<xpc, irq, ppc, pool, stopped>>
        BY <1>16, LoadFrame, Zenon
  <2>2. link.pc # "wake" \/ UNCHANGED link
        BY <1>16, Zenon DEF ldd_create, Register, m_exit, ldd_destroy, Unregister,
           Unregistered, FreeAll
  <2>3. \A c \in Dev : up'[c] => up[c]
        BY <1>16, Zenon DEF ldd_create, Register, m_exit, ldd_destroy, Unregister,
           Unregistered, FreeAll
  <2> QED BY <1>1, <1>11, <2>1, <2>2, <2>3, Zenon
<1>17. CASE Unloaded
      BY <1>1, <1>11, <1>17, Zenon DEF Unloaded, vars, x, p, priv
<1> QED BY <1>3, <1>4, <1>5, <1>6, <1>8, <1>9, <1>10, <1>12, <1>13, <1>14, <1>15, <1>16, <1>17
        DEF Next, ldd_stop

-------------------------------------------------------------------------------
(* Somebody comes for every queued frame.                                  *)

\* Without NAPI: a receive interrupt, or a handler that found one, per frame.
Taking(y, d) == One(irq[y] = d /\ xpc[y] = "rx")
PlainTaken ==
  ~use_napi => \A d \in Dev :
    /\ running[d] => rx_int_enabled[d]
    /\ Len(rxq[d]) <= One("RX" \in status[d]) + Taking(d, d) + Taking(ldd_peer(d), d)

\* A queue of l frames and its r + a + b takers, of which one path changes r and
\* either a or b.
LEMMA Balance ==
  \A l, l1, r, r1, a, a1, b, b1 \in Int :
    l <= r + a + b =>
      /\ l1 + r + a <= l + r1 + a1 /\ b1 = b => l1 <= r1 + a1 + b1
      /\ l1 + r + b <= l + r1 + b1 /\ a1 = a => l1 <= r1 + a1 + b1
OBVIOUS

\* Without NAPI every queued frame keeps a handler, although a status bit counts once.
LEMMA PlainKept ==
  ASSUME Base, PlainTaken, Next
  PROVE  PlainTaken'
<1> USE DEF Base
<1>0. use_napi' = use_napi
      BY XmitFrame, PollFrame, LinkFrame, LoadFrame, Zenon DEF Next, Unloaded, vars, param
<1> SUFFICES ASSUME ~use_napi
             PROVE  \A d \in Dev :
                      /\ running'[d] => rx_int_enabled'[d]
                      /\ Len(rxq'[d]) <= One("RX" \in status'[d]) + Taking(d, d)' + Taking(ldd_peer(d), d)'
      BY <1>0, Zenon DEF PlainTaken
<1>1. \A d \in Dev :
        /\ running[d] => rx_int_enabled[d]
        /\ Len(rxq[d]) <= One("RX" \in status[d]) + Taking(d, d) + Taking(ldd_peer(d), d)
      BY Zenon DEF PlainTaken
<1>2. ASSUME NEW d \in Dev PROVE running'[d] => rx_int_enabled'[d]
  <2>1. ASSUME NEW c \in Dev, Send(c) \/ Xmit(c) PROVE running'[d] => rx_int_enabled'[d]
    <3>1. UNCHANGED <<running, rx_int_enabled>>
          BY <2>1, XmitFrame, Zenon
          DEF Send, ldd_start_xmit, ldd_start_xmit_drop, ldd_get_tx_buffer,
           Xmit, ldd_rx_enqueue, TxInterrupt, ldd_ack_interrupt, ldd_regular_interrupt,
           ldd_rx_dequeue, ldd_napi_interrupt, XmitRelease, ldd_release_buffer, XmitWake,
           HandlerEnd, priv, modes
    <3> QED BY <1>1, <3>1, Zenon
  <2>2. ASSUME NEW c \in Dev, ldd_poll(c) \/ PollTail(c) PROVE running'[d] => rx_int_enabled'[d]
    <3>1. tail[c] = "none"
          BY Zenon DEF Runs, NapiRuns
    <3>2. UNCHANGED <<running, rx_int_enabled>>
          BY <2>2, <3>1, PollFrame, Zenon
          DEF ldd_poll, PollTail, PollStart, PollTake, PollBudget, PollRelease, PollWake,
             PollComplete, PollLook, PollAgain, ldd_rx_dequeue, ldd_release_buffer, priv, modes
    <3> QED BY <1>1, <3>2, Zenon
  <2>3. ASSUME NEW c \in Dev, LinkUp(c) \/ LinkDown(c) PROVE running'[d] => rx_int_enabled'[d]
        BY <1>1, <2>3, Zenon DEF LinkUp, LinkDown, priv, modes
  <2>4. CASE ldd_open \/ StopReceive
        BY <1>1, <2>4, Zenon DEF ldd_open, StopReceive, Types, TypePriv
  <2>5. CASE NapiDisabled \/ StopDrain \/ StopRelease \/ StopWake
        BY <1>1, <2>5, Zenon DEF NapiDisabled, StopDrain, StopRelease, StopWake,
           ldd_rx_dequeue, ldd_release_buffer, priv, modes
  <2> QED BY <1>1, <2>1, <2>2, <2>3, <2>4, <2>5, LoadFrame, Zenon
          DEF Next, ldd_stop, Unloaded, vars, priv, modes
<1>3. ASSUME NEW d \in Dev
      PROVE  Len(rxq'[d]) <= One("RX" \in status'[d]) + Taking(d, d)' + Taking(ldd_peer(d), d)'
  <2> DEFINE e == ldd_peer(d)
  <2>0. e \in Dev /\ e # d /\ ldd_peer(e) = d /\ \A c \in Dev : c = d \/ c = e
        BY Twins, Zenon
  <2> DEFINE Goal == Len(rxq'[d]) <= One("RX" \in status'[d]) + Taking(d, d)' + Taking(e, d)'
             R == One("RX" \in status[d])
             R1 == One("RX" \in status'[d])
  <2>1. /\ rxq[d] \in Seq(Nat) /\ Len(rxq[d]) \in Nat /\ Len(rxq'[d]) \in Nat
        /\ R \in {0, 1} /\ R1 \in {0, 1}
        BY BaseKept DEF Types, TypePriv, One
  <2>2. \A y \in Dev : Taking(y, d) \in {0, 1} /\ Taking(y, d)' \in {0, 1}
        BY Zenon DEF Taking, One
  \* a step of the path c makes up for the frame it adds or the taker it removes
  <2>3. ASSUME NEW c \in Dev, Send(c) \/ Xmit(c),
               Len(rxq'[d]) + R + Taking(c, d) <= Len(rxq[d]) + R1 + Taking(c, d)'
        PROVE  Goal
    <3>1. \A y \in Dev : y # c => Taking(y, d)' = Taking(y, d)
          BY <2>3, OnePath, Zenon DEF Taking
    <3>2. Len(rxq[d]) <= R + Taking(d, d) + Taking(e, d)
          BY <1>1, Zenon
    <3> HIDE DEF R, R1
    <3>3. Len(rxq'[d]) <= R1 + Taking(d, d)' + Taking(e, d)'
      <4>1. /\ Taking(d, d) \in Int /\ Taking(e, d) \in Int
            /\ Taking(d, d)' \in Int /\ Taking(e, d)' \in Int
            /\ R \in Int /\ R1 \in Int /\ Len(rxq[d]) \in Int /\ Len(rxq'[d]) \in Int
            BY <2>0, <2>1, <2>2
      <4>2. CASE c = d
        <5>1. Taking(e, d)' = Taking(e, d)
              BY <2>0, <3>1, <4>2, Zenon
        <5>2. Len(rxq'[d]) + R + Taking(d, d) <= Len(rxq[d]) + R1 + Taking(d, d)'
              BY <2>3, <4>2, Zenon
        <5> HIDE DEF e
        <5> QED BY <3>2, <4>1, <5>1, <5>2, Balance, ZenonT(40)
      <4>3. CASE c = e
        <5>1. Taking(d, d)' = Taking(d, d)
              BY <2>0, <3>1, <4>3, Zenon
        <5>2. Len(rxq'[d]) + R + Taking(e, d) <= Len(rxq[d]) + R1 + Taking(e, d)'
              BY <2>3, <4>3, Zenon
        <5> HIDE DEF e
        <5> QED BY <3>2, <4>1, <5>1, <5>2, Balance, ZenonT(40)
      <4> QED BY <2>0, <4>2, <4>3, Zenon
    <3> QED BY <3>3, Zenon DEF R1
  <2>4. ASSUME NEW c \in Dev, Send(c) \/ Xmit(c), rxq'[d] = rxq[d], xpc[c] # "rx",
               "RX" \in status'[d] <=> "RX" \in status[d]
        PROVE  Goal
    <3>1. R = R1 /\ Taking(c, d) = 0
          BY <2>4, Zenon DEF Taking, One
    <3> HIDE DEF R, R1, Goal
    <3> QED BY <2>1, <2>2, <2>3, <2>4, <3>1
  <2>5. ASSUME NEW c \in Dev, Send(c) PROVE Goal
        BY <2>4, <2>5, Zenon DEF Send, ldd_start_xmit, ldd_start_xmit_drop, MaySend,
           ldd_get_tx_buffer, priv, irqs
  <2>6. ASSUME NEW c \in Dev, ldd_rx_enqueue(c) PROVE Goal
    <3>1. xpc[c] = "wire" /\ Xmit(c) /\ rxq'[c] = rxq[c] /\ status'[c] = status[c]
          BY <2>6, Enqueue, Zenon DEF Xmit
    <3>2. CASE c = d
          BY <2>4, <3>1, <3>2, Zenon
    <3>3. CASE c = e
      <4>1. CASE ~running[d]
            BY <2>0, <2>4, <2>6, <3>1, <3>3, <4>1, Enqueue, ZenonT(40)
      <4>2. CASE running[d]
        <5>1. /\ rxq'[d] = Append(rxq[d], pkt[c]) /\ "RX" \in status'[d]
              BY <1>1, <2>0, <2>6, <3>3, <4>2, Enqueue, ZenonT(40)
        <5>2. "RX" \notin status[d]
              BY <2>0, <3>1, <3>3, ZenonT(40) DEF Interrupts
        <5>3. Len(rxq'[d]) = Len(rxq[d]) + 1
              BY <2>1, <5>1, Appended DEF Types, TypeXmit
        <5>4. Taking(c, d) = 0 /\ R = 0 /\ R1 = 1
              BY <3>1, <5>1, <5>2, Zenon DEF Taking, One
        <5> HIDE DEF R, R1, Goal
        <5> QED BY <2>1, <2>2, <2>3, <3>1, <5>3, <5>4
      <4> QED BY <4>1, <4>2
    <3> QED BY <2>0, <3>2, <3>3, Zenon
  <2>7. ASSUME NEW c \in Dev, ldd_ack_interrupt(c) PROVE Goal
    <3>1. /\ xpc[c] = "ack" /\ irq[c] \in Dev /\ Xmit(c) /\ rxq' = rxq
          /\ status' = [status EXCEPT ![irq[c]] = {}]
          BY <2>7, Zenon DEF Xmit, ldd_ack_interrupt, Shape, XmitShape
    <3>2. CASE irq[c] # d
      <4>1. status'[d] = status[d]
            BY <3>1, <3>2, Zenon DEF Types, TypePriv
      <4> QED BY <2>4, <3>1, <4>1, Zenon
    <3>3. CASE irq[c] = d
      <4>1. /\ Taking(c, d) = 0 /\ R1 = 0
            BY <3>1, <3>3, Zenon DEF Taking, One, Types, TypePriv
      <4>2. xpc'[c] = (IF "RX" \in status[d] THEN "rx" ELSE "fin") /\ irq'[c] = d
            BY <2>7, <3>3, Zenon DEF ldd_ack_interrupt, Path, Types, TypeXmit
      <4>3. Taking(c, d)' = R
            BY <4>2, Zenon DEF Taking, One
      <4> HIDE DEF R, R1, Goal
      <4> QED BY <2>1, <2>2, <2>3, <3>1, <4>1, <4>3
    <3> QED BY <3>2, <3>3, Zenon
  <2>8. ASSUME NEW c \in Dev, ldd_regular_interrupt(c) PROVE Goal
    <3>1. /\ xpc[c] = "rx" /\ irq[c] \in Dev /\ Xmit(c) /\ ldd_rx_dequeue(irq[c])
          BY <2>8, Zenon DEF Xmit, ldd_regular_interrupt, Shape, XmitShape
    <3>2. status' = status
          BY <3>1, Dequeue, Zenon
    <3>3. R1 = R
          BY <3>2
    <3>4. CASE irq[c] # d
      <4>1. rxq'[d] = rxq[d]
            BY <2>0, <3>1, <3>4, Dequeue, Twins, ZenonT(40)
      <4>2. Taking(c, d) = 0
            BY <3>4, Zenon DEF Taking, One
      <4> HIDE DEF R, R1, Goal
      <4> QED BY <2>1, <2>2, <2>3, <3>1, <3>3, <4>1, <4>2, SMTT(30)
    <3>5. CASE irq[c] = d
      <4>1. CASE Empty(d)
        <5>1. rxq'[d] = <<>>
              BY <3>1, <3>5, <4>1, Dequeue, Zenon DEF Empty
        <5>2. Len(rxq'[d]) = 0
              BY <5>1
        <5>3. R1 \in Nat /\ Taking(d, d)' \in Nat /\ Taking(e, d)' \in Nat
              BY <2>0, <2>1, <2>2
        <5> QED BY <5>2, <5>3
      <4>2. CASE ~Empty(d)
        <5>1. rxq'[d] = Tail(rxq[d])
              BY <3>1, <3>5, <4>2, Dequeue, Zenon
        <5>2. Len(rxq'[d]) = Len(rxq[d]) - 1
              BY <2>1, <4>2, <5>1, Tailed, Zenon DEF Empty
        <5>3. Taking(c, d) = 1
              BY <3>1, <3>5, Zenon DEF Taking, One
        <5> HIDE DEF R, R1, Goal
        <5> QED BY <2>1, <2>2, <2>3, <3>1, <3>3, <5>2, <5>3
      <4> QED BY <4>1, <4>2, Zenon
    <3> QED BY <3>4, <3>5, Zenon
  <2>9. ASSUME NEW c \in Dev, TxInterrupt(c) PROVE Goal
    <3>1. /\ xpc[c] = "sent" /\ Xmit(c) /\ rxq' = rxq
          /\ "RX" \in status'[d] <=> "RX" \in status[d]
          BY <2>9, Zenon DEF Xmit, TxInterrupt, Types, TypePriv
    <3> QED BY <2>4, <3>1, Zenon
  <2>10. ASSUME NEW c \in Dev, XmitRelease(c) \/ XmitWake(c) \/ HandlerEnd(c) PROVE Goal
        BY <2>4, <2>10, Zenon DEF Xmit, XmitRelease, ldd_release_buffer, XmitWake, HandlerEnd,
           priv, irqs
  <2>11. ASSUME UNCHANGED <<status, xpc, irq>>, Len(rxq'[d]) <= Len(rxq[d]) PROVE Goal
    <3>1. /\ Taking(d, d)' = Taking(d, d) /\ Taking(e, d)' = Taking(e, d)
          /\ R1 = R /\ Len(rxq[d]) <= R + Taking(d, d) + Taking(e, d)
          BY <1>1, <2>11, Zenon DEF Taking
    <3>2. Len(rxq'[d]) <= R1 + Taking(d, d)' + Taking(e, d)'
      <4> HIDE DEF R, R1, Goal
      <4> QED BY <2>0, <2>1, <2>2, <2>11, <3>1
    <3> QED BY <3>2, Zenon
  <2>12. ASSUME NEW c \in Dev, ldd_rx_dequeue(c) PROVE Len(rxq'[d]) <= Len(rxq[d])
    <3>1. CASE c = d
      <4>1. CASE Empty(d)
            BY <2>1, <2>12, <3>1, <4>1, Dequeue, SMTT(30)
      <4>2. CASE ~Empty(d)
        <5>1. rxq'[d] = Tail(rxq[d]) /\ Len(Tail(rxq[d])) = Len(rxq[d]) - 1
              BY <2>1, <2>12, <3>1, <4>2, Dequeue, Tailed, Zenon DEF Empty
        <5> QED BY <2>1, <5>1
      <4> QED BY <4>1, <4>2, Zenon
    <3>2. CASE c = e
          BY <2>0, <2>1, <2>12, <3>2, Dequeue
    <3> QED BY <2>0, <2>12, <3>1, <3>2, Zenon
  <2>13. ASSUME ~(\E c \in Dev : Send(c) \/ Xmit(c)) PROVE Len(rxq'[d]) <= Len(rxq[d])
    <3>1. CASE UNCHANGED rxq
          BY <2>1, <3>1
    <3>2. CASE StopDrain
          BY <2>12, <3>2, LinkDev, Zenon DEF StopDrain, ldd_stop
    <3> QED BY <2>12, <2>13, <3>1, <3>2, QueueSteps, Zenon DEF Xmit
  <2>14. ASSUME NEW c \in Dev, Xmit(c) PROVE Goal
        BY <2>6, <2>7, <2>8, <2>9, <2>10, <2>14, ZenonT(40) DEF Xmit, ldd_napi_interrupt
  <2>15. ASSUME ~(\E c \in Dev : Send(c) \/ Xmit(c)) PROVE UNCHANGED <<status, xpc, irq>>
        BY <2>15, PollFrame, LinkFrame, LoadFrame DEF Next, Unloaded, vars, x, priv, irqs
  <2> QED BY <2>5, <2>11, <2>13, <2>14, <2>15, Zenon
<1> QED BY <1>2, <1>3, Zenon

\* With NAPI: while receive interrupts are off or a frame is queued, the poll is
\* scheduled, about to be, or about to look again.
Coming(d) ==
  \/ "RX" \in status[d]
  \/ \E y \in Dev : irq[y] = d /\ xpc[y] \in {"rx", "sched"}
  \/ napi[d].state = "sched" \/ tail[d] # "none"
NapiTaken ==
  use_napi => \A d \in Dev :
    running[d] /\ (~rx_int_enabled[d] \/ rxq[d] # <<>>) => Coming(d)

\* With NAPI a queue with frames, or with interrupts off, keeps somebody coming for it.
LEMMA NapiKept ==
  ASSUME Base, NapiTaken, Next
  PROVE  NapiTaken'
<1> USE DEF Base
<1>0. use_napi' = use_napi
      BY XmitFrame, PollFrame, LinkFrame, LoadFrame, Zenon DEF Next, Unloaded, vars, param
<1> SUFFICES ASSUME use_napi, NEW d \in Dev
             PROVE  running'[d] /\ (~rx_int_enabled'[d] \/ rxq'[d] # <<>>) => Coming(d)'
      BY <1>0, Zenon DEF NapiTaken
<1> DEFINE Due == running[d] /\ (~rx_int_enabled[d] \/ rxq[d] # <<>>)
           Goal == running'[d] /\ (~rx_int_enabled'[d] \/ rxq'[d] # <<>>) => Coming(d)'
<1>1. Due => Coming(d)
      BY Zenon DEF NapiTaken
\* scheduling the poll of a running device takes effect
<1>2. running[d] => Scheduled(napi[d]).state = "sched"
  <2>1. running[d] => napi[d].state # "off" /\ ~napi[d].disable
        BY Zenon DEF Runs, LinkRuns, NapiRuns, At
  <2>2. napi[d] \in NapiState
        BY Zenon DEF Types, TypeCore
  <2> QED BY <2>1, <2>2, NapiCalls, Zenon
<1>3. ASSUME Coming(d) => Coming(d)', Due' => Due PROVE Goal
      BY <1>1, <1>3, Zenon
<1>4. ASSUME NEW c \in Dev, Send(c) \/ Xmit(c), xpc[c] \notin {"rx", "sched"},
             "RX" \in status[d] => "RX" \in status'[d], UNCHANGED napi
      PROVE  Coming(d) => Coming(d)'
      BY <1>4, OnePath, XmitFrame, Zenon DEF Coming
<1>5. ASSUME NEW c \in Dev, Send(c) \/ XmitRelease(c) \/ XmitWake(c) \/ HandlerEnd(c) PROVE Goal
  <2>1. /\ Send(c) \/ Xmit(c)
        /\ xpc[c] \notin {"rx", "sched"}
        /\ UNCHANGED <<napi, status, rxq, running, rx_int_enabled>>
        BY <1>5, Zenon DEF Send, ldd_start_xmit, ldd_start_xmit_drop, MaySend,
           ldd_get_tx_buffer,
           Xmit, XmitRelease, ldd_release_buffer, XmitWake, HandlerEnd, priv, irqs, modes
  <2> QED BY <1>3, <1>4, <2>1, Zenon
<1>6. ASSUME NEW c \in Dev, TxInterrupt(c) PROVE Goal
  <2>1. /\ Xmit(c) /\ xpc[c] \notin {"rx", "sched"}
        /\ UNCHANGED <<napi, rxq, running, rx_int_enabled>>
        /\ "RX" \in status[d] => "RX" \in status'[d]
        BY <1>6, Zenon DEF Xmit, TxInterrupt, modes, Types, TypePriv
  <2> QED BY <1>3, <1>4, <2>1, Zenon
<1>7. ASSUME NEW c \in Dev, ldd_rx_enqueue(c) PROVE Goal
  <2>1. /\ Xmit(c) /\ xpc[c] = "wire" /\ UNCHANGED <<napi, running, rx_int_enabled>>
        BY <1>7, Enqueue, Zenon DEF Xmit, ldd_rx_enqueue
  <2>2. \/ rxq'[d] = rxq[d] /\ status'[d] = status[d]
        \/ rx_int_enabled[d] /\ "RX" \in status'[d]
        \/ ~rx_int_enabled[d] /\ status'[d] = status[d]
        BY <1>7, Enqueue, Twins, ZenonT(40)
  <2>3. CASE "RX" \in status'[d]
        BY <2>3, Zenon DEF Coming
  <2>4. CASE "RX" \notin status'[d]
    <3>1. status'[d] = status[d] /\ (Due' => Due)
          BY <2>1, <2>2, <2>4, Zenon
    <3> QED BY <1>3, <1>4, <2>1, <3>1, Zenon
  <2> QED BY <2>3, <2>4, Zenon
<1>8. ASSUME NEW c \in Dev, ldd_ack_interrupt(c) PROVE Goal
  <2>1. /\ Xmit(c) /\ xpc[c] = "ack" /\ irq[c] \in Dev
        /\ UNCHANGED <<napi, rxq, running, rx_int_enabled>>
        BY <1>8, Zenon DEF Xmit, ldd_ack_interrupt, modes, Shape, XmitShape
  <2>2. CASE irq[c] = d
    <3>1. xpc'[c] = (IF "RX" \in status[d] THEN "rx" ELSE "fin") /\ irq'[c] = d
          BY <1>8, <2>2, Zenon DEF ldd_ack_interrupt, Path, Types, TypeXmit
    <3>2. CASE "RX" \in status[d]
          BY <3>1, <3>2, Zenon DEF Coming
    <3>3. CASE "RX" \notin status[d]
          BY <1>3, <1>4, <2>1, <3>3, Zenon
    <3> QED BY <3>2, <3>3, Zenon
  <2>3. CASE irq[c] # d
    <3>1. status'[d] = status[d]
          BY <1>8, <2>1, <2>3, Zenon DEF ldd_ack_interrupt, Types, TypePriv
    <3> QED BY <1>3, <1>4, <2>1, <3>1, Zenon
  <2> QED BY <2>2, <2>3, Zenon
<1>9. ASSUME NEW c \in Dev, ldd_napi_interrupt(c) PROVE Goal
  <2>1. /\ Xmit(c) /\ irq[c] \in Dev /\ xpc[c] \in {"rx", "sched"}
        /\ UNCHANGED <<status, rxq, running, tail, irq>>
        BY <1>9, XmitFrame, Zenon DEF Xmit, ldd_napi_interrupt, Goto, irqs, Shape, XmitShape
  <2>2. \A y \in Dev : y # c => xpc'[y] = xpc[y]
        BY <2>1, OnePath, Zenon
  <2>3. CASE irq[c] = d /\ xpc[c] = "rx"
    <3>1. xpc'[c] = "sched"
          BY <1>9, <2>3, Zenon DEF ldd_napi_interrupt, Goto, Types, TypeXmit
    <3> QED BY <2>1, <2>3, <3>1, Zenon DEF Coming
  <2>4. CASE irq[c] = d /\ xpc[c] = "sched"
    <3>1. napi'[d] = Scheduled(napi[d])
          BY <1>9, <2>4, Zenon DEF ldd_napi_interrupt, Types, TypeCore
    <3> QED BY <1>2, <2>1, <3>1, Zenon DEF Coming
  <2>5. CASE irq[c] # d
    <3>1. napi'[d] = napi[d] /\ rx_int_enabled'[d] = rx_int_enabled[d]
          BY <1>9, <2>1, <2>5, Zenon DEF ldd_napi_interrupt, Types, TypeCore, TypePriv
    <3>2. Coming(d) => Coming(d)'
          BY <2>1, <2>2, <2>5, <3>1, Zenon DEF Coming
    <3> QED BY <1>3, <2>1, <3>1, <3>2, Zenon
  <2> QED BY <2>1, <2>3, <2>4, <2>5, Zenon
<1>10. ASSUME NEW c \in Dev, ldd_poll(c) PROVE Goal
  <2>0. UNCHANGED <<status, running, rx_int_enabled, xpc, irq>>
        BY <1>10, PollFrame, Zenon
        DEF ldd_poll, PollStart, PollTake, PollBudget, PollRelease, PollWake,
           PollComplete, ldd_rx_dequeue, ldd_release_buffer, priv, modes
  <2>1. rxq'[d] # <<>> => rxq[d] # <<>>
        BY <1>10, Dequeue, Twins, ZenonT(40)
        DEF ldd_poll, PollStart, PollTake, PollBudget, PollRelease, PollWake,
           PollComplete, ldd_release_buffer, priv, Empty
  <2>2. CASE napi'[d] = napi[d] /\ tail'[d] = tail[d]
        BY <1>3, <2>0, <2>1, <2>2, Zenon DEF Coming
  <2>3. CASE PollBudget(c)
    <3>1. tail' = tail /\ (c # d => napi'[d] = napi[d])
          BY <2>3, ZenonT(40) DEF PollBudget, Types, TypeCore
    <3>2. running[d] => ~napi[d].disable
          BY Zenon DEF Runs, LinkRuns, NapiRuns, At
    <3>3. c = d /\ running[d] => napi'[d] = napi[d]
          BY <2>3, <3>2, Zenon DEF PollBudget, Types, TypeCore
    <3> QED BY <2>0, <2>2, <3>1, <3>3, Zenon
  <2>4. CASE PollComplete(c)
    <3>1. CASE c # d
          BY <2>2, <2>4, <3>1, Zenon DEF PollComplete, Types, TypeCore, TypePoll
    <3>2. CASE c = d
      <4>1. /\ napi'[d] = Completed(napi[d]) /\ tail'[d] = (IF napi[d].missed THEN "none" ELSE "look")
            /\ napi[d] \in NapiState /\ ppc[d] = "complete"
            BY <2>4, <3>2, Zenon DEF PollComplete, Types, TypeCore, TypePoll
      <4>2. napi[d].state = "sched"
            BY <4>1, Zenon DEF Runs, NapiRuns
      <4>3. CASE napi[d].missed
        <5>1. Completed(napi[d]).state = napi[d].state
              BY <4>1, <4>3, Zenon DEF Completed, NapiState
        <5> QED BY <4>1, <4>2, <5>1, Zenon DEF Coming
      <4>4. CASE ~napi[d].missed
            BY <4>1, <4>4, Zenon DEF Coming
      <4> QED BY <4>3, <4>4, Zenon
    <3> QED BY <3>1, <3>2, Zenon
  <2> QED BY <1>10, <2>2, <2>3, <2>4, Zenon
          DEF ldd_poll, PollStart, PollTake, PollRelease, PollWake
<1>11. ASSUME NEW c \in Dev, PollTail(c) PROVE Goal
  <2>0. UNCHANGED <<status, rxq, running, xpc, irq>>
        BY <1>11, PollFrame, Zenon DEF PollTail, PollLook, PollAgain, priv
  <2>1. CASE c # d
    <3>1. napi'[d] = napi[d] /\ tail'[d] = tail[d] /\ rx_int_enabled'[d] = rx_int_enabled[d]
          BY <1>11, <2>1 DEF PollTail, PollLook, PollAgain, priv, modes, Types, TypeCore,
             TypePoll, TypePriv
    <3> QED BY <1>3, <2>0, <3>1, ZenonT(40) DEF Coming
  <2>2. CASE c = d /\ PollLook(c)
    <3>1. /\ rx_int_enabled'[d] = Empty(d) /\ tail'[d] = (IF Empty(d) THEN "none" ELSE "again")
          BY <2>2, Zenon DEF PollLook, Types, TypePoll, TypePriv
    <3> QED BY <2>0, <3>1, Zenon DEF Coming, Empty
  <2>3. CASE c = d /\ PollAgain(c)
    <3>1. napi'[d] = Scheduled(napi[d])
          BY <2>3, Zenon DEF PollAgain, Types, TypeCore
    <3> QED BY <1>2, <2>0, <3>1, Zenon DEF Coming
  <2> QED BY <1>11, <2>1, <2>2, <2>3, Zenon DEF PollTail
\* the rtnl holder changes a device that does not run, or sets it up with an empty queue
<1>12. ASSUME UNCHANGED <<status, xpc, irq, tail>>, rxq'[d] # <<>> => rxq[d] # <<>>,
              running'[d] = running[d], rx_int_enabled'[d] = rx_int_enabled[d],
              running[d] => napi'[d] = napi[d]
       PROVE  Goal
      BY <1>1, <1>12, Zenon DEF Coming
<1>13. CASE (\E c \in Dev : LinkUp(c) \/ LinkDown(c)) \/ ldd_open \/ ldd_stop
  <2>0. UNCHANGED <<status, xpc, irq, tail>>
        BY <1>13, LinkFrame, Zenon
  <2>1. ASSUME NEW c \in Dev, LinkUp(c) PROVE Goal
    <3>1. UNCHANGED <<rxq, running, rx_int_enabled>> /\ ~running[c]
          BY <2>1, Zenon DEF LinkUp, priv, modes, Runs, LinkRuns, At
    <3>2. c # d => napi'[d] = napi[d]
          BY <2>1, Zenon DEF LinkUp, Types, TypeCore
    <3> QED BY <1>12, <2>0, <3>1, <3>2, Zenon
  <2>2. ASSUME NEW c \in Dev, LinkDown(c) PROVE Goal
        BY <1>12, <2>0, <2>2, Zenon DEF LinkDown, priv, modes
  <2>3. CASE ldd_open
    <3>1. link.dev \in Dev /\ link.pc = "open" /\ UNCHANGED <<rxq, napi>>
          BY <2>3, LinkDev, Zenon DEF ldd_open
    <3>2. CASE link.dev = d
      <4>1. rx_int_enabled'[d]
            BY <2>3, <3>2, Zenon DEF ldd_open, Types, TypePriv
      <4>2. ~running[d]
            BY <3>1, <3>2, Zenon DEF Runs, LinkRuns, At
      <4>3. rxq[d] = <<>>
            BY <3>1, <3>2, <4>2, Zenon DEF Runs, QueueRuns, At
      <4> QED BY <3>1, <4>1, <4>3, Zenon
    <3>3. CASE link.dev # d
      <4>1. running'[d] = running[d] /\ rx_int_enabled'[d] = rx_int_enabled[d]
            BY <2>3, <3>1, <3>3, Zenon DEF ldd_open, Types, TypePriv
      <4> QED BY <1>12, <2>0, <3>1, <4>1, Zenon
    <3> QED BY <3>2, <3>3, Zenon
  <2>4. CASE StopReceive
    <3>1. link.dev \in Dev /\ UNCHANGED rxq
          BY <2>4, LinkDev, Zenon DEF ldd_stop, StopReceive
    <3>2. CASE link.dev = d
          BY <2>4, <3>2, Zenon DEF StopReceive, Types, TypePriv
    <3>3. CASE link.dev # d
      <4>1. /\ running'[d] = running[d] /\ rx_int_enabled'[d] = rx_int_enabled[d]
            /\ napi'[d] = napi[d]
            BY <2>4, <3>1, <3>3, Zenon DEF StopReceive, Types, TypePriv, TypeCore
      <4> QED BY <1>12, <2>0, <3>1, <4>1, Zenon
    <3> QED BY <3>2, <3>3, Zenon
  <2>5. CASE NapiDisabled
    <3>1. link.dev \in Dev /\ UNCHANGED <<rxq, running, rx_int_enabled>> /\ link.pc = "disable"
          BY <2>5, LinkDev, Zenon DEF ldd_stop, NapiDisabled, priv, modes
    <3>2. link.dev = d => ~running[d]
          BY <3>1, Zenon DEF Runs, LinkRuns, At
    <3>3. link.dev # d => napi'[d] = napi[d]
          BY <2>5, <3>1 DEF NapiDisabled, Types, TypeCore
    <3> QED BY <1>12, <2>0, <3>1, <3>2, <3>3, Zenon
  <2>6. CASE StopDrain
    <3>1. link.dev \in Dev /\ ldd_rx_dequeue(link.dev) /\ UNCHANGED napi
          BY <2>6, LinkDev DEF ldd_stop, StopDrain
    <3>2. UNCHANGED <<running, rx_int_enabled>> /\ (rxq'[d] # <<>> => rxq[d] # <<>>)
          BY <3>1, Dequeue, Twins, ZenonT(40) DEF Empty
    <3> QED BY <1>12, <2>0, <3>1, <3>2, Zenon
  <2>7. CASE StopRelease \/ StopWake
        BY <1>12, <2>0, <2>7, Zenon DEF StopRelease, StopWake, ldd_release_buffer, priv, modes
  <2> QED BY <1>13, <2>1, <2>2, <2>3, <2>4, <2>5, <2>6, <2>7, Zenon DEF ldd_stop
<1>14. ASSUME NEW c \in Dev, Xmit(c) PROVE Goal
      BY <1>5, <1>6, <1>7, <1>8, <1>9, <1>14, Zenon DEF Xmit, ldd_regular_interrupt
<1>15. CASE ldd_create \/ Register \/ m_exit \/ ldd_destroy
      BY <1>12, <1>15, LoadFrame, Zenon
<1>16. CASE Unloaded
      BY <1>12, <1>16, Zenon DEF Unloaded, vars, x, priv, irqs, modes
<1> QED BY <1>5, <1>10, <1>11, <1>13, <1>14, <1>15, <1>16, Zenon DEF Next

\* How many of the two devices are in a set, counted from either of them.
LEMMA CountDev ==
  ASSUME NEW S \in SUBSET Dev, NEW d \in Dev
  PROVE  Count(S) = One(d \in S) + One(ldd_peer(d) \in S)
<1>1. (d = 0 /\ ldd_peer(d) = 1) \/ (d = 1 /\ ldd_peer(d) = 0)
      BY Twins, Zenon DEF Dev
<1> QED BY <1>1 DEF Count, One

\* What the two invariants say of the takers is what the property asks for.
LEMMA TakersCome ==
  ASSUME Base, PlainTaken, NapiTaken
  PROVE  FrameHasTaker
<1> SUFFICES ASSUME NEW d \in Dev
             PROVE  LET Handlers(pcs) == {y \in Dev : irq[y] = d /\ xpc[y] \in pcs} IN
                    /\ "RX" \in status[d] => Handlers({"ack"}) # {}
                    /\ running[d] /\ rxq[d] # <<>> =>
                         IF use_napi
                         THEN \/ "RX" \in status[d]
                              \/ Handlers({"rx", "sched"}) # {}
                              \/ napi[d].state = "sched" \/ tail[d] # "none"
                         ELSE Len(rxq[d]) <= One("RX" \in status[d])
                                                  + Count(Handlers({"rx"}))
      BY Zenon DEF FrameHasTaker
<1> DEFINE Handlers(pcs) == {y \in Dev : irq[y] = d /\ xpc[y] \in pcs}
<1>1. "RX" \in status[d] => Handlers({"ack"}) # {}
      BY Twins DEF Base, Interrupts
<1>2. use_napi /\ running[d] /\ rxq[d] # <<>> =>
        \/ "RX" \in status[d]
        \/ Handlers({"rx", "sched"}) # {}
        \/ napi[d].state = "sched" \/ tail[d] # "none"
      BY Zenon DEF NapiTaken, Coming
<1>3. ~use_napi => Len(rxq[d]) <= One("RX" \in status[d]) + Count(Handlers({"rx"}))
  <2> DEFINE H == Handlers({"rx"})
  <2>1. H \in SUBSET Dev
        BY Zenon
  <2>2. One(d \in H) = Taking(d, d) /\ One(ldd_peer(d) \in H) = Taking(ldd_peer(d), d)
        BY Twins DEF Taking
  <2> HIDE DEF H
  <2>3. Count(H) = Taking(d, d) + Taking(ldd_peer(d), d)
        BY <2>1, <2>2, CountDev, Zenon
  <2>4. /\ Taking(d, d) \in Int /\ Taking(ldd_peer(d), d) \in Int
        /\ One("RX" \in status[d]) \in Int /\ Len(rxq[d]) \in Int
        BY DEF Taking, One, Base, Types, TypePriv
  <2>5. ~use_napi => Len(rxq[d]) <= One("RX" \in status[d]) + Taking(d, d) + Taking(ldd_peer(d), d)
        BY Zenon DEF PlainTaken
  <2>6. ~use_napi => Len(rxq[d]) <= One("RX" \in status[d]) + Count(H)
        BY <2>3, <2>4, <2>5
  <2> QED BY <2>6, Zenon DEF H
<1> QED BY <1>1, <1>2, <1>3, Zenon
===============================================================================
