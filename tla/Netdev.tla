-------------------------------- MODULE Netdev --------------------------------
(***************************************************************************)
(* 30_netdev: the two interfaces sn0 and sn1 wired to each other.  A frame *)
(* sent by one is queued at its twin by the sender itself, which then runs *)
(* the twin's interrupt handler and its own.  The threads are              *)
(*   - x: the transmit path of a device, one at a time per device (the     *)
(*     transmit lock of the core), the handlers it calls included;         *)
(*   - p: NAPI's softirq polling a device;                                 *)
(*   - link: the holder of the rtnl lock, bringing a device up or down;    *)
(*   - load: insmod and rmmod.                                             *)
(* A section under priv->lock is one step.  A packet is the number of its  *)
(* frame: in the queue of device d, and in the hands of a thread that      *)
(* serves d, packets belong to the twin of d.  Pools hold interchangeable  *)
(* buffers and are counted.                                                *)
(***************************************************************************)
EXTENDS Integers, Sequences

CONSTANTS
  PoolSizes,     \* values of the module parameter pool_size to consider
  Weight,        \* the budget of one poll: 2 in the code
  UseNapi,       \* values of the module parameter use_napi to consider
  RegisterFails, \* the devices whose register_netdev() may fail
  MaxFrames,     \* bound: frames the stack sends on a device
  MaxLinks       \* bound: times the interfaces are brought up

Dev == {0, 1}

ASSUME NetdevAssumption ==
  /\ PoolSizes \subseteq Nat \ {0}
  /\ Weight \in Nat \ {0}
  /\ UseNapi \subseteq BOOLEAN
  /\ RegisterFails \subseteq Dev
  /\ MaxFrames \in [Dev -> Nat] /\ MaxLinks \in Nat

VARIABLES
  use_napi, pool_size, \* the module parameters
  life,     \* "absent", "made" (in net_devs), "registered", "gone", "freed"
  pool, rxq, status, tx_skb, running, rx_int_enabled, \* struct ldd_dev
  stopped,  \* the transmit queue is stopped (netif_stop_queue)
  up,       \* the core lets the stack transmit (IFF_UP, qdisc active)
  napi,     \* the core's NAPI context
  xpc,      \* where the transmit path of a device is
  irq,      \* the device whose interrupt handler it runs
  skb, pkt, \* the finished skb and the packet it has taken
  ppc, ppkt, done, \* the poll of a device: where it is, its packet, its work done
  tail,     \* a poll after napi_complete_done()
  link,     \* the rtnl holder
  load,     \* insmod and rmmod
  sent,     \* frames given to ldd_start_xmit of a device, numbered from 1
  freed,    \* how many of the skbs of a device were freed
  passed    \* the frames a device passed to the stack, in order

param == <<use_napi, pool_size>>
irqs == <<status, tx_skb>>
modes == <<running, rx_int_enabled>>
priv == <<pool, rxq, irqs, modes>>
x == <<xpc, irq, skb, pkt>>
p == <<ppc, ppkt, done>>
vars == <<param, life, priv, stopped, up, napi, x, p, tail, link, load,
          sent, freed, passed>>
core == <<param, life, up, load>>

None == 2
ldd_peer(d) == 1 - d

\* struct ldd_dev as kzalloc'ed, its pool filled by ldd_create.
PrivInit ==
  /\ pool = [d \in Dev |-> pool_size]
  /\ rxq = [d \in Dev |-> <<>>]
  /\ status = [d \in Dev |-> {}]
  /\ tx_skb = [d \in Dev |-> 0]
  /\ running = [d \in Dev |-> FALSE]
  /\ rx_int_enabled = [d \in Dev |-> FALSE]

Init ==
  /\ use_napi \in UseNapi /\ pool_size \in PoolSizes
  /\ life = [d \in Dev |-> "absent"]
  /\ PrivInit
  /\ stopped = [d \in Dev |-> TRUE]
  /\ up = [d \in Dev |-> FALSE]
  /\ napi = [d \in Dev |-> [state |-> "off", missed |-> FALSE, disable |-> FALSE]]
  /\ xpc = [d \in Dev |-> "idle"] /\ irq = [d \in Dev |-> None]
  /\ skb = [d \in Dev |-> 0] /\ pkt = [d \in Dev |-> 0]
  /\ ppc = [d \in Dev |-> "idle"] /\ ppkt = [d \in Dev |-> 0] /\ done = [d \in Dev |-> 0]
  /\ tail = [d \in Dev |-> "none"]
  /\ link = [pc |-> "idle", dev |-> None, pkt |-> 0, ups |-> 0]
  /\ load = [pc |-> "create", i |-> 0, n |-> 0]
  /\ sent = [d \in Dev |-> 0]
  /\ freed = [d \in Dev |-> 0]
  /\ passed = [d \in Dev |-> <<>>]

-------------------------------------------------------------------------------
(* Helpers on one ldd_dev, each the body of a section under priv->lock.    *)

\* Mutant: last in, first out.
QueuedFirst(q, k) == <<k>> \o q

\* rx_tail: oldest first.
Queued(q, k) == Append(q, k)

Empty(d) == rxq[d] = <<>>
First(d) == IF Empty(d) THEN 0 ELSE Head(rxq[d])
ldd_rx_dequeue(d) ==
  /\ rxq' = [rxq EXCEPT ![d] = IF Empty(d) THEN @ ELSE Tail(@)]
  /\ UNCHANGED <<pool, irqs, modes>>

\* ldd_get_tx_buffer: the queue stops as the last buffer is taken.
ldd_get_tx_buffer(d) ==
  /\ pool[d] > 0
  /\ pool' = [pool EXCEPT ![d] = @ - 1]
  /\ stopped' = [stopped EXCEPT ![d] = @ \/ pool[d] = 1]
  /\ UNCHANGED <<rxq, irqs, modes>>

\* Mutant: whether the pool was empty is asked after the buffer went back.
WasEmptyLate(d) == pool[d] + 1 = 0

\* ldd_release_buffer up to the unlock, for a buffer of device d: the caller
\* wakes the queue next if the pool was empty.
ldd_release_buffer(d) == pool' = [pool EXCEPT ![d] = @ + 1] /\ UNCHANGED <<rxq, irqs, modes>>
WasEmpty(d) == pool[d] = 0

\* ldd_rx: the frame goes up, or is dropped when there is no memory.
ldd_rx(d, k) ==
  passed' \in {passed, [passed EXCEPT ![d] = Append(@, k)]}

\* External: napi_schedule().
Scheduled(n) ==
  CASE n.disable -> n
    [] n.state = "idle" -> [n EXCEPT !.state = "sched"]
    [] OTHER -> [n EXCEPT !.missed = TRUE]
\* External: napi_complete_done(), which returns FALSE when a schedule was missed.
Completed(n) ==
  IF n.missed THEN [n EXCEPT !.missed = FALSE] ELSE [n EXCEPT !.state = "idle"]

-------------------------------------------------------------------------------
(* ldd_start_xmit(skb, d) and the interrupt handlers it calls.             *)

\* The transmit path of d goes to pc, in the handler of i, with skb s and packet k.
Path(d, pc, i, s, k) ==
  /\ xpc' = [xpc EXCEPT ![d] = pc] /\ irq' = [irq EXCEPT ![d] = i]
  /\ skb' = [skb EXCEPT ![d] = s] /\ pkt' = [pkt EXCEPT ![d] = k]
Goto(d, pc) == xpc' = [xpc EXCEPT ![d] = pc] /\ UNCHANGED <<irq, skb, pkt>>

\* The stack sends: only while the device is up and its queue is not stopped.
MaySend(d) ==
  /\ xpc[d] = "idle" /\ up[d] /\ ~stopped[d] /\ sent[d] < MaxFrames[d]
  /\ sent' = [sent EXCEPT ![d] = @ + 1]

\* Not IPv4, a length out of range, or no twin: the skb is freed at once.
ldd_start_xmit_drop(d) ==
  /\ MaySend(d)
  /\ freed' = [freed EXCEPT ![d] = @ + 1]
  /\ UNCHANGED <<core, priv, stopped, napi, x, p, tail, link, passed>>

\* A buffer is taken and the frame copied into it.  With no buffer left the
\* call returns NETDEV_TX_BUSY and changes nothing.
ldd_start_xmit(d) ==
  /\ MaySend(d)
  /\ life[ldd_peer(d)] \notin {"absent", "freed"}
  /\ ldd_get_tx_buffer(d)
  /\ Path(d, "wire", None, 0, sent[d] + 1)
  /\ UNCHANGED <<core, napi, p, tail, link, freed, passed>>

\* ldd_rx_enqueue(peer, pkt), until its unlock.
ldd_rx_enqueue(d) ==
  LET e == ldd_peer(d)
      interrupt == rx_int_enabled[e]
  IN
  /\ xpc[d] = "wire"
  /\ \/ /\ ~running[e]
        /\ Goto(d, "put")
        /\ UNCHANGED <<rxq, status>>
     \/ /\ running[e]
        /\ rxq' = [rxq EXCEPT ![e] = Queued(@, pkt[d])]
        /\ status' = [status EXCEPT ![e] = IF interrupt THEN @ \cup {"RX"} ELSE @]
        /\ IF interrupt THEN Path(d, "ack", e, 0, 0) ELSE Path(d, "sent", None, 0, 0)
  /\ UNCHANGED <<core, pool, tx_skb, modes, stopped, napi, p, tail, link, sent, freed, passed>>

\* The end of ldd_start_xmit: the transmission is done, call our own handler.
TxInterrupt(d) ==
  /\ xpc[d] = "sent"
  /\ tx_skb' = [tx_skb EXCEPT ![d] = sent[d]]
  /\ status' = [status EXCEPT ![d] = @ \cup {"TX"}]
  /\ Path(d, "ack", d, 0, 0)
  /\ UNCHANGED <<core, pool, rxq, modes, stopped, napi, p, tail, link, sent, freed, passed>>

\* Mutant: the finished skb stays behind for the next handler.
AckKeepsSkb(d) ==
  LET e == irq[d] IN
  /\ xpc[d] = "ack"
  /\ status' = [status EXCEPT ![e] = {}]
  /\ Path(d, IF "RX" \in status[e] THEN "rx" ELSE "fin", e, tx_skb[e], 0)
  /\ UNCHANGED <<core, pool, rxq, tx_skb, modes, stopped, napi, p, tail, link, sent, freed, passed>>

\* The handler of device irq starts: take the status and the finished skb.
ldd_ack_interrupt(d) ==
  LET e == irq[d] IN
  /\ xpc[d] = "ack"
  /\ status' = [status EXCEPT ![e] = {}]
  /\ tx_skb' = [tx_skb EXCEPT ![e] = IF "TX" \in status[e] THEN 0 ELSE @]
  /\ Path(d, IF "RX" \in status[e] THEN "rx" ELSE "fin", e,
          IF "TX" \in status[e] THEN tx_skb[e] ELSE 0, 0)
  /\ UNCHANGED <<core, pool, rxq, modes, stopped, napi, p, tail, link, sent, freed, passed>>

\* Without NAPI one packet is taken per receive interrupt.
ldd_regular_interrupt(d) ==
  LET e == irq[d] IN
  /\ xpc[d] = "rx" /\ ~use_napi
  /\ ldd_rx_dequeue(e)
  /\ Path(d, IF Empty(e) THEN "fin" ELSE "put", e, skb[d], First(e))
  /\ UNCHANGED <<core, stopped, napi, p, tail, link, sent, freed, passed>>

\* With NAPI receive interrupts are turned off, then the poll is scheduled.
ldd_napi_interrupt(d) ==
  LET e == irq[d] IN
  /\ use_napi
  /\ \/ /\ xpc[d] = "rx"
        /\ rx_int_enabled' = [rx_int_enabled EXCEPT ![e] = FALSE]
        /\ Goto(d, "sched")
        /\ UNCHANGED napi
     \/ /\ xpc[d] = "sched"
        /\ napi' = [napi EXCEPT ![e] = Scheduled(@)]
        /\ Goto(d, "fin")
        /\ UNCHANGED rx_int_enabled
  /\ UNCHANGED <<core, pool, rxq, irqs, running, stopped, p, tail, link, sent, freed, passed>>

\* The device whose buffer the transmit path holds, and where it goes on once
\* that is released: a frame nobody listens for is lost, a received one is
\* passed up first.
Owner(d) == IF irq[d] = None THEN d ELSE ldd_peer(irq[d])
Released(d) == IF irq[d] = None THEN "sent" ELSE "fin"

XmitRelease(d) ==
  /\ xpc[d] = "put"
  /\ IF irq[d] = None THEN UNCHANGED passed ELSE ldd_rx(irq[d], pkt[d])
  /\ ldd_release_buffer(Owner(d))
  /\ Path(d, IF WasEmpty(Owner(d)) THEN "wake" ELSE Released(d), irq[d], skb[d], 0)
  /\ UNCHANGED <<core, stopped, napi, p, tail, link, sent, freed>>

XmitWake(d) ==
  /\ xpc[d] = "wake"
  /\ stopped' = [stopped EXCEPT ![Owner(d)] = FALSE]
  /\ Goto(d, Released(d))
  /\ UNCHANGED <<core, priv, napi, p, tail, link, sent, freed, passed>>

\* The handler ends (ldd_tx_done frees the skb it took) and returns to
\* ldd_rx_enqueue or to the end of ldd_start_xmit.
HandlerEnd(d) ==
  LET e == irq[d] IN
  /\ xpc[d] = "fin"
  /\ freed' = [freed EXCEPT ![e] = IF skb[d] # 0 THEN @ + 1 ELSE @]
  /\ Path(d, IF e = d THEN "idle" ELSE "sent", None, 0, 0)
  /\ UNCHANGED <<core, priv, stopped, napi, p, tail, link, sent, passed>>

-------------------------------------------------------------------------------
(* ldd_poll(d), called by the softirq while the context is scheduled.      *)

PollAt(d, pc, k, n) ==
  /\ ppc' = [ppc EXCEPT ![d] = pc] /\ ppkt' = [ppkt EXCEPT ![d] = k]
  /\ done' = [done EXCEPT ![d] = n]

PollStart(d) ==
  /\ ppc[d] = "idle" /\ napi[d].state = "sched"
  /\ PollAt(d, "take", 0, 0)
  /\ UNCHANGED <<core, priv, stopped, napi, x, tail, link, sent, freed, passed>>

\* One round of the loop.  With the budget used up the poll stays scheduled,
\* unless the core finds that the context is being disabled.
PollTake(d) ==
  /\ ppc[d] = "take" /\ done[d] < Weight
  /\ ldd_rx_dequeue(d)
  /\ PollAt(d, IF Empty(d) THEN "complete" ELSE "put", First(d), done[d])
  /\ UNCHANGED <<core, stopped, napi, x, tail, link, sent, freed, passed>>

PollBudget(d) ==
  /\ ppc[d] = "take" /\ done[d] = Weight
  /\ napi' = [napi EXCEPT ![d] = IF @.disable THEN Completed(@) ELSE @]
  /\ PollAt(d, "idle", 0, 0)
  /\ UNCHANGED <<core, priv, stopped, x, tail, link, sent, freed, passed>>

PollRelease(d) ==
  /\ ppc[d] = "put"
  /\ ldd_rx(d, ppkt[d])
  /\ ldd_release_buffer(ldd_peer(d))
  /\ PollAt(d, IF WasEmpty(ldd_peer(d)) THEN "wake" ELSE "take", 0, done[d] + 1)
  /\ UNCHANGED <<core, stopped, napi, x, tail, link, sent, freed>>

PollWake(d) ==
  /\ ppc[d] = "wake"
  /\ stopped' = [stopped EXCEPT ![ldd_peer(d)] = FALSE]
  /\ PollAt(d, "take", 0, done[d])
  /\ UNCHANGED <<core, priv, napi, x, tail, link, sent, freed, passed>>

\* napi_complete_done().  Once it completed, the context can be scheduled and
\* polled elsewhere while this call goes on: its end is a thread of its own
\* (bound: one such end per device).
PollComplete(d) ==
  /\ ppc[d] = "complete" /\ tail[d] = "none"
  /\ napi' = [napi EXCEPT ![d] = Completed(@)]
  /\ PollAt(d, "idle", 0, 0)
  /\ tail' = [tail EXCEPT ![d] = IF napi[d].missed THEN "none" ELSE "look"]
  /\ UNCHANGED <<core, priv, stopped, x, link, sent, freed, passed>>

\* Mutant: no second look.
PollLookNone(d) ==
  /\ tail[d] = "look"
  /\ rx_int_enabled' = [rx_int_enabled EXCEPT ![d] = TRUE]
  /\ tail' = [tail EXCEPT ![d] = "none"]
  /\ UNCHANGED <<core, pool, rxq, irqs, running, stopped, napi, x, p, link, sent, freed, passed>>

\* Receive interrupts on again, unless a frame came in meanwhile.
PollLook(d) ==
  /\ tail[d] = "look"
  /\ rx_int_enabled' = [rx_int_enabled EXCEPT ![d] = Empty(d)]
  /\ tail' = [tail EXCEPT ![d] = IF Empty(d) THEN "none" ELSE "again"]
  /\ UNCHANGED <<core, pool, rxq, irqs, running, stopped, napi, x, p, link, sent, freed, passed>>

PollAgain(d) ==
  /\ tail[d] = "again"
  /\ napi' = [napi EXCEPT ![d] = Scheduled(@)]
  /\ tail' = [tail EXCEPT ![d] = "none"]
  /\ UNCHANGED <<core, priv, stopped, x, p, link, sent, freed, passed>>

ldd_poll(d) ==
  \/ PollStart(d) \/ PollTake(d) \/ PollBudget(d) \/ PollRelease(d)
  \/ PollWake(d) \/ PollComplete(d)
PollTail(d) == PollLook(d) \/ PollAgain(d)

-------------------------------------------------------------------------------
(* ldd_open and ldd_stop, under rtnl: link.                                *)

\* External: dev_open() on a registered device.
LinkUp(d) ==
  /\ link.pc = "idle" /\ life[d] = "registered" /\ ~up[d] /\ link.ups < MaxLinks
  /\ link' = [link EXCEPT !.pc = "open", !.dev = d, !.ups = @ + 1]
  /\ napi' = [napi EXCEPT ![d].state = IF use_napi THEN "idle" ELSE @]
  /\ UNCHANGED <<core, priv, stopped, x, p, tail, sent, freed, passed>>

\* The rest of ldd_open after napi_enable(); then the core activates the qdisc.
ldd_open ==
  LET d == link.dev IN
  /\ link.pc = "open"
  /\ running' = [running EXCEPT ![d] = TRUE]
  /\ rx_int_enabled' = [rx_int_enabled EXCEPT ![d] = TRUE]
  /\ stopped' = [stopped EXCEPT ![d] = FALSE]
  /\ up' = [up EXCEPT ![d] = TRUE]
  /\ link' = [link EXCEPT !.pc = "idle", !.dev = None]
  /\ UNCHANGED <<param, life, load, pool, rxq, irqs, napi, x, p, tail, sent, freed, passed>>

\* External: dev_close(): no more transmits, and those under way are waited for.
LinkDown(d) ==
  /\ link.pc = "idle" /\ up[d]
  /\ up' = [up EXCEPT ![d] = FALSE]
  /\ link' = [link EXCEPT !.pc = "stop", !.dev = d]
  /\ UNCHANGED <<param, life, load, priv, stopped, napi, x, p, tail, sent,
                 freed, passed>>

\* ldd_stop: stop the queue, stop receiving, and begin napi_disable().
StopReceive ==
  LET d == link.dev IN
  /\ link.pc = "stop" /\ xpc[d] = "idle"
  /\ stopped' = [stopped EXCEPT ![d] = TRUE]
  /\ running' = [running EXCEPT ![d] = FALSE]
  /\ rx_int_enabled' = [rx_int_enabled EXCEPT ![d] = FALSE]
  /\ napi' = [napi EXCEPT ![d].disable = use_napi]
  /\ link' = [link EXCEPT !.pc = IF use_napi THEN "disable" ELSE "drain"]
  /\ UNCHANGED <<core, pool, rxq, irqs, x, p, tail, sent, freed, passed>>

\* External: napi_disable() returns once the context is not scheduled.
NapiDisabled ==
  LET d == link.dev IN
  /\ link.pc = "disable" /\ napi[d].state = "idle"
  /\ napi' = [napi EXCEPT ![d] = [@ EXCEPT !.state = "off", !.disable = FALSE]]
  /\ link' = [link EXCEPT !.pc = "drain"]
  /\ UNCHANGED <<core, priv, stopped, x, p, tail, sent, freed, passed>>

\* The loop that gives back what was not passed up.
StopDrain ==
  LET d == link.dev IN
  /\ link.pc = "drain"
  /\ ldd_rx_dequeue(d)
  /\ link' = IF Empty(d)
             THEN [link EXCEPT !.pc = "idle", !.dev = None]
             ELSE [link EXCEPT !.pc = "put", !.pkt = First(d)]
  /\ UNCHANGED <<core, stopped, napi, x, p, tail, sent, freed, passed>>

StopRelease ==
  LET e == ldd_peer(link.dev) IN
  /\ link.pc = "put"
  /\ ldd_release_buffer(e)
  /\ link' = [link EXCEPT !.pkt = 0, !.pc = IF WasEmpty(e) THEN "wake" ELSE "drain"]
  /\ UNCHANGED <<core, stopped, napi, x, p, tail, sent, freed, passed>>

StopWake ==
  /\ link.pc = "wake"
  /\ stopped' = [stopped EXCEPT ![ldd_peer(link.dev)] = FALSE]
  /\ link' = [link EXCEPT !.pc = "drain"]
  /\ UNCHANGED <<core, priv, napi, x, p, tail, sent, freed, passed>>

ldd_stop == StopReceive \/ NapiDisabled \/ StopDrain \/ StopRelease \/ StopWake

-------------------------------------------------------------------------------
(* insmod and rmmod.                                                       *)

Destroy(n) == [pc |-> "unregister", i |-> 0, n |-> n]

\* ldd_create(i) up to register_netdev(); without memory m_init undoes the rest.
ldd_create ==
  /\ load.pc = "create"
  /\ \/ /\ life' = [life EXCEPT ![load.i] = "made"]
        /\ load' = [load EXCEPT !.pc = "register"]
     \/ /\ load' = Destroy(load.i)
        /\ UNCHANGED life
  /\ UNCHANGED <<param, up, priv, stopped, napi, x, p, tail, link, sent,
                 freed, passed>>

\* register_netdev(), and err_pool when it fails.
Register ==
  /\ load.pc = "register" /\ link.pc = "idle"
  /\ \/ /\ life' = [life EXCEPT ![load.i] = "registered"]
        /\ load' = IF load.i = 1 THEN [load EXCEPT !.pc = "loaded"]
                   ELSE [load EXCEPT !.pc = "create", !.i = 1]
     \/ /\ load.i \in RegisterFails
        /\ life' = [life EXCEPT ![load.i] = "freed"]
        /\ load' = Destroy(load.i)
  /\ UNCHANGED <<param, up, priv, stopped, napi, x, p, tail, link, sent,
                 freed, passed>>

m_exit ==
  /\ load.pc = "loaded"
  /\ load' = Destroy(2)
  /\ UNCHANGED <<param, life, up, priv, stopped, napi, x, p, tail, link,
                 sent, freed, passed>>

\* External: unregister_netdev() closes a device that is up.
Unregister ==
  LET d == load.i IN
  /\ load.pc = "unregister" /\ load.i < load.n
  /\ life[d] = "registered" /\ link.pc = "idle"
  /\ life' = [life EXCEPT ![d] = "gone"]
  /\ up' = [up EXCEPT ![d] = FALSE]
  /\ link' = IF up[d] THEN [link EXCEPT !.pc = "stop", !.dev = d] ELSE link
  /\ UNCHANGED <<param, load, priv, stopped, napi, x, p, tail, sent, freed,
                 passed>>

\* Mutant: one loop that unregisters and frees.
UnregisteredFreed ==
  LET d == load.i IN
  /\ load.pc = "unregister" /\ load.i < load.n
  /\ life[d] = "gone" /\ link.pc = "idle"
  /\ xpc[d] = "idle" /\ ppc[d] = "idle" /\ tail[d] = "none"
  /\ life' = [life EXCEPT ![d] = "freed"]
  /\ load' = [load EXCEPT !.i = @ + 1]
  /\ UNCHANGED <<param, up, priv, stopped, napi, x, p, tail, link, sent, freed,
                 passed>>

\* External: it returns when the softirqs that use the device have ended.
Unregistered ==
  LET d == load.i IN
  /\ load.pc = "unregister" /\ load.i < load.n
  /\ life[d] = "gone" /\ link.pc = "idle"
  /\ xpc[d] = "idle" /\ ppc[d] = "idle" /\ tail[d] = "none"
  /\ load' = [load EXCEPT !.i = @ + 1]
  /\ UNCHANGED <<param, life, up, priv, stopped, napi, x, p, tail, link,
                 sent, freed, passed>>

\* The second loop of ldd_destroy(n).
FreeAll ==
  /\ load.pc = "unregister" /\ load.i = load.n
  /\ life' = [d \in Dev |-> IF d < load.n THEN "freed" ELSE life[d]]
  /\ load' = [load EXCEPT !.pc = "done"]
  /\ UNCHANGED <<param, up, priv, stopped, napi, x, p, tail, link, sent,
                 freed, passed>>

ldd_destroy == Unregister \/ Unregistered \/ FreeAll

\* The module is unloaded, nothing is left to do.
Unloaded == load.pc = "done" /\ UNCHANGED vars

-------------------------------------------------------------------------------
Send(d) == ldd_start_xmit(d) \/ ldd_start_xmit_drop(d)

Xmit(d) ==
  \/ ldd_rx_enqueue(d) \/ TxInterrupt(d) \/ ldd_ack_interrupt(d)
  \/ ldd_regular_interrupt(d) \/ ldd_napi_interrupt(d)
  \/ XmitRelease(d) \/ XmitWake(d) \/ HandlerEnd(d)

Next ==
  \/ \E d \in Dev :
       Send(d) \/ Xmit(d) \/ ldd_poll(d) \/ PollTail(d) \/ LinkUp(d) \/ LinkDown(d)
  \/ ldd_open \/ ldd_stop
  \/ ldd_create \/ Register \/ m_exit \/ ldd_destroy \/ Unloaded

Spec == Init /\ [][Next]_vars
-------------------------------------------------------------------------------
(* Properties.                                                             *)

Live(d) == life[d] \notin {"absent", "freed"}
One(c) == IF c THEN 1 ELSE 0

\* How many of the two devices are in S.
Count(S) == One(0 \in S) + One(1 \in S)

TypeOK ==
  /\ use_napi \in UseNapi /\ pool_size \in PoolSizes
  /\ life \in [Dev -> {"absent", "made", "registered", "gone", "freed"}]
  /\ \A d \in Dev :
       /\ pool[d] \in 0..pool_size
       /\ Len(rxq[d]) <= pool_size
       /\ status[d] \subseteq {"RX", "TX"}
       /\ tx_skb[d] \in 0..MaxFrames[d]
       /\ napi[d].state \in {"off", "idle", "sched"}
       /\ pkt[d] \in 0..MaxFrames[IF irq[d] = None THEN d ELSE ldd_peer(irq[d])]
       /\ done[d] \in 0..Weight
       /\ tail[d] \in {"none", "look", "again"}
       /\ sent[d] \in 0..MaxFrames[d] /\ freed[d] \in 0..sent[d]

\* Every transmit buffer of a device is in its pool, in the queue of its twin
\* or in the hands of exactly one thread, and every skb given to the driver is
\* freed once: it is with its transmit path, in tx_skb, with a handler that
\* took it, or freed.
Conserved ==
  \A d \in Dev :
    LET e == ldd_peer(d) IN
    /\ Live(d) =>
         pool_size = pool[d] + Len(rxq[e])
                     + One(irq[d] = None /\ pkt[d] # 0)
                     + Count({y \in Dev : irq[y] = e /\ pkt[y] # 0})
                     + One(ppkt[e] # 0)
                     + One(link.dev = e /\ link.pkt # 0)
    /\ sent[d] = freed[d] + One(xpc[d] # "idle" /\ irq[d] # d)
                 + One(tx_skb[d] # 0)
                 + Count({y \in Dev : irq[y] = d /\ skb[y] # 0})

\* A frame goes up at most once, and with NAPI the frames of a device go up in
\* the order they were sent (without it two handlers may overtake each other).
PassedInOrder ==
  \A d \in Dev : \A i, j \in DOMAIN passed[d] :
    i < j => IF use_napi THEN passed[d][i] < passed[d][j]
             ELSE passed[d][i] # passed[d][j]

\* No thread touches a device that was freed, or gives a buffer back to one:
\* what "Unregister both before freeing either" is for.
NoUseAfterFree ==
  \A d \in Dev :
    LET e == ldd_peer(d) IN
    /\ xpc[d] # "idle" => Live(d)
    /\ xpc[d] = "wire" => Live(e)
    /\ irq[d] # None => Live(irq[d])
    /\ xpc[d] \in {"put", "wake"} => Live(Owner(d))
    /\ ppc[d] # "idle" \/ tail[d] # "none" \/ link.dev = d => Live(d)
    /\ ppc[d] \in {"put", "wake"} => Live(e)
    /\ link.pc \in {"put", "wake"} => Live(ldd_peer(link.dev))

\* A frame queued at a running device has somebody coming to take it.  Without
\* NAPI there is one handler for every queued frame, although a handler takes
\* one frame per receive status, set once however many frames came.  With NAPI
\* it is a handler about to schedule the poll, the scheduled poll, or the second
\* look of a poll after napi_complete_done().
FrameHasTaker ==
  \A d \in Dev :
    LET Handlers(pcs) == {y \in Dev : irq[y] = d /\ xpc[y] \in pcs} IN
    /\ "RX" \in status[d] => Handlers({"ack"}) # {}
    /\ running[d] /\ rxq[d] # <<>> =>
         IF use_napi
         THEN \/ "RX" \in status[d]
              \/ Handlers({"rx", "sched"}) # {}
              \/ napi[d].state = "sched" \/ tail[d] # "none"
         ELSE Len(rxq[d]) <= One("RX" \in status[d])
                                  + Count(Handlers({"rx"}))

\* A queue is not left stopped with a buffer in the pool: the thread that put
\* the first one back is on its way to wake it, after the unlock.
WakeComing ==
  \A d \in Dev : up[d] /\ stopped[d] /\ pool[d] > 0 =>
    \/ \E y \in Dev : xpc[y] = "wake" /\ Owner(y) = d
    \/ ppc[ldd_peer(d)] = "wake"
    \/ link.pc = "wake" /\ link.dev = ldd_peer(d)
===============================================================================
