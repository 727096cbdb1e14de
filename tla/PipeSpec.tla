------------------------------ MODULE PipeSpec ------------------------------
(***************************************************************************)
(* What the two pipe drivers promise, whatever way they put a process to   *)
(* sleep: the device is a channel that holds one message of at most        *)
(* BUFF_SIZE bytes.  A write is accepted only when the channel is empty,   *)
(* and is cut at BUFF_SIZE bytes.  A read takes bytes from the front, at   *)
(* most as many as it asked for.  So a byte that is accepted is delivered  *)
(* once, to one reader, in the order of the stream.                        *)
(***************************************************************************)
EXTENDS Naturals, Sequences

CONSTANTS Readers,    \* threads that call read()
          Writers,    \* threads that call write()
          Byte,       \* the bytes that can be written
          BUFF_SIZE   \* what one message may hold

VARIABLES chan,    \* the bytes accepted and not yet delivered
          offer,   \* offer[w]: the bytes a pending write() of w carries
          ask,     \* ask[r]: how many bytes a pending read() of r wants
          got      \* got[r]: the bytes the last read() of r was given

specVars == <<chan, offer, ask, got>>

Least(m, n) == IF m < n THEN m ELSE n

SpecInit ==
    /\ chan = <<>>
    /\ offer = [w \in Writers |-> <<>>]
    /\ ask = [r \in Readers |-> 0]
    /\ got = [r \in Readers |-> <<>>]

\* A write() is called with some bytes, or gives up and offers none.
Offer(w) ==
    /\ offer'[w] \in Seq(Byte)
    /\ offer' = [offer EXCEPT ![w] = offer'[w]]
    /\ UNCHANGED <<chan, ask, got>>

\* A read() is called and has been given nothing yet.
Ask(r) ==
    /\ ask'[r] \in Nat
    /\ ask' = [ask EXCEPT ![r] = ask'[r]]
    /\ got' = [got EXCEPT ![r] = <<>>]
    /\ UNCHANGED <<chan, offer>>

\* A read() gives up.
Cancel(r) ==
    /\ ask' = [ask EXCEPT ![r] = 0]
    /\ UNCHANGED <<chan, offer, got>>

\* The channel takes what fits of a pending write, which is then done.
Accept(w) ==
    /\ chan = <<>>
    /\ offer[w] # <<>>
    /\ chan' = SubSeq(offer[w], 1, Least(Len(offer[w]), BUFF_SIZE))
    /\ offer' = [offer EXCEPT ![w] = <<>>]
    /\ UNCHANGED <<ask, got>>

\* A pending read is given the front of the channel and is then done.
Deliver(r) ==
    LET n == Least(ask[r], Len(chan))
    IN  /\ n > 0
        /\ got' = [got EXCEPT ![r] = SubSeq(chan, 1, n)]
        /\ chan' = SubSeq(chan, n + 1, Len(chan))
        /\ ask' = [ask EXCEPT ![r] = 0]
        /\ UNCHANGED offer

SpecNext ==
    \/ \E w \in Writers : Offer(w) \/ Accept(w)
    \/ \E r \in Readers : Ask(r) \/ Cancel(r) \/ Deliver(r)

Spec == SpecInit /\ [][SpecNext]_specVars

=============================================================================
