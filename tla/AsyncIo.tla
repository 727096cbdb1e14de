------------------------------- MODULE AsyncIo --------------------------------
(***************************************************************************)
(* examples/25_async_io/main.c: a ring buffer read and written by requests *)
(* that move their data when they are submitted and, when they are         *)
(* asynchronous, are answered later by a work item.  The mutex covers all  *)
(* of async_io_do_read and of async_io_do_write, which are one step each.  *)
(* The bytes written are numbered.                                         *)
(***************************************************************************)
EXTENDS Integers, Sequences, FiniteSetsExt

CONSTANTS
  AioSlots,   \* bound: requests at a time
  AIO_BUFF,   \* BUFF_SIZE
  AioCounts,  \* bound: bytes a request asks for
  MaxAioBytes \* bound: bytes written

ASSUME AsyncIoAssumption ==
  AIO_BUFF \in Nat \ {0} /\ AioCounts \subseteq Nat /\ MaxAioBytes \in Nat

VARIABLES
  aio_mod,  \* "none", "up", "exit" until the workqueue is destroyed, "gone"
  aio_file, \* the user has the device open
  aio_dev,  \* async_io_dev: buff, read_cur, write_cur, len
  aio_req,  \* per request: where it is, what it moved, the answers to its submitter
  aio_log   \* history: the bytes read, and how many were written

aioVars == <<aio_mod, aio_file, aio_dev, aio_req, aio_log>>

AioIdle == [st |-> "idle", moved |-> 0, answers |-> <<>>]

AioInit ==
  /\ aio_mod = "none" /\ aio_file = FALSE
  /\ aio_dev = [buff |-> [i \in 0..(AIO_BUFF - 1) |-> 0], read_cur |-> 0, write_cur |-> 0,
                len |-> 0]
  /\ aio_req = [r \in AioSlots |-> AioIdle]
  /\ aio_log = [read |-> <<>>, written |-> 0]

\* m_init, which undoes everything when it fails.
aio_m_init ==
  /\ aio_mod = "none" /\ aio_mod' \in {"up", "gone"}
  /\ UNCHANGED <<aio_file, aio_dev, aio_req, aio_log>>

\* The user opens the device or closes it.  A request in progress has its own
\* reference to the file.
async_io_open ==
  /\ aio_mod = "up" /\ aio_file' = ~aio_file
  /\ UNCHANGED <<aio_mod, aio_dev, aio_req, aio_log>>

-------------------------------------------------------------------------------
(* Requests.                                                               *)

\* How many bytes a request for count may move: not past the end of the buffer.
WantRead(count) == Min({AIO_BUFF - aio_dev.read_cur, aio_dev.len, count})

\* Mutant: what has not been read yet is overwritten.
WantWriteOver(count) == Min({AIO_BUFF - aio_dev.write_cur, count})

WantWrite(count) == Min({AIO_BUFF - aio_dev.write_cur, AIO_BUFF - aio_dev.len, count})

\* done bytes are copied, fewer than wanted when the user's memory faults.
async_io_do_read(done) ==
  /\ aio_log' = [aio_log EXCEPT !.read =
       @ \o [i \in 1..done |-> aio_dev.buff[aio_dev.read_cur + i - 1]]]
  /\ aio_dev' = [aio_dev EXCEPT !.read_cur = (@ + done) % AIO_BUFF, !.len = @ - done]

async_io_do_write(done) ==
  LET w == aio_dev.write_cur  n == aio_log.written IN
    /\ aio_dev' = [aio_dev EXCEPT
         !.buff = [i \in DOMAIN @ |-> IF i \in w..(w + done - 1) THEN n + i - w + 1 ELSE @[i]],
         !.write_cur = (w + done) % AIO_BUFF, !.len = @ + done]
    /\ aio_log' = [aio_log EXCEPT !.written = n + done]

\* The request becomes a work item; without memory for it the submitter is
\* answered at once.
async_io_defer(r, ret) ==
  aio_req' \in {[aio_req EXCEPT ![r] = [st |-> "queued", moved |-> ret, answers |-> <<>>]],
                [aio_req EXCEPT ![r] = [st |-> "done", moved |-> ret, answers |-> <<ret>>]]}

\* A synchronous request, and one that failed, is answered at once.
Answer(r, ret) ==
  \/ aio_req' = [aio_req EXCEPT ![r] = [st |-> "done", moved |-> ret, answers |-> <<ret>>]]
  \/ ret >= 0 /\ async_io_defer(r, ret)

EFAIL == -1

\* A signal ends the wait for the mutex, or none of the bytes can be copied, or a
\* write finds the buffer full.
Refuse(r) == Answer(r, EFAIL) /\ UNCHANGED <<aio_dev, aio_log>>

async_io_read_iter(r) ==
  \/ Refuse(r)
  \/ \E count \in AioCounts : \E done \in 0..WantRead(count) :
       /\ done > 0 \/ WantRead(count) = 0
       /\ async_io_do_read(done) /\ Answer(r, done)

async_io_write_iter(r) ==
  \/ Refuse(r)
  \/ \E count \in AioCounts : \E done \in 0..WantWrite(count) :
       /\ aio_dev.len < AIO_BUFF /\ aio_log.written + done <= MaxAioBytes
       /\ done > 0 \/ WantWrite(count) = 0
       /\ async_io_do_write(done) /\ Answer(r, done)

Submit(r) ==
  /\ aio_mod = "up" /\ aio_file /\ aio_req[r].st \in {"idle", "done"}
  /\ async_io_read_iter(r) \/ async_io_write_iter(r)
  /\ UNCHANGED <<aio_mod, aio_file>>

\* ki_complete, after which the request and its file may be gone, and the rest of
\* the function.
async_io_complete(r) ==
  /\ \/ /\ aio_req[r].st = "queued"
        /\ aio_req' = [aio_req EXCEPT ![r].st = "freeing",
                         ![r].answers = Append(@, aio_req[r].moved)]
     \/ aio_req[r].st = "freeing" /\ aio_req' = [aio_req EXCEPT ![r].st = "done"]
  /\ UNCHANGED <<aio_mod, aio_file, aio_dev, aio_log>>

-------------------------------------------------------------------------------
(* Unloading, which open files and the requests that hold them prevent.    *)

aio_m_exit ==
  /\ \/ /\ aio_mod = "up" /\ ~aio_file /\ \A r \in AioSlots : aio_req[r].st # "queued"
        /\ aio_mod' = "exit"
     \/ /\ aio_mod = "exit" /\ \A r \in AioSlots : aio_req[r].st # "freeing"
        /\ aio_mod' = "gone"
  /\ UNCHANGED <<aio_file, aio_dev, aio_req, aio_log>>

AioFinished == aio_mod = "gone" /\ UNCHANGED aioVars

AioNext ==
  \/ aio_m_init \/ async_io_open \/ aio_m_exit \/ AioFinished
  \/ \E r \in AioSlots : Submit(r) \/ async_io_complete(r)

AioSpec == AioInit /\ [][AioNext]_aioVars

-------------------------------------------------------------------------------
\* The ring is a queue: the bytes read and then the bytes in it are those written,
\* each once and in order, however the copies were cut short at its end or by a
\* fault.  Every request is answered once, with what it moved, and no completion
\* runs after the module is gone.
RingExact ==
  /\ aio_log.read \o [i \in 1..aio_dev.len |->
                        aio_dev.buff[(aio_dev.read_cur + i - 1) % AIO_BUFF]]
       = [i \in 1..aio_log.written |-> i]
  /\ \A r \in AioSlots :
       /\ aio_req[r].st \in {"freeing", "done"} => aio_req[r].answers = <<aio_req[r].moved>>
       /\ aio_req[r].st \in {"queued", "freeing"} => aio_mod # "gone"
===============================================================================
