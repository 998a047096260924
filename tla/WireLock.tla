------------------------------ MODULE WireLock ------------------------------
(***************************************************************************)
(* What the users of the wire rely on, with no requests, packets or loops  *)
(* in it: a lock that has one holder at most, that is given to those who   *)
(* wait in the order in which they came, and whose waiters can give up.    *)
(* NetworkManager makes one such lock (an asyncio.Lock) for the request    *)
(* layer, send_dmx() and the loop of the scheduler.  The comment of        *)
(* RDME120Protocol.__init__ states the need: "only one request may be      *)
(* outstanding on the wire at a time", and those who transmit DMX frames   *)
(* "must acquire this same lock instance".                                 *)
(***************************************************************************)
EXTENDS SequencesExt

CONSTANTS
    Task,              \* the tasks that use the wire
    Nobody             \* the holder of a free lock

VARIABLES
    lock,              \* who holds the lock
    queue              \* who waits for it, first come, first served

LockInit == lock = Nobody /\ queue = <<>>

Free == lock = Nobody

(* A newcomer gets the lock only if it is free and nobody waits.           *)
Acquire(t) ==
    /\ Free /\ queue = <<>>
    /\ lock' = t
    /\ UNCHANGED queue

(* Otherwise it waits behind all others, and only once.                    *)
Wait(t) ==
    /\ ~Free \/ queue # <<>>
    /\ lock # t /\ \A i \in DOMAIN queue : queue[i] # t
    /\ queue' = Append(queue, t)
    /\ UNCHANGED lock

(* The first in line gets the free lock.  If it does not await anything    *)
(* while it has it, the lock is free again by the end of the step.         *)
Turn ==
    /\ Free /\ queue # <<>>
    /\ lock' \in {Head(queue), Nobody}
    /\ queue' = Tail(queue)

(* A waiter that is cancelled leaves; the others keep their order.         *)
GiveUpWaiting ==
    /\ \E i \in 1 .. Len(queue) : queue' = RemoveAt(queue, i)
    /\ UNCHANGED lock

Release ==
    /\ ~Free
    /\ lock' = Nobody
    /\ UNCHANGED queue

LockNext ==
    \/ \E t \in Task : Acquire(t) \/ Wait(t)
    \/ Turn
    \/ GiveUpWaiting
    \/ Release

LockSpec == LockInit /\ [][LockNext]_<<lock, queue>>
=============================================================================
