------------------------------ MODULE FdManager ------------------------------
(***************************************************************************)
(* HCServer/fd_manager.{h,cc}: the table of descriptor contexts (FdCtx)    *)
(* that the hooked system calls consult, and the kernel's descriptors that *)
(* the contexts describe.                                                  *)
(*                                                                         *)
(* m_datas is a function from descriptors to contexts: a slot the vector   *)
(* does not have yet reads as an empty one does.  (It begins with 64 slots *)
(* and grows to fd*1.5, which is more than fd.)                            *)
(***************************************************************************)
EXTENDS Integers, FiniteSets

CONSTANTS
    Fibers,
    Fds          \* the descriptors the kernel hands out, as numbers

Events == {"READ", "WRITE"}

\* A timeout is (uint64_t)-1 or some number of milliseconds.
Timeouts == {"forever", "some"}

VARIABLES
    m_datas,     \* FdManager::m_datas: a context, or NoCtx
    kernel       \* per descriptor: is it open, O_NONBLOCK, what it is

NoCtx == [there |-> FALSE]

\* FdCtx::init of a descriptor: a socket becomes non-blocking in the kernel.
\* m_isClosed, and with it isClose(), is false in every context: nothing sets it.
FdCtx(fd) ==
    [there |-> TRUE, m_isSocket |-> kernel[fd].open, m_sysNonblock |-> kernel[fd].open,
     m_userNonblock |-> FALSE, m_timeout |-> [e \in Events |-> "forever"]]

\* A kernel descriptor: state is "new", "connecting", "connected", "refused" or
\* "listening"; ready holds the events a call would not have to wait for.
Closed == [open |-> FALSE, nonblock |-> FALSE, state |-> "new", ready |-> {}]
Opened(state) == [open |-> TRUE, nonblock |-> FALSE, state |-> state, ready |-> {}]

\* A connection attempt ends, or its failure has been reported.
Turns(fd, state, ready) ==
    [kernel EXCEPT ![fd] = [open |-> @.open, nonblock |-> @.nonblock,
                            state |-> state, ready |-> ready]]

FdInit == m_datas = [fd \in Fds |-> NoCtx]

\* get(fd), and the first half of get(fd, true), under the read lock.
Get(fd) == m_datas[fd]

\* Mutant: the descriptor stays blocking.
CreateBlocking(fd) ==
    /\ m_datas' = [m_datas EXCEPT ![fd] = FdCtx(fd)]
    /\ UNCHANGED kernel

\* The second half of get(fd, true), under the write lock: a new context takes
\* the slot, whatever is there by then.
Create(fd) ==
    /\ m_datas' = [m_datas EXCEPT ![fd] = FdCtx(fd)]
    /\ kernel' = [kernel EXCEPT ![fd].nonblock = kernel[fd].open]

\* del(fd)
Del(fd) == m_datas' = [m_datas EXCEPT ![fd] = NoCtx]

=============================================================================
