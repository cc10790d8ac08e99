----------------------------- MODULE EpollPool -----------------------------
(***************************************************************************)
(* The readiness multiplexer shared by the cvd server's worker threads    *)
(* (EpollPool of host/commands/cvd/epoll_loop.h; that file is not part of  *)
(* this source tree, so its operations are modelled from the contract of  *)
(* spec.md section 4.1 and from how server.cc relies on it).              *)
(*                                                                         *)
(* The pool's state is its registration table: a function from            *)
(* descriptors to either NoReg or a registration                          *)
(* [interest |-> "IN" | "HUP", cb |-> <callback>].  A registration is     *)
(* one-shot: HandleEvent takes the callback out of the table before       *)
(* invoking it, so a callback that wants the next event on its descriptor *)
(* registers again.  The operators below are pure: a module that composes *)
(* the pool keeps the table in a variable and applies them to it.         *)
(***************************************************************************)
CONSTANT NoReg    \* the table entry of a descriptor without a registration

\* Register(fd, interest, cb) succeeds only when fd has no live registration.
CanRegister(reg, fd) == reg[fd] = NoReg

\* The table after a successful Register(fd, interest, cb).
Registered(reg, fd, interest, cb) ==
    [reg EXCEPT ![fd] = [interest |-> interest, cb |-> cb]]

\* Remove(fd) deletes fd's registration; it fails (and changes nothing)
\* when fd has none.
CanRemove(reg, fd) == reg[fd] # NoReg

Removed(reg, fd) == [reg EXCEPT ![fd] = NoReg]

\* The descriptors HandleEvent may pick: those with a live registration
\* whose interest the environment reports as ready; readyFor[fd] is the
\* set of interests fd is ready for.
Dispatchable(reg, readyFor) ==
    {fd \in DOMAIN reg : reg[fd] # NoReg /\ reg[fd].interest \in readyFor[fd]}

\* HandleEvent moves the callback of the picked descriptor out of the
\* table (under the table's lock) before it runs it on the calling thread.
Taken(reg, fd) == [reg EXCEPT ![fd] = NoReg]
=============================================================================
