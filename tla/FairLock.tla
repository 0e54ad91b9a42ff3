------------------------------ MODULE FairLock ------------------------------
(***************************************************************************)
(* What a readers-writer lock of p7 promises: coroutines are served in the *)
(* order in which they asked, readers share the lock, a writer has it for  *)
(* itself.  p7/rwspin.c implements it with tickets.                         *)
(***************************************************************************)
EXTENDS Sequences

CONSTANT Coro

VARIABLES line,       \* who waits, first come first
          reading,    \* the coroutines that have the lock as readers
          writing     \* those that have it as writers: at most one

fairLockVars == <<line, reading, writing>>

FairLockInit == line = <<>> /\ reading = {} /\ writing = {}

Arrive(t, role) ==
    /\ line' = Append(line, <<t, role>>)
    /\ UNCHANGED <<reading, writing>>

Serve ==
    /\ line # <<>>
    /\ line' = Tail(line)
    /\ writing = {}
    /\ LET t == Head(line)[1]
       IN  \/ /\ Head(line)[2] = "reader"
              /\ reading' = reading \cup {t}
              /\ UNCHANGED writing
           \/ /\ Head(line)[2] = "writer"
              /\ reading = {}
              /\ writing' = {t}
              /\ UNCHANGED reading

Leave(t) ==
    /\ t \in reading \cup writing
    /\ reading' = reading \ {t}
    /\ writing' = writing \ {t}
    /\ UNCHANGED line

FairLockNext ==
    \/ Serve
    \/ \E t \in Coro : Leave(t) \/ \E role \in {"reader", "writer"} : Arrive(t, role)

FairLockSpec == FairLockInit /\ [][FairLockNext]_fairLockVars
=============================================================================
