------------------------------ MODULE FifoLock ------------------------------
(***************************************************************************)
(* What a FairGate promises its callers (src/jarvis/scheduling.py): one    *)
(* customer at a time, served in the order of arrival.  A customer that    *)
(* has waited too long leaves the line.  Nothing is said here of condition *)
(* variables, notifications or deadlines: FairGate is shown to implement   *)
(* this module, and InferenceServer is built on it.                        *)
(***************************************************************************)
EXTENDS Integers, Sequences

CONSTANTS Customer,     \* the threads that ask for the shared model
          Nobody        \* the owner of the free model; not a customer

VARIABLES line,         \* the customers waiting, in the order of arrival
          owner         \* the customer that holds the model, or Nobody

lockVars == <<line, owner>>

\* The sequence s without its element at position i.
Drop(s, i) == [j \in 1..(Len(s) - 1) |-> IF j < i THEN s[j] ELSE s[j + 1]]

Queued(c) == \E i \in 1..Len(line) : line[i] = c

LockInit == /\ line = <<>>
            /\ owner = Nobody

\* A customer that finds the model free and the line empty is served at once.
ServedOnArrival(c) == /\ ~Queued(c) /\ owner # c
                      /\ line = <<>> /\ owner = Nobody
                      /\ owner' = c
                      /\ UNCHANGED line

JoinLine(c) == /\ ~Queued(c) /\ owner # c
               /\ line # <<>> \/ owner # Nobody
               /\ line' = Append(line, c)
               /\ UNCHANGED owner

Serve(c) == /\ line # <<>> /\ owner = Nobody
            /\ c = line[1]
            /\ line' = Drop(line, 1)
            /\ owner' = c

\* Only a customer that cannot be served now may give up waiting.
Leave(c) == \E i \in 1..Len(line) :
              /\ line[i] = c
              /\ i > 1 \/ owner # Nobody
              /\ line' = Drop(line, i)
              /\ UNCHANGED owner

Free(c) == /\ owner = c
           /\ owner' = Nobody
           /\ UNCHANGED line

LockNext == \E c \in Customer : \/ ServedOnArrival(c) \/ JoinLine(c)
                                \/ Serve(c) \/ Leave(c) \/ Free(c)

LockSpec == LockInit /\ [][LockNext]_lockVars

=============================================================================
