------------------------------ MODULE WorkerAlone ------------------------------
(***************************************************************************)
(* What a worker's cycle may take for granted (state/db.py:session_scope): *)
(* it works as if the file were its own.  It decides by the rows of its    *)
(* session, and what it has written is committed as a whole or lost as a   *)
(* whole.                                                                  *)
(***************************************************************************)
EXTENDS Integers

CONSTANTS Bases, MaxPairs

VARIABLES
    committed,   \* the bases with a committed position
    session,     \* the same, as the worker's session sees it
    legs,        \* legs[b]: pairs of legs the venue holds
    pending,     \* the bases whose orders are sent and not yet recorded
    lost         \* the bases of which a rollback has lost a record

vars == <<committed, session, legs, pending, lost>>

\* What is in one of two sets and not in the other.
Differ(S, T) == (S \ T) \cup (T \ S)

Init ==
    /\ committed = {} /\ session = {}
    /\ legs = [b \in Bases |-> 0]
    /\ pending = {} /\ lost = {}

\* The orders of a close go out when there is a position, those of an entry when
\* there is none.
Close(b) == b \in session /\ legs[b] > 0 /\ legs' = [legs EXCEPT ![b] = @ - 1]
Enter(b) == b \notin session /\ legs[b] < MaxPairs /\ legs' = [legs EXCEPT ![b] = @ + 1]
Send(b) ==
    /\ pending = {} /\ pending' = {b}
    /\ Close(b) \/ Enter(b)
    /\ UNCHANGED <<committed, session, lost>>

\* The position that was closed leaves the session's rows, the one entered joins them.
Record ==
    /\ session' = Differ(session, pending)
    /\ pending' = {}
    /\ UNCHANGED <<committed, legs, lost>>

Commit ==
    /\ pending = {}
    /\ committed' = session
    /\ UNCHANGED <<session, legs, pending, lost>>

\* The legs stay as they are.
RollBack ==
    /\ session' = committed /\ pending' = {}
    /\ lost' = lost \cup pending \cup Differ(session, committed)
    /\ UNCHANGED <<committed, legs>>

Next == (\E b \in Bases : Send(b)) \/ Record \/ Commit \/ RollBack

Spec == Init /\ [][Next]_vars
=============================================================================
