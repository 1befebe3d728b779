---------------------------- MODULE EntryContract ----------------------------
(***************************************************************************)
(* What one entry promises to the cycle that asked for it: a single atomic *)
(* step that leaves some legs held at the venue and reports them.  The     *)
(* report is the truth about every leg whose answer was heard, and stays   *)
(* it; an order nobody heard of may still fill afterwards.                 *)
(* EntryExecutor, with its leg threads, timeout and rollback, implements   *)
(* this module.                                                            *)
(***************************************************************************)
EXTENDS EntryReport

CONSTANT Lossy    \* TRUE iff an order may fill without its caller learning it

VARIABLES report, \* the EntryResult, NoReport until the call has returned
          unheard,\* the legs whose fill the caller did not hear of
          left    \* the legs held at the venue because of this entry

vars == <<report, unheard, left>>

Init == report = NoReport /\ unheard = {} /\ left = {}

Enter == /\ report = NoReport
         /\ report' \in Reports
         /\ unheard' \in Unheards(report', Lossy)
         /\ left' \in Leftovers(report', unheard')

\* An order of an unheard leg is decided when its entry has long been reported.
Settle == /\ report # NoReport
          /\ left' \in Leftovers(report, unheard)
          /\ UNCHANGED <<report, unheard>>

Next == Enter \/ Settle

Spec == Init /\ [][Next]_vars

=============================================================================
