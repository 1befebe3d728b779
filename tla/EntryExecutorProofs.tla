------------------------- MODULE EntryExecutorProofs -------------------------
(***************************************************************************)
(* Theorems about EntryExecutor, for both values of each of its constants. *)
(***************************************************************************)
EXTENDS EntryExecutor, TLAPS

\* A leg's future, order and collected fill agree.
FuturesAgree ==
    \A l \in Legs :
        /\ future[l] \in {"pending", "cancelled"} => order[l] = "none"
        /\ future[l] = "accepted" => order[l] = "filled"
        /\ future[l] = "refused" /\ l \notin raised => order[l] = "killed"
        /\ fills[l] \in {"accepted", "refused"} => future[l] = fills[l]

\* What the calling thread knows at each place of its code.
CallerAgrees ==
    /\ pc # "waiting" => \A l \in Legs : fills[l] # "none"
    /\ pc \in {"unwinding", "returned"} => \A l \in Legs : future[l] \in Finished
    /\ pc = "unwinding" => Accepted # {} /\ Accepted # Legs
    /\ raised # {} => CanLose
    /\ pc # "returned" => \A l \in raised : future[l] = "refused"
    /\ (\E l \in Legs : fills[l] = "timeout") => CanTimeout
    /\ pc # "returned" => report = NoReport /\ reverse = "none"

\* How the report relates to the fills and the rollback.
ReportAgrees ==
    pc = "returned" =>
        \/ report = Success /\ Accepted = Legs /\ reverse = "none" /\ raised = {}
        \/ report = Rejected /\ Accepted = {} /\ reverse = "none"
        \/ report = Recovered /\ Accepted # Legs /\ Accepted # {} /\ reverse = "filled"
        \/ \E l \in Legs : /\ report = NakedOn(l) /\ Accepted = {l}
                           /\ reverse # "killed" => l \in raised

IInv == TypeOK /\ FuturesAgree /\ CallerAgrees /\ ReportAgrees

-----------------------------------------------------------------------------
\* The two legs are each other's Other.
LEMMA OtherLeg ==
    \A l \in Legs : /\ Other(l) \in Legs /\ Other(l) # l
                    /\ \A k \in Legs : k = l \/ k = Other(l)
BY DEF Legs, Other

\* The call before its first step.
LEMMA InitInductive == Init => IInv
BY DEF Init, IInv, TypeOK, FuturesAgree, CallerAgrees, ReportAgrees, Reports, Legs,
       NoReport, Report

\* The steps of the leg threads and of the venue keep the invariant.
LEMMA ThreadsInductive == IInv /\ Threads => IInv'
<1>a. ASSUME IInv, DecideReverse PROVE IInv'
  BY <1>a DEF IInv, DecideReverse, TypeOK, FuturesAgree, CallerAgrees, ReportAgrees, Accepted
<1> SUFFICES ASSUME IInv, NEW l \in Legs, Start(l) \/ Decide(l) \/ Answer(l) \/ Raise(l)
             PROVE  IInv'
  BY <1>a DEF Threads
<1> USE DEF IInv
<1>1. TypeOK'
  BY DEF TypeOK, Start, Decide, Answer, Raise, Finished
<1>2. FuturesAgree'
  BY DEF TypeOK, FuturesAgree, Start, Decide, Answer, Raise, Finished
<1>3. CallerAgrees'
  BY ExecutorAssumption DEF TypeOK, FuturesAgree, CallerAgrees, Accepted, Start, Decide, Answer,
     Raise, Finished
<1>4. ReportAgrees'
  BY DEF TypeOK, CallerAgrees, ReportAgrees, Accepted, Start, Decide, Answer, Raise, Finished
<1> QED BY <1>1, <1>2, <1>3, <1>4

\* The answers collected before the timeout.
LEMMA CollectInductive == ASSUME IInv, NEW l \in Legs, Collect(l) PROVE IInv'
<1> USE DEF IInv
<1>1. TypeOK'
  BY DEF TypeOK, Collect, Finished
<1>2. FuturesAgree'
  BY DEF TypeOK, FuturesAgree, Collect
<1>3. CallerAgrees'
  BY OtherLeg DEF TypeOK, CallerAgrees, Collect
<1>4. ReportAgrees'
  BY DEF ReportAgrees, Collect
<1> QED BY <1>1, <1>2, <1>3, <1>4

\* as_completed raises: the legs it has not yielded are given up.
LEMMA LegTimeoutInductive == IInv /\ LegTimeout => IInv'
<1> SUFFICES ASSUME IInv, LegTimeout PROVE IInv'
  OBVIOUS
<1> USE DEF IInv
<1>1. TypeOK'
  BY DEF TypeOK, LegTimeout, Finished
<1>2. FuturesAgree'
  BY DEF TypeOK, FuturesAgree, LegTimeout
<1>3. CallerAgrees'
  BY DEF TypeOK, CallerAgrees, LegTimeout
<1>4. ReportAgrees'
  BY DEF ReportAgrees, LegTimeout
<1> QED BY <1>1, <1>2, <1>3, <1>4

\* The joined fills become an outcome or a rollback.
LEMMA ClassifyInductive == IInv /\ Classify => IInv'
<1> SUFFICES ASSUME IInv, Classify PROVE IInv'
  OBVIOUS
<1> USE DEF IInv
<1>1. Accepted' = Accepted
  BY DEF Classify, Accepted
<1>2. TypeOK'
  BY DEF TypeOK, Classify, Outcome, Reports
<1>3. FuturesAgree'
  BY DEF FuturesAgree, Classify
<1>4. CallerAgrees'
  BY <1>1 DEF CallerAgrees, Classify, Joined, Outcome, Success, Rejected, NoReport, Report
<1>5. ReportAgrees'
  <2>1. Accepted = Legs => raised = {}
    BY DEF TypeOK, FuturesAgree, CallerAgrees, Classify, Accepted
  <2> QED BY <1>1, <2>1 DEF CallerAgrees, ReportAgrees, Classify, Outcome
<1> QED BY <1>2, <1>3, <1>4, <1>5

\* The reverse order of the only accepted leg is answered.
LEMMA RollbackInductive == ASSUME IInv, NEW l \in Legs, Rollback(l) PROVE IInv'
<1> USE DEF IInv
<1>1. Accepted' = Accepted
  BY DEF Rollback, Accepted
<1>2. TypeOK'
  BY DEF TypeOK, Rollback, RollbackReport, Reports
<1>3. FuturesAgree'
  BY DEF FuturesAgree, Rollback
<1>4. CallerAgrees'
  BY <1>1 DEF CallerAgrees, Rollback
<1>5. ReportAgrees'
  <2>1. Accepted = {l}
    BY OtherLeg DEF CallerAgrees, Rollback, Accepted
  <2> QED BY <1>1, <2>1, OtherLeg DEF CallerAgrees, ReportAgrees, Rollback, RollbackReport
<1> QED BY <1>2, <1>3, <1>4, <1>5

\* IInv is inductive.
LEMMA NextInductive == IInv /\ [Next]_vars => IInv'
<1> SUFFICES ASSUME IInv, [Next]_vars PROVE IInv'
  OBVIOUS
<1>1. CASE Threads
  BY <1>1, ThreadsInductive
<1>2. CASE Caller
  BY <1>2, CollectInductive, LegTimeoutInductive, ClassifyInductive, RollbackInductive DEF Caller
<1>3. CASE UNCHANGED vars
  BY <1>3 DEF vars, IInv, TypeOK, FuturesAgree, CallerAgrees, ReportAgrees, Accepted
<1> QED BY <1>1, <1>2, <1>3 DEF Next, Returned

\* The invariant holds in every reachable state.
LEMMA Invariance == Spec => []IInv
BY InitInductive, NextInductive, PTL DEF Spec

-----------------------------------------------------------------------------
\* Every variable keeps its type.
THEOREM TypeCorrect == Spec => []TypeOK
BY Invariance, PTL DEF IInv

\* Once the call has returned, only an order whose call raised is still decided.
LEMMA StepAfterReturn ==
    ASSUME IInv, [Next]_vars, pc = "returned"
    PROVE  /\ UNCHANGED <<pc, future, fills, raised, report>>
           /\ Accepted' = Accepted
           /\ \A l \in Legs \ raised : l \in Held' <=> l \in Held
<1> USE DEF IInv
<1>1. UNCHANGED <<pc, future, fills, raised, report>>
  BY DEF CallerAgrees, Next, Threads, Caller, Returned, DecideReverse, Start, Decide, Answer, Raise,
     Collect, LegTimeout, Classify, Rollback, Finished, vars
<1>2. Accepted' = Accepted
  BY <1>1 DEF Accepted
<1>3. ASSUME NEW l \in Legs \ raised PROVE l \in Held' <=> l \in Held
  <2>1. order'[l] = order[l]
    BY DEF TypeOK, FuturesAgree, CallerAgrees, Next, Threads, Caller, Returned, DecideReverse,
       Start, Decide, Answer, Raise, Collect, LegTimeout, Classify, Rollback, Finished, vars
  <2>2. reverse' = reverse \/ reverse = "open"
    BY DEF CallerAgrees, Next, Threads, Caller, Returned, DecideReverse, Start, Decide, Answer,
       Raise, Collect, LegTimeout, Classify, Rollback, vars
  <2>3. CASE reverse' = reverse
    BY <2>1, <2>3, <1>2 DEF Held
  <2>4. CASE reverse = "open"
    <3>1. l \notin Accepted
      BY <2>4 DEF ReportAgrees
    <3> QED BY <2>1, <3>1, <1>2 DEF Held
  <2> QED BY <2>2, <2>3, <2>4
<1> QED BY <1>1, <1>2, <1>3

\* Joining the pool settles the call: after its return nothing becomes of its
\* orders any more, except of those whose call raised.
THEOREM Settled == Spec => SettledOnReturn
<1>1. IInv /\ [Next]_vars => [pc = "returned" => \A l \in Legs \ raised' : l \in Held' <=> l \in Held]_vars
  BY StepAfterReturn
<1> QED BY <1>1, Invariance, PTL DEF Spec, SettledOnReturn

\* IInv determines what the report says of a leg that was heard.
LEMMA HeardIsHonest == IInv => HonestAboutHeard
<1> SUFFICES ASSUME IInv, pc = "returned", NEW l \in Legs \ raised, fills[l] # "timeout"
             PROVE  l \in Held <=> l \in report.kept
  BY DEF HonestAboutHeard
<1> USE DEF IInv
<1>1. fills[l] \in {"accepted", "refused"}
  BY DEF TypeOK, CallerAgrees
<1>2. order[l] = "filled" <=> l \in Accepted
  BY <1>1 DEF FuturesAgree, Accepted
<1>3. l \in Held <=> l \in Accepted /\ reverse # "filled"
  BY <1>2 DEF Held
<1> QED BY <1>3 DEF ReportAgrees, Success, Rejected, Recovered, NakedOn, Report

\* The report is exact about every leg whose answers were heard in time.
THEOREM Honest == Spec => []HonestAboutHeard
BY HeardIsHonest, Invariance, PTL

-----------------------------------------------------------------------------
\* The contract speaks of reports in the executor's own terms.
LEMMA SameReports ==
    /\ Contract!NoReport = NoReport
    /\ Contract!Reports = Reports
    /\ \A rep \in Reports, lossy \in BOOLEAN : Contract!Unheards(rep, lossy) = Unheards(rep, lossy)
    /\ \A rep \in Reports : \A unheard \in SUBSET Legs :
          Contract!Leftovers(rep, unheard) = Leftovers(rep, unheard)
BY DEF Contract!NoReport, NoReport, Contract!Reports, Reports, Contract!Unheards, Unheards,
       Contract!Leftovers, Leftovers, Contract!Success, Success, Contract!Rejected, Rejected,
       Contract!Recovered, Recovered, Contract!NakedOn, NakedOn, Contract!Legs, Legs,
       Contract!Report, Report

\* When the call has returned, what is held differs from the report on unheard
\* legs only.
LEMMA HeldIsLeftover ==
    ASSUME IInv', pc' = "returned"
    PROVE  Held' \in Leftovers(report', Unheard')
<1> USE DEF IInv
<1>1. HonestAboutHeard'
  BY HeardIsHonest, PTL
<1>2. report'.kept \subseteq Legs
  BY DEF ReportAgrees, Success, Rejected, Recovered, NakedOn, Report
<1>3. Held' \subseteq Legs
  BY DEF Held
<1>4. \A l \in Legs \ Unheard' : l \in Held' <=> l \in report'.kept
  BY <1>1 DEF HonestAboutHeard, Unheard
<1>5. Held' \ Unheard' = report'.kept \ Unheard'
  BY <1>2, <1>3, <1>4
<1> QED BY <1>3, <1>5 DEF Leftovers

\* The step that returns is an Enter step of the contract.
LEMMA ReturnEnters ==
    ASSUME IInv, IInv', pc # "returned", pc' = "returned"
    PROVE  Contract!Enter
<1> USE DEF IInv
<1>1. report = NoReport /\ report' \in Reports
  BY DEF CallerAgrees, ReportAgrees, Reports
<1>2. Unheard' \in Unheards(report', CanTimeout \/ CanLose)
  <2>1. CASE report' = Success
    <3>1. report' # Rejected /\ report' # Recovered /\ \A l \in Legs : report' # NakedOn(l)
      BY <2>1 DEF Success, Rejected, Recovered, NakedOn, Report
    <3>2. raised' = {} /\ \A l \in Legs : fills'[l] = "accepted"
      BY <3>1 DEF ReportAgrees, Accepted
    <3> QED BY <2>1, <3>2 DEF Unheard, Unheards
  <2>2. CASE report' # Success
    BY <2>2, ExecutorAssumption DEF Unheard, Unheards, TypeOK, CallerAgrees
  <2> QED BY <2>1, <2>2
<1>3. Held' \in Leftovers(report', Unheard')
  BY HeldIsLeftover
<1>4. Unheard' \in SUBSET Legs
  BY DEF Unheard, TypeOK
<1> QED BY <1>1, <1>2, <1>3, <1>4, SameReports, ExecutorAssumption DEF Contract!Enter

\* What the venue decides after the return is a Settle step of the contract.
LEMMA ReturnSettles ==
    ASSUME IInv, IInv', [Next]_vars, pc = "returned"
    PROVE  Contract!Settle
<1> USE DEF IInv
<1>1. UNCHANGED <<pc, fills, raised, report>>
  BY StepAfterReturn
<1>2. report \in Reports /\ report # NoReport
  BY DEF ReportAgrees, Reports, Success, Rejected, Recovered, NakedOn, NoReport, Report
<1>3. Unheard' = Unheard /\ Unheard \in SUBSET Legs
  BY <1>1 DEF Unheard, TypeOK
<1>4. Held' \in Leftovers(report, Unheard)
  BY <1>1, <1>2, <1>3, HeldIsLeftover
<1> QED BY <1>1, <1>2, <1>3, <1>4, SameReports DEF Contract!Settle

\* The executor implements its contract, for any choice of timeouts and losses.
THEOREM Refinement == Spec => ImplementsContract
<1>1. Init => Contract!Init
  BY SameReports DEF Init, Contract!Init
<1>2. IInv /\ IInv' /\ [Next]_vars => [Contract!Next]_Contract!vars
  <2> SUFFICES ASSUME IInv, IInv', [Next]_vars PROVE [Contract!Next]_Contract!vars
    OBVIOUS
  <2>1. CASE pc # "returned" /\ pc' = "returned"
    BY <2>1, ReturnEnters DEF Contract!Next
  <2>2. CASE pc # "returned" /\ pc' # "returned"
    BY <2>2 DEF IInv, CallerAgrees, Contract!vars
  <2>3. CASE pc = "returned"
    BY <2>3, ReturnSettles DEF Contract!Next
  <2> QED BY <2>1, <2>2, <2>3
<1> QED BY <1>1, <1>2, Invariance, PTL DEF Spec, ImplementsContract, Contract!Spec

=============================================================================
