--------------------------- MODULE MCTradingCycle ---------------------------
(***************************************************************************)
(* Constant values and symmetry for the runs of TradingCycle.              *)
(***************************************************************************)
EXTENDS TradingCycle, TLC

\* The operator toggles entries and maintenance; exits stay enabled.
Toggled == {m \in ModeStateRows : m.exit_enabled /\ ~(m.entry_enabled /\ m.maintenance_mode)}

\* The same without maintenance.
Trading == {m \in Toggled : ~m.maintenance_mode}

Symmetry == Permutations(Bases)

=============================================================================
