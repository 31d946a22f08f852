----------------------------- MODULE MCMetrics -----------------------------
(***************************************************************************)
(* Constants for Metrics: one key, one stored Var, increments and          *)
(* decrements (NumCompactionTablesAdd is called with -1), and a package    *)
(* that registered one of the names before initMetrics ran.                *)
(***************************************************************************)
EXTENDS Metrics

CONSTANTS K1, V1

MCDeltas == {1, -1}

\* Another package registered badger_get_num_user as an Int, as zapdb does.
MCForeignSameKind == "badger_get_num_user" :> "int"

\* Another package registered badger_size_bytes_lsm as an Int, not a Map.
MCForeignOtherKind == "badger_size_bytes_lsm" :> "int"
=============================================================================
