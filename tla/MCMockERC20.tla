---------------------------- MODULE MCMockERC20 -----------------------------
(***************************************************************************)
(* The token on its own: two accounts and every call.                       *)
(***************************************************************************)
EXTENDS MockERC20Properties

MaxSigned == 2  \* bound: authorisations signed in one behaviour

MCNext == HistoryNext /\ Cardinality(signed') <= MaxSigned

MCSpec == HistoryInit /\ [][MCNext]_historyVars
=============================================================================
