------------------------------- MODULE MCPGPool -------------------------------
(* PGPool with a callback shaped like StorageStatsDAO.getStats: queries of *)
(* its own around one in a nested execute.                                 *)
EXTENDS PGPool

MCProgram == <<"own", "nested", "own">>
===============================================================================
