--------------------------- MODULE MCConsoleServer ---------------------------
(* ConsoleServer with models whose file is there, gone or locked.           *)
EXTENDS ConsoleServer

CONSTANTS here, gone, locked

=============================================================================
