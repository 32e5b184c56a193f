-------------------------- MODULE MCConnectionPool --------------------------
(* ConnectionPool with three threads over a pool of two, so that a thread    *)
(* can wait while both slots are out; four connection identities leave room  *)
(* for connections still being closed beyond the pool's size.                *)
EXTENDS ConnectionPool

=============================================================================
