------------------------------- MODULE MCBlufi -------------------------------
(* At most three events on their way, two negotiations per connection.     *)
EXTENDS Blufi
=============================================================================
