------------------------------- MODULE BootMC -------------------------------
(* Two users, a product and an order; the scorer starts twice.               *)
EXTENDS Boot

MCStatements == <<"alice", "bob", "product", "order">>
MCUsers == {"alice", "bob"}

=============================================================================
