----------------------------- MODULE MCOrderSync -----------------------------
(* Values of OrderSync's constants for TLC. *)
EXTENDS OrderSync

CONSTANTS o1, o2

MCOrders == {o1, o2}

\* One of the two assets is on a later page of accounts.
MCFirstPage == {o1}
=============================================================================
