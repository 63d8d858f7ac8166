----------------------------- MODULE MC_EkapClient -----------------------------
(* An instance of EkapClient for TLC. *)
EXTENDS EkapClient

CONSTANTS alarm, interest, saved

TwoClients   == {alarm, interest}
ThreeClients == {alarm, interest, saved}
MCJitters    == {0, 1}
MCRetryAfter == {0, 2}
===============================================================================
