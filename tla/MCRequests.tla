---- MODULE MCRequests ----
(* Instances of Requests for TLC. *)
EXTENDS Requests

Words == {"g", "s", "r", "b", "c", "d", "A", "l", "e", "T", "0", "1", "2", "00", "", "long"}
====
