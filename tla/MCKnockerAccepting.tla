------------------------- MODULE MCKnockerAccepting -------------------------
(***************************************************************************)
(* The scanner with the intrusive list among hosts that accept or stay     *)
(* silent, every connect being in progress: the part of its behaviours in  *)
(* which the sweep is seen to go round for ever.                           *)
(***************************************************************************)
EXTENDS KnockerIntrusive

AcceptedOrSilent ==
  /\ \A fd \in Fds : sock'[fd] # "refused"
  /\ port' # port => dialed' # dialed

AcceptingSpec == Init /\ [][Next /\ AcceptedOrSilent]_vars /\ Fairness
=============================================================================
