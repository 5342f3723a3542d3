------------------------------- MODULE MCPoller -------------------------------
(* Small instances of one Poller. *)
EXTENDS Poller

TwoSchedulers == << "s1", "s2" >>
=============================================================================
