------------------------------ MODULE MCArbiter ------------------------------
(***************************************************************************)
(* Small instances of one Arbiter with two Schedulers. An edit takes the   *)
(* first of two hosts away, which moves the other to the first Scheduler,  *)
(* and passes by files that do not parse or cannot be read.                *)
(***************************************************************************)
EXTENDS Arbiter

Host(id) == [id |-> id, use |-> "", register |-> TRUE, value |-> "v"]
Pings == << [id |-> "ping", hostName |-> "b", use |-> "", register |-> TRUE, value |-> "v"] >>

Both == << Host("a"), Host("b") >>
Other == << Host("b") >>

\* hosts and services in one file
OneFile == << "all.yaml" >>
OneInitial == << [hosts |-> Both, services |-> Pings] >>
OneContents == << {[hosts |-> hosts, services |-> Pings] : hosts \in {Both, Other}} >>

\* hosts in one file, services in another
TwoFiles == << "hosts.yaml", "services.yaml" >>
TwoInitial == << [hosts |-> Both, services |-> << >>], [hosts |-> << >>, services |-> Pings] >>
TwoContents ==
  << {[hosts |-> hosts, services |-> << >>] : hosts \in {Both, Other}},
     {[hosts |-> << >>, services |-> Pings]} >>
=============================================================================
