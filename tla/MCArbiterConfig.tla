---------------------------- MODULE MCArbiterConfig ----------------------------
(***************************************************************************)
(* The computations of ArbiterConfig on every small input, each an initial *)
(* state in which the invariants are evaluated; and two small files that   *)
(* are edited, read and pushed to the Schedulers.                          *)
(***************************************************************************)
EXTENDS Fleet, SequencesExt, TLC

CONSTANTS
  Chain,          \* ids of a chain of templates, longer than the cut
  HostIds, ServiceIds,
  MaxN            \* Schedulers

SixLinks == << "a", "s", "t", "u", "w", "x" >>

Own == {"", "v"}
Host(id, use, register, value) == [id |-> id, use |-> use, register |-> register, value |-> value]
Service(id, host) == [id |-> id, hostName |-> host, use |-> "", register |-> TRUE, value |-> ""]

\* up to three definitions that use each other in any way
Webs == BoundedSeq([id : {"", "s", "t"}, use : {"", "s", "t"}, register : BOOLEAN, value : Own], 3)

\* a chain of templates, with a value at any of its links
Chains ==
  {[i \in 1 .. Len(Chain) |->
      Host(Chain[i], IF i = Len(Chain) THEN "" ELSE Chain[i + 1], i = 1, value[i])] :
     value \in [1 .. Len(Chain) -> Own]}

\* hosts and services as they come out of the inheritance, mistakes included
Flat ==
  [hosts : BoundedSeq({Host(id, "", TRUE, "v") : id \in HostIds}, 4),
   services : BoundedSeq({Service(id, host) : id \in ServiceIds, host \in HostIds \cup {"z"}}, 2)]

\* what editors change: two hosts, another one with a service, one of the two
Plain(ids) == [i \in DOMAIN ids |-> Host(ids[i], "", TRUE, "")]
First == [hosts |-> Plain(<< "b", "a" >>), services |-> << >>]
Second == [hosts |-> Plain(<< "c" >>), services |-> << Service("p", "a") >>]
Changing == {First, Second, [hosts |-> Plain(<< "a" >>), services |-> << >>]}

\* files to start from, of all that Fleet allows
Among(contents, schedulers) == files \in contents /\ n \in schedulers /\ Unpushed
Alone(defs) == {<< cfg >> : cfg \in defs}

MCInit ==
  \/ Among(Alone([hosts : Webs \cup Chains, services : {<< >>}]), {1})
  \/ Among(Alone(Flat), 1 .. MaxN)
  \/ Among({<< First, Second >>}, {2})

MCSpec == MCInit /\ [][Next]_vars

\* bound: only the two files are edited and read, with a second edit while one refresh
\* is under way, or with two refreshes after one edit
Explored ==
  /\ Len(files) = 2
  /\ edits + Cardinality({r \in Refreshers : refresh[r] # Unread}) <= 3

Alike == Permutations(Refreshers)
=============================================================================
