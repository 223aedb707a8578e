-------------------------- MODULE MC_MetadataCache --------------------------
(* Instances of MetadataCache for TLC. *)
EXTENDS MetadataCache, TLC

CONSTANTS c1, c2, s1, s2

OneClient == {c1}
TwoClients == {c1, c2}
OneStore == {s1}
TwoStores == {s1, s2}
NoGeneration == {}
SecondGeneration == {1}
NoRefresh == {FALSE}
AnyRefresh == BOOLEAN
RemoteRoot == {TRUE}
AnyRoot == BOOLEAN
ClientSymmetry == Permutations(Clients)

\* Two clients share the first store of a remote root until there was a second rewrite.  One at
\* a time is at work on a local root, on the store that the configuration leads to later, and after
\* the second rewrite.
OneAfterSwitch ==
    [r \in BOOLEAN |-> [n \in 0..MaxSwitches |-> [k \in 0..MaxRewrites |->
       IF r /\ n = 0 /\ k <= 1 THEN 2 ELSE 1]]]
=============================================================================
