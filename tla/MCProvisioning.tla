--------------------------- MODULE MCProvisioning ---------------------------
(* Small instances of Provisioning for TLC.                                  *)
EXTENDS ProvisioningProperties, TLC

NoTexts == {}

\* What a partial edited by hand may hold: nothing; one peer, at a host or at
\* the broadcast address; two peers with one address.
Texts ==
    {{}} \cup {{[key |-> k, addr |-> h]} : k \in Key, h \in {Network + 1, Broadcast}}
         \cup {[key : Key, addr : {Network + 1}]}

\* Partials edited by hand are told apart from the others.
Symmetry ==
    Permutations(Process) \cup Permutations(Key) \cup Permutations(File \ EditFile)
=============================================================================
