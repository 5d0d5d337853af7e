----------------------------- MODULE MCNetwork ------------------------------
(* Network with two radios, two devices and two threads.                    *)
EXTENDS Network, TLC

CONSTANTS r1, r2, m1, m2, home, isp, free

MCBandOf == r1 :> "2g" @@ r2 :> "5g"
\* One network on both bands and one on a band no radio has.
MCAir == {[ssid |-> "cafe", band |-> "2g", signal |-> 1], [ssid |-> "cafe", band |-> "5g", signal |-> 2],
          [ssid |-> "attic", band |-> "6g", signal |-> 1]}
MCCandidates == <<<<home, 1>>, <<free, 1>>>>
\* One good form, one whose range does not fit, one of a smaller subnet.
MCForms == {[ip |-> <<free, 2>>, mask |-> 24, start |-> 2, limit |-> 5],
            [ip |-> <<home, 1>>, mask |-> 25, start |-> 2, limit |-> 3]}
\* The provider gives an address of the home network's subnet, or of another one.
MCLeases == {[ip |-> <<home, 2>>, mask |-> 24], [ip |-> <<isp, 2>>, mask |-> 24]}
Symmetry == Permutations(Worker) \cup Permutations(Mac)
=============================================================================
