---------------------------- MODULE TelemetryLog ----------------------------
(***************************************************************************)
(* What the ingest service promises of every sample it takes: the sample   *)
(* is settled once, as stored or as lost, and stored samples reach the     *)
(* table in the order they were taken.  fate[i] is the fate of the i-th    *)
(* sample.  Nothing is promised about which samples are lost.  A WebSocket *)
(* session promises the same of the messages Redis pushes ("stored" then   *)
(* means sent).                                                            *)
(***************************************************************************)
EXTENDS Naturals, Sequences

VARIABLE fate

Init == fate = <<>>

(* Samples are taken; a full buffer may lose some of them at once, and     *)
(* some older ones.                                                        *)
Take ==
  /\ Len(fate') > Len(fate)
  /\ \A i \in 1..Len(fate') :
       IF i <= Len(fate)
       THEN \/ fate'[i] = fate[i]
            \/ fate[i] = "pending" /\ fate'[i] = "lost"
       ELSE fate'[i] \in {"pending", "lost"}

(* Pending samples are settled; those stored follow every stored one. *)
Settle ==
  /\ Len(fate') = Len(fate)
  /\ \A i \in 1..Len(fate) :
       \/ fate'[i] = fate[i]
       \/ fate[i] = "pending" /\ fate'[i] \in {"stored", "lost"}
  /\ \A i, j \in 1..Len(fate) :
       /\ fate[i] = "stored"
       /\ fate[j] = "pending"
       /\ fate'[j] = "stored"
       => i < j

Next == Take \/ Settle

Spec == Init /\ [][Next]_fate
=============================================================================
