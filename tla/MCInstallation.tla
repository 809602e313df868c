--------------------------- MODULE MCInstallation ---------------------------
(* Installation on a small instance.                                          *)
EXTENDS Installation, TLC

Symmetry == Permutations(Installers) \cup Permutations(Versions)

\* One installer and all runs, or two installers and fewer of them.
Alone == runs = 0 /\ \E i \in Installers : pc = [j \in Installers |-> IF j = i THEN "idle" ELSE "ended"]
Together ==
  /\ \A i \in Installers : pc[i] = "idle"
  /\ runs = IF {mode[i] : i \in Installers} = {"qualified"} THEN MaxRuns - 2 ELSE MaxRuns - 1
InstallationInit == Init /\ (Alone \/ Together)
InstallationSpec == InstallationInit /\ [][Next]_vars
=============================================================================
