---------------------------- MODULE MCSaveStates ----------------------------
EXTENDS SaveStates, FiniteSets

OldFile(kind, counter, mtime, moment) ==
  [kind |-> kind, stored |-> kind = "raw", counter |-> counter, mtime |-> mtime,
   moment |-> moment]

(* No states; one of gpSP's; two of the first QoL build's, whose times do  *)
(* not follow their counters because the clock was reset between them.     *)
Disks ==
  {[s \in Slots |-> NoFile],
   [s \in Slots |-> IF s = 1 THEN OldFile("raw", 0, 1, 1) ELSE NoFile],
   [s \in Slots |-> CASE s = 0 -> OldFile("uncounted", 2, 1, 2)
                      [] s = 1 -> OldFile("uncounted", 1, 2, 1)
                      [] OTHER -> NoFile]}

=============================================================================
