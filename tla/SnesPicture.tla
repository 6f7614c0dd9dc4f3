----------------------------- MODULE SnesPicture ----------------------------
(***************************************************************************)
(* What the console core promises a program of the picture: every access   *)
(* to the PPU happens when the CPU makes it, and every line is drawn as    *)
(* the CPU comes to it.  There are no queues and nothing lags behind:      *)
(* SnesPPU is shown to implement this module.  What the PPU holds is given *)
(* by the operations on it so far, which determine it.                     *)
(***************************************************************************)
EXTENDS Naturals, Sequences

CONSTANTS
  PpuAccess,       \* the accesses a program can make
  PICTURE_LINES,   \* lines that are drawn (224)
  FRAME_LINES      \* lines of a frame (262)

VARIABLES
  line,        \* the line the CPU is in
  performed,   \* the operations on the PPU in this frame
  drawn        \* drawn[r]: how many of them line r was drawn after

vars == <<line, performed, drawn>>

Init ==
  /\ line = 0
  /\ performed = << >>
  /\ drawn = [r \in 1 .. PICTURE_LINES |-> 0]

Access(a) ==
  /\ performed' = Append(performed, a)
  /\ UNCHANGED <<line, drawn>>

NextLine ==
  /\ line + 1 < FRAME_LINES
  /\ line' = line + 1
  /\ drawn' = [r \in DOMAIN drawn |->
                 IF r = line + 1 THEN Len(performed) ELSE drawn[r]]
  /\ performed' = IF line = PICTURE_LINES THEN Append(performed, "EndFrame")
                                          ELSE performed

NextFrame ==
  /\ line + 1 = FRAME_LINES
  /\ line' = 0
  /\ performed' = << >>
  /\ UNCHANGED drawn

Next == NextFrame \/ NextLine \/ \E a \in PpuAccess : Access(a)

Spec == Init /\ [][Next]_vars
=============================================================================
