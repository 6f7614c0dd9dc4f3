----------------------------- MODULE SharedInput ----------------------------
(***************************************************************************)
(* What netplay promises the emulators it connects: one input stream per   *)
(* player, shared by everybody.  A player appends to their own stream.  An *)
(* emulator that executes frame n is given the n-th input of every player, *)
(* and only once all of them exist.  There are no queues, packets or       *)
(* acknowledgements here: NetLockstep is shown to implement this module.   *)
(***************************************************************************)
EXTENDS Integers, Sequences

CONSTANTS
  Client,    \* the connected players
  Element    \* the inputs a player can press

VARIABLES
  input,     \* input[p]: the stream of player p
  played     \* played[c]: the inputs given to the emulator of c, per frame

vars == <<input, played>>

-----------------------------------------------------------------------------
Empty == [c \in Client |-> << >>]

Init == input = Empty /\ played = Empty

\* t continues s.
Continues(t, s) ==
  /\ Len(s) <= Len(t)
  /\ \A i \in 1 .. Len(s) : t[i] = s[i]

\* The n-th input of every player.
Frame(n) == [p \in Client |-> input[p][n]]

\* Player c presses, possibly several times, possibly not at all.
Press(c) ==
  /\ DOMAIN input' = Client
  /\ Continues(input'[c], input[c])
  /\ \A d \in Client \ {c} : input'[d] = input[d]

\* The emulator of c executes its next frame.
Play(c) ==
  /\ \A p \in Client : Len(played[c]) < Len(input[p])
  /\ played' = [played EXCEPT ![c] = Append(@, Frame(Len(@) + 1))]

\* One pass of the main loop of c: a frame if it can be played, and input.
Turn(c) ==
  /\ Press(c)
  /\ Play(c) \/ played' = played

\* Another game starts.
Restart == input' = Empty /\ played' = Empty

Next == Restart \/ \E c \in Client : Turn(c)

Spec == Init /\ [][Next]_vars
=============================================================================
