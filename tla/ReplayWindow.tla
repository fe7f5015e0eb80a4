---------------------------- MODULE ReplayWindow ----------------------------
(***************************************************************************)
(* What a replay cache of capacity Cap promises (spec/iot-profiles.md,     *)
(* section 4): a key is refused exactly when it is one of the Cap most     *)
(* recently accepted keys, a refused key consumes no room, and the window  *)
(* starts empty after the process restarts.  The state is the sequence of  *)
(* keys accepted since the process started and the last submitted key with *)
(* the verdict on it.                                                      *)
(***************************************************************************)
EXTENDS Naturals, Sequences

CONSTANTS
    Key,
    NoKey,
    Cap

VARIABLES
    accepted,  \* keys accepted since the process started, oldest first
    verdict    \* the last submitted key, and whether it was accepted

vars == <<accepted, verdict>>

Window == {accepted[i] : i \in {j \in 1..Len(accepted) : j + Cap > Len(accepted)}}

Init == accepted = <<>> /\ verdict = [key |-> NoKey, fresh |-> FALSE]

Submit(k) ==
    /\ verdict' = [key |-> k, fresh |-> k \notin Window]
    /\ accepted' = IF k \in Window THEN accepted ELSE Append(accepted, k)

Restart == accepted' = <<>> /\ UNCHANGED verdict

Next == Restart \/ \E k \in Key : Submit(k)

Spec == Init /\ [][Next]_vars
=============================================================================
