-------------------------- MODULE ReplayContinuity --------------------------
(***************************************************************************)
(* The replay continuity gate (c/src/store/replay_continuity.c) in front   *)
(* of a replay cache whose content is saved from time to time.  Its owner  *)
(* is not in c/src: it saves the cache, reports a restart and then what it *)
(* found of the saved window, and asks the gate before it admits an AUTH   *)
(* input.  The gate's state outlives the process.  The saved window may be *)
(* missing, corrupt, older than the last one saved, or the last one saved  *)
(* and still older than the last accepted key.                             *)
(***************************************************************************)
EXTENDS ReplayRing

CONSTANTS
    MaxAccepted,  \* bound on the keys accepted
    MaxRestarts   \* bound on the restarts

ASSUME ContinuityBounds == MaxAccepted \in Nat /\ MaxRestarts \in Nat

VARIABLES
    continuity,  \* auth_replay_continuity_t.state
    ring,        \* the replay cache
    saved,       \* the window in storage
    intact,      \* what happened to it: "ok", "missing", "corrupt", "stale"
    current,     \* no key was accepted since the window in storage was taken
    accepted,    \* history: every key accepted, over all restarts
    restarts

vars == <<continuity, ring, saved, intact, current, accepted, restarts>>

ContinuityState == {"TRUSTED", "RESTORING", "CONTINUITY_BROKEN"}
Event == {"RESTART", "RESTORED_TRUSTED_WINDOW", "RESTORE_MISSING", "RESTORE_CORRUPT",
          "RESTORE_STALE", "ROLLBACK_SUSPECTED", "EMPTY_CACHE_RESET",
          "FRESH_OUTER_SESSION", "FAILED_AUTH"}

\* auth_replay_continuity_init, with the state the owner starts from.
ContinuityInit == continuity = "TRUSTED"

\* Mutant: an empty cache counts as a new window.
ApplyReset(state, event) ==
    CASE state = "TRUSTED" /\ event = "RESTART" -> "RESTORING"
      [] state = "RESTORING" /\ event = "RESTORED_TRUSTED_WINDOW" -> "TRUSTED"
      [] state = "RESTORING" /\ event \in {"RESTORE_MISSING", "RESTORE_CORRUPT", "RESTORE_STALE",
                                           "ROLLBACK_SUSPECTED"} -> "CONTINUITY_BROKEN"
      [] state = "CONTINUITY_BROKEN" /\ event = "EMPTY_CACHE_RESET" -> "TRUSTED"
      [] OTHER -> state
\* Mutant: a window that is only old is restored.
ApplyOld(state, event) ==
    CASE state = "TRUSTED" /\ event = "RESTART" -> "RESTORING"
      [] state = "RESTORING" /\ event \in {"RESTORED_TRUSTED_WINDOW", "RESTORE_STALE"} -> "TRUSTED"
      [] state = "RESTORING" /\ event \in {"RESTORE_MISSING", "RESTORE_CORRUPT",
                                           "ROLLBACK_SUSPECTED"} -> "CONTINUITY_BROKEN"
      [] OTHER -> state

\* auth_replay_continuity_apply: the state after the call.  Every other event
\* is refused or has no effect.
Apply(state, event) ==
    CASE state = "TRUSTED" /\ event = "RESTART" -> "RESTORING"
      [] state = "RESTORING" /\ event = "RESTORED_TRUSTED_WINDOW" -> "TRUSTED"
      [] state = "RESTORING" /\ event \in {"RESTORE_MISSING", "RESTORE_CORRUPT", "RESTORE_STALE",
                                           "ROLLBACK_SUSPECTED"} -> "CONTINUITY_BROKEN"
      [] OTHER -> state

\* The call returns 0.
ApplyOK(state, event) ==
    \/ Apply(state, event) # state
    \/ event = "FAILED_AUTH"
    \/ state = "CONTINUITY_BROKEN" /\ event \in {"EMPTY_CACHE_RESET", "FRESH_OUTER_SESSION"}

AuthAllowed(state) == state = "TRUSTED"

Init ==
    /\ ContinuityInit
    /\ ring = RingInit /\ saved = RingInit /\ intact = "ok" /\ current = TRUE
    /\ accepted = <<>> /\ restarts = 0

\* An AUTH input with replay key k.
Submit(k) ==
    /\ IF AuthAllowed(continuity) /\ ~RingContains(ring, k)
       THEN /\ Len(accepted) < MaxAccepted
            /\ ring' = RingInsert(ring, k)
            /\ accepted' = Append(accepted, k)
            /\ current' = FALSE
            /\ UNCHANGED continuity
       ELSE /\ continuity' = Apply(continuity, "FAILED_AUTH")
            /\ UNCHANGED <<ring, accepted, current>>
    /\ UNCHANGED <<saved, intact, restarts>>

Save ==
    /\ AuthAllowed(continuity)
    /\ saved' = ring /\ intact' = "ok" /\ current' = TRUE
    /\ UNCHANGED <<continuity, ring, accepted, restarts>>

\* The process restarts with an empty cache; storage may have suffered.
Restart(damage) ==
    /\ restarts < MaxRestarts /\ restarts' = restarts + 1
    /\ ring' = RingInit
    /\ intact' = IF damage = "none" THEN intact ELSE damage
    /\ continuity' = Apply(continuity, "RESTART")
    /\ UNCHANGED <<saved, current, accepted>>

\* What the owner reports of the window it finds.
Found == CASE intact = "missing" -> "RESTORE_MISSING"
           [] intact = "corrupt" -> "RESTORE_CORRUPT"
           [] intact = "stale" -> "ROLLBACK_SUSPECTED"
           [] OTHER -> IF current THEN "RESTORED_TRUSTED_WINDOW" ELSE "RESTORE_STALE"
Restore ==
    /\ continuity = "RESTORING"
    /\ continuity' = Apply(continuity, Found)
    /\ ring' = IF AuthAllowed(continuity') THEN saved ELSE ring
    /\ UNCHANGED <<saved, intact, current, accepted, restarts>>

\* The owner resets its cache, or sees a new outer session; it acts on neither
\* when the gate refuses the event.
OwnerEvent(event) ==
    /\ ApplyOK(continuity, event)
    /\ continuity' = Apply(continuity, event)
    /\ ring' = IF event = "EMPTY_CACHE_RESET" THEN RingInit ELSE ring
    /\ UNCHANGED <<saved, intact, current, accepted, restarts>>

Next ==
    \/ \E k \in Key : Submit(k)
    \/ Save \/ Restore
    \/ \E d \in {"none", "missing", "corrupt", "stale"} : Restart(d)
    \/ \E e \in {"EMPTY_CACHE_RESET", "FRESH_OUTER_SESSION"} : OwnerEvent(e)

Spec == Init /\ [][Next]_vars

-----------------------------------------------------------------------------
\* Types of the gate and of the caches around it.
ContinuityTypeOK ==
    /\ continuity \in ContinuityState
    /\ ring \in RingType /\ saved \in RingType
    /\ intact \in {"ok", "missing", "corrupt", "stale"} /\ current \in BOOLEAN
    /\ accepted \in Seq(Key) /\ restarts \in Nat

\* No key is accepted again while it is one of the Cap most recently accepted
\* ones, over any number of restarts, lost, damaged or outdated windows and
\* resets (auth_replay_continuity_apply and auth_replay_cache_insert together).
OncePerWindowOverRestarts ==
    \A i, j \in 1..Len(accepted) : i < j /\ j - i <= Cap => accepted[i] # accepted[j]

\* After a break no sequence of resets, new outer sessions, failed attempts
\* and restarts admits another AUTH input (auth_replay_continuity_apply).
BrokenIsFinal ==
    [][continuity = "CONTINUITY_BROKEN" =>
            continuity' = "CONTINUITY_BROKEN" /\ accepted' = accepted]_vars

\* The inductive strengthening: the cache answers for the whole history while
\* the gate is open, and so does the window in storage while it is current.
ContinuityInv ==
    /\ ContinuityTypeOK
    /\ AuthAllowed(continuity) => RingTracks(ring, accepted)
    /\ current => RingTracks(saved, accepted)
    /\ OncePerWindowOverRestarts
=============================================================================
