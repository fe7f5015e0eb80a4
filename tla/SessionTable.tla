---------------------------- MODULE SessionTable ----------------------------
(***************************************************************************)
(* The C lane's table of pending handshakes (c/src/store/session_table.c): *)
(* a fixed array of slots that are FREE, RESERVED by a worker that is still*)
(* verifying the opening packet, or hold a pending SETUP or AUTH session.  *)
(* The table does no locking; its callers do.                              *)
(*                                                                         *)
(* A pending session is what the server copied from the opening packet and *)
(* the nonce (with challenge or ephemeral key) it drew for the answer.     *)
(***************************************************************************)
EXTENDS Integers

CONSTANTS
    Opening,  \* SETUP_1 and AUTH_1 packets: records with fields t and sid
    NoOpen,   \* content of a slot that holds no session (zero bytes)
    TabCap    \* AUTH_SESSION_TABLE_CAPACITY, 64 in the build

ASSUME TabCapAssumption == TabCap \in Nat \ {0}
ASSUME NoOpenAssumption == NoOpen \notin Opening

SlotIndex == 0..TabCap-1
SlotState == {"FREE", "RESERVED", "SETUP", "AUTH"}
Slot == [state : SlotState, open : Opening \cup {NoOpen}, nonce : Nat]

FreeSlot == [state |-> "FREE", open |-> NoOpen, nonce |-> 0]
ReservedSlot == [state |-> "RESERVED", open |-> NoOpen, nonce |-> 0]

\* auth_session_table_init: every byte zero.
TableInit == [i \in SlotIndex |-> FreeSlot]

TableFull(t) == \A i \in SlotIndex : t[i].state # "FREE"

\* Mutant: any slot that is not reserved is taken for free.
ReserveReturnsActive(t, i) ==
    /\ t[i].state # "RESERVED"
    /\ \A j \in 0..i-1 : t[j].state = "RESERVED"

\* auth_session_table_reserve returns i: the first free slot.
ReserveReturns(t, i) ==
    /\ t[i].state = "FREE"
    /\ \A j \in 0..i-1 : t[j].state # "FREE"

TableReserve(t, i) == [t EXCEPT ![i] = ReservedSlot]

\* auth_session_table_activate_setup / _auth: only a reserved slot can be
\* promoted.
ActivateOK(t, i) == t[i].state = "RESERVED"
TableActivate(t, i, st, o, nonce) ==
    [t EXCEPT ![i] = [state |-> st, open |-> o, nonce |-> nonce]]

\* auth_session_table_find_setup / _auth: the first active slot of kind st
\* with that session id, reserved slots excluded.
Holds(t, i, st, sid) == t[i].state = st /\ t[i].open.sid = sid
FindReturns(t, i, st, sid) ==
    /\ Holds(t, i, st, sid)
    /\ \A j \in 0..i-1 : ~Holds(t, j, st, sid)
FindFails(t, st, sid) == \A i \in SlotIndex : ~Holds(t, i, st, sid)

\* auth_session_table_release: whatever the state of the slot.
TableRelease(t, i) == [t EXCEPT ![i] = FreeSlot]
=============================================================================
