----------------------------- MODULE SpoolReader -----------------------------
(***************************************************************************)
(* What the receive pipeline of the client promises about its spool       *)
(* cursor (spec 3 "read spool descriptor", 4.4, P2, I5, I7), abstracting  *)
(* away contacts, conversations and the session.                          *)
(*   slots   ciphertexts in our remote spool (peers only append)           *)
(*   offset  the index of the next unread slot                             *)
(*   saved   the offset the state file holds                               *)
(* The cursor consumes one existing slot at a time; the state file may    *)
(* take the current offset at any step; a crash rolls the cursor back to *)
(* the saved offset.  Nothing else ever moves the cursor.                 *)
(***************************************************************************)
EXTENDS Naturals

VARIABLES slots, offset, saved

readerVars == <<slots, offset, saved>>

ReaderInit == slots = 0 /\ offset = 0 /\ saved = 0

(* A peer appends a ciphertext.                                           *)
Arrive ==
    /\ slots' = slots + 1
    /\ UNCHANGED <<offset, saved>>

(* The tip is read: the cursor passes one slot that exists, and the state *)
(* file may or may not be written in the same step.                       *)
Consume ==
    /\ offset < slots
    /\ offset' = offset + 1
    /\ saved' \in {saved, offset'}
    /\ UNCHANGED slots

(* The state file is written with the current cursor.                     *)
Save ==
    /\ saved' = offset
    /\ UNCHANGED <<slots, offset>>

(* A crash: the next process starts from the saved cursor.                *)
Rollback ==
    /\ offset' = saved
    /\ UNCHANGED <<slots, saved>>

ReaderNext == Arrive \/ Consume \/ Save \/ Rollback

ReaderSpec == ReaderInit /\ [][ReaderNext]_readerVars

=============================================================================
