----------------------------- MODULE ContactBook -----------------------------
(***************************************************************************)
(* What the contact store of the client promises (spec 2 "ContactStore",  *)
(* I1, I2; I7 for remove_contact and a create_contact that succeeds),     *)
(* abstracting away the contact records, the key exchange and the         *)
(* conversations.                                                          *)
(*   book   the id each nickname names, or None                            *)
(*   saved  the book the state file holds                                  *)
(* A nickname is added under an id no other nickname holds, or removed.   *)
(* A removal is in the state file when the operation completes; an        *)
(* addition is too, unless the operation fails after the insertion (the   *)
(* code's createContact does, when the key exchange cannot be set up).    *)
(* Other operations may write the file without changing the book; a crash *)
(* rolls the book back to the file.                                        *)
(***************************************************************************)
CONSTANTS Names, Ids, None

VARIABLES book, saved

bookVars == <<book, saved>>

BookInit ==
    /\ book = [n \in Names |-> None]
    /\ saved = book

(* A new contact: a free nickname takes an id no nickname holds; saved.   *)
Add(n, id) ==
    /\ book[n] = None
    /\ \A x \in Names : book[x] # id
    /\ book' = [book EXCEPT ![n] = id]
    /\ saved' = book'

(* A new contact left in memory by a failed creation; not saved.        *)
AddUnsaved(n, id) ==
    /\ book[n] = None
    /\ \A x \in Names : book[x] # id
    /\ book' = [book EXCEPT ![n] = id]
    /\ UNCHANGED saved

(* A contact removed; saved.                                               *)
Remove(n) ==
    /\ book[n] # None
    /\ book' = [book EXCEPT ![n] = None]
    /\ saved' = book'

(* Another operation writes the state file.                               *)
SaveBook ==
    /\ saved' = book
    /\ UNCHANGED book

(* A crash: the next process starts from the state file.                  *)
RollbackBook ==
    /\ book' = saved
    /\ UNCHANGED saved

BookNext ==
    \/ \E n \in Names, id \in Ids : Add(n, id) \/ AddUnsaved(n, id)
    \/ \E n \in Names : Remove(n)
    \/ SaveBook
    \/ RollbackBook

BookSpec == BookInit /\ [][BookNext]_bookVars

=============================================================================
