---------------------------- MODULE PhoneReading ----------------------------
(***************************************************************************)
(* What loading promises of a phonebook that changes under it.  A reading  *)
(* that ends has every contact it owes (and perhaps more); one that is     *)
(* given up has none.  It owes whoever was in the book when it began, less *)
(* those who were removed, and each removal may cost it one contact more:  *)
(* the one that moves up to a place it has passed.  A contact that is      *)
(* added costs it nothing.                                                 *)
(***************************************************************************)
CONSTANT Contacts

VARIABLES
    book,      \* the contacts in the phonebook
    reading,   \* a reading is under way
    owed,      \* the contacts it owes
    result     \* what the last reading gave

readingVars == <<book, reading, owed, result>>

Init == book \subseteq Contacts /\ reading = FALSE /\ owed = {} /\ result = {}

\* Nothing is owed by a backend that gives its first page again and again.
Begin ==
    /\ ~reading /\ reading'
    /\ owed' \in {book, {}}
    /\ result' = {}
    /\ UNCHANGED book

Add == \E c \in Contacts \ book :
    /\ book' = book \cup {c}
    /\ UNCHANGED <<reading, owed, result>>

Remove == \E c \in book, other \in Contacts :
    /\ book' = book \ {c}
    /\ owed' \in {owed \ {c}, owed \ {c, other}}
    /\ UNCHANGED <<reading, result>>

\* Another phone, or none.
Replace ==
    /\ book' \subseteq Contacts
    /\ owed' = {}
    /\ UNCHANGED <<reading, result>>

Finish ==
    /\ reading /\ ~reading'
    /\ owed \subseteq result' /\ result' \subseteq Contacts
    /\ UNCHANGED <<book, owed>>

\* The source is reported as failed; or the command is killed, perhaps later.
GiveUp ==
    /\ ~reading' /\ result' = {}
    /\ UNCHANGED <<book, owed>>

Next == Begin \/ Add \/ Remove \/ Replace \/ Finish \/ GiveUp

Spec == Init /\ [][Next]_readingVars
=============================================================================
