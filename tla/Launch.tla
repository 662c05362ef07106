------------------------------ MODULE Launch ------------------------------
(***************************************************************************)
(* `omadex open` (cli.py:367-422, launch.py): which application is started *)
(* for a contact, and on which file.  The placeholders {email} and {path}  *)
(* of neomutt's and notmuch's commands are always filled: their rows have  *)
(* an address.                                                             *)
(***************************************************************************)
EXTENDS Adapters

CONSTANTS
    Applications,   \* the sources whose application is installed
    Matches(_, _),  \* a stem matches a stem, as the pattern rglob takes it for
    NoCard          \* no such file

OpensApplicationOnly == {"abook", "blueferry", "eds"}

\* Mutant of VcardFile: looks in the directory itself only.
VcardFileTop(m, stem) ==
    LET direct == {f \in m.files : f.stem = stem /\ f.collection = 0}
    IN IF direct = {} THEN NoCard ELSE CHOOSE f \in direct : TRUE

\* The card of that stem in the configured directory itself, or else the first
\* in or below it that the stem matches as a pattern.
VcardFile(m, stem) ==
    LET there == IF m.configured /\ m.exists THEN m.files ELSE {}
        direct == {f \in there : f.stem = stem /\ f.collection = 0}
        named == {f \in there : Matches(stem, f.stem)}
    IN IF direct # {} THEN CHOOSE f \in direct : TRUE
       ELSE IF named = {} THEN NoCard
       ELSE CHOOSE f \in named : \A g \in named : f.collection <= g.collection

\* LaunchError: the application, the path or the card is not there.
Refused(s, row, m) ==
    \/ s \notin Applications
    \/ s = "abook" /\ ~m.configured
    \/ s = "vdir" /\ VcardFile(m, row.id[1]) = NoCard

\* One that can jump to the contact beats one that is only started; names of
\* sources are in the order of `order`.  One row of each source stands for it.
Opened(choice, world, order) ==
    LET usable == {k \in DOMAIN order :
                       /\ order[k] \in DOMAIN choice
                       /\ ~Refused(order[k], choice[order[k]], world[order[k]])}
        rank(k) == k + (IF order[k] \in OpensApplicationOnly THEN Len(order) ELSE 0)
    IN {order[k] : k \in {k \in usable : \A other \in usable : rank(k) <= rank(other)}}
=============================================================================
