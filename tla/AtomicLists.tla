---------------------------- MODULE AtomicLists ----------------------------
(***************************************************************************)
(* What every editor of the allowlist is promised, whichever context it    *)
(* runs in: an edit, once asked for, happens at one instant, to the list   *)
(* as it is at that instant, or not at all; and nothing else changes the   *)
(* list.  A list is a set here: its order means nothing to the cleaner.    *)
(***************************************************************************)
EXTENDS Naturals

CONSTANT Entry

VARIABLES
    list,    \* the stored allowlist
    legacy,  \* sites still marked ::disabled in the blacklist
    asked    \* edits asked for and not yet settled

vars == <<list, legacy, asked>>

Edit == [id : Nat, kind : {"add", "remove"}, entry : Entry]
        \cup [id : Nat, kind : {"migrate"}]

Init == list \in SUBSET Entry /\ legacy \in SUBSET Entry /\ asked = {}

Ask ==
    /\ asked \subseteq asked'
    /\ \A e \in asked' \ asked : e \in Edit
    /\ UNCHANGED <<list, legacy>>

Settle(e) == e \in asked /\ asked' = asked \ {e}

Add(e) ==
    /\ e.kind = "add" /\ Settle(e)
    /\ list' = list \cup {e.entry}
    /\ UNCHANGED legacy

Remove(e) ==
    /\ e.kind = "remove" /\ Settle(e)
    /\ list' = list \ {e.entry}
    /\ UNCHANGED legacy

\* The per-site pauses of an older release become allowlist entries.
Migrate(e) ==
    /\ e.kind = "migrate" /\ Settle(e)
    /\ list' = list \cup legacy /\ legacy' = {}

GiveUp(e) == Settle(e) /\ UNCHANGED <<list, legacy>>

\* The popup's pause button: nothing is queued.
Toggle(e) ==
    /\ list' = IF e \in list THEN list \ {e} ELSE list \cup {e}
    /\ UNCHANGED <<legacy, asked>>

Next ==
    \/ Ask
    \/ \E e \in Entry : Toggle(e)
    \/ \E e \in asked : Add(e) \/ Remove(e) \/ Migrate(e) \/ GiveUp(e)

Spec == Init /\ [][Next]_vars
=============================================================================
