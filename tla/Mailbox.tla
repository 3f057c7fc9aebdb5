------------------------------- MODULE Mailbox -------------------------------
(***************************************************************************)
(* What signal_emit_from_thread_full promises to the plugins: a mailbox in *)
(* front of the GUI thread.  A signal posted by any thread is taken once,  *)
(* and signals are taken in the order in which they were posted.           *)
(***************************************************************************)
EXTENDS Naturals

CONSTANT Messages   \* Nat: identities of the posted signals, in posting order

VARIABLES box,      \* posted and not yet taken
          taken     \* those taken so far

Init == box = {} /\ taken = {}

Post == \E m \in Messages :
            /\ \A n \in box \cup taken : n < m
            /\ box' = box \cup {m}
            /\ UNCHANGED taken

Take == \E m \in box :
            /\ \A n \in box : m <= n
            /\ box' = box \ {m}
            /\ taken' = taken \cup {m}

Next == Post \/ Take

Spec == Init /\ [][Next]_<<box, taken>>
=============================================================================
