------------------------------- MODULE MCSms -------------------------------
(***************************************************************************)
(* An instance of the SMS plugin for TLC, in two parts: two messages under *)
(* way at once, and two dialogs open at once for numbers of two operators. *)
(***************************************************************************)
EXTENDS Sms, TLC

VARIABLES
    part         \* which of them

MCNetwork == [n \in Numbers |-> "orange"]
MCBoth    == ("50" :> "orange") @@ ("60" :> "era")

Dialogs == INSTANCE Sms WITH Numbers <- DOMAIN MCBoth, Network <- MCBoth,
                             MaxMessages <- MaxForms, MaxForms <- MaxMessages

MCInit == SmsInit /\ part \in {"messages", "dialogs"}

MCNext ==
    /\ UNCHANGED part
    /\ \/ part = "messages" /\ SmsNext
       \/ part = "dialogs" /\ Dialogs!SmsNext

MCSpec == MCInit /\ [][MCNext]_<<part, smsVars>>
=============================================================================
