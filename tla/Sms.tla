--------------------------------- MODULE Sms ---------------------------------
(***************************************************************************)
(* The SMS plugin (sms_gui.c, sms_core.c): dialogs of the GUI thread that  *)
(* share what is configured, a thread per message that talks to the page   *)
(* of an operator, and the picture of a token that Orange wants typed in,  *)
(* for which there is one file.                                            *)
(*                                                                         *)
(* External: the operators' pages, the external program, and the user.     *)
(*                                                                         *)
(* Not modelled: texts, encodings, the list of contacts (SavedLists), the  *)
(* unloading of the plugin.                                                *)
(***************************************************************************)
EXTENDS Naturals, Sequences

CONSTANTS
    Numbers,      \* phone numbers
    Network,      \* check_operator: the operator of each, "none" if it has none
    MaxMessages,  \* bound on the messages sent in a behaviour
    MaxForms,     \* bound on the dialogs open at once
    Tries         \* attempts at a page of Orange, 3 in the code

ASSUME SmsAssumption ==
    /\ Network \in [Numbers -> {"orange", "plus", "era", "none"}]
    /\ MaxMessages \in Nat /\ MaxForms \in Nat /\ Tries \in Nat \ {0}

VARIABLES
    number,       \* the variable "number" of the configuration, "" if unset
    external,     \* the variable "external"
    method,       \* how the plugin answers, for all messages
    forms,        \* open dialogs for a message, in the order they opened
    sent,         \* how many messages there were
    messages,     \* those not over, each with what its thread does next
    picture,      \* whose token the file shows, 0 if there is no file
    posted,       \* signals of the threads the GUI has not seen
    reports,      \* history: how the answers shown were given and asked for
    tokens        \* the dialogs for a token, with the message whose token is shown

smsVars == <<number, external, method, forms, sent, messages, picture, posted, reports,
            tokens>>

Ids           == DOMAIN messages
Set(m, s, n)  == messages' = [messages EXCEPT ![m].at = s, ![m].left = n]
Reaches(m, s) == Set(m, s, messages[m].left)
Over(m)       == messages' = [k \in Ids \ {m} |-> messages[k]]     \* SMS_free, or nobody knows it

(* A dialog knows what it says; "crossed" records that somebody changed a  *)
(* variable that its answer will be completed with.                        *)
Crossed(fs, kind) == [i \in DOMAIN fs |-> [fs[i] EXCEPT !.crossed = @ \/ fs[i].kind = kind]]
Form(kind, to, ext) == [kind |-> kind, to |-> to, ext |-> ext, crossed |-> FALSE]

Without(i) == [j \in 1..(Len(forms) - 1) |-> forms[IF j < i THEN j ELSE j + 1]]

-----------------------------------------------------------------------------
(* The GUI thread.                                                         *)

(* Mutant of SendToContact: the number is left to the answer.              *)
SendToContactUnset(c) ==
    /\ Len(forms) < MaxForms
    /\ forms' = Append(Crossed(forms, "contact"), Form("contact", c, FALSE))
    /\ UNCHANGED <<number, external, method, sent, messages, picture, posted, reports, tokens>>

(* sms_send_sms: the title names the contact, the number is configured.    *)
SendToContact(c) ==
    /\ Len(forms) < MaxForms
    /\ number' = c
    /\ forms' = Append(Crossed(forms, "contact"), Form("contact", c, FALSE))
    /\ UNCHANGED <<external, method, sent, messages, picture, posted, reports, tokens>>

(* "change status" is one of two buttons; the dialog asks for a number.    *)
SendButton(ext) ==
    /\ Len(forms) < MaxForms
    /\ external' = ext
    /\ forms' = Append(Crossed(forms, "button"), Form("button", "", ext))
    /\ UNCHANGED <<number, method, sent, messages, picture, posted, reports, tokens>>

UpdateConfig(ext) ==
    /\ ext # external /\ external' = ext
    /\ forms' = Crossed(forms, "button")
    /\ UNCHANGED <<number, method, sent, messages, picture, posted, reports, tokens>>

(* A new message and its thread.  "crowded" records that there was another *)
(* one under way before all was over.                                      *)
CrowdedNow == [m \in Ids |-> [messages[m] EXCEPT !.crowded = TRUE]]

Created(to, ext, num, way, how, crossed) ==
    /\ sent < MaxMessages /\ sent' = sent + 1
    /\ messages' = [m \in Ids \cup {sent'} |->
                       IF m \in Ids THEN CrowdedNow[m]
                       ELSE [to |-> to, ext |-> ext, number |-> num, external |-> way, asked |-> how,
                             crossed |-> crossed, crowded |-> Ids # {}, at |-> "starts", left |-> Tries]]

(* Mutant of NewMessage: the plugin answers as it did last.                *)
NewMessageAnswered(to, ext, num, way, how, crossed) ==
    /\ method' = IF method = "none" THEN how ELSE method
    /\ Created(to, ext, num, way, how, crossed)

NewMessage(to, ext, num, way, how, crossed) ==
    /\ method' = how
    /\ Created(to, ext, num, way, how, crossed)

(* "sms send": what the dialog has no entry for is configured.  The way of *)
(* sending is put back afterwards.                                         *)
Answer(i) ==
    /\ forms[i].kind = "contact"
    /\ \E way \in BOOLEAN :
          NewMessage(forms[i].to, way, number, way, "popup", forms[i].crossed)
    /\ forms' = Without(i)
    /\ UNCHANGED <<number, external, picture, posted, reports, tokens>>

AnswerButton(i) ==
    /\ forms[i].kind = "button"
    /\ \E c \in Numbers \cup {""} :
          /\ number' = c
          /\ forms' = Crossed(Without(i), "contact")
          /\ NewMessage(c, forms[i].ext, c, external, "popup", forms[i].crossed)
    /\ UNCHANGED <<external, picture, posted, reports, tokens>>

Cancel(i) ==
    /\ forms' = Without(i)
    /\ UNCHANGED <<number, external, method, sent, messages, picture, posted, reports, tokens>>

(* "send message": a message typed into a conversation.  Without a sender  *)
(* the preferences are shown instead.                                      *)
SendInChat(c) ==
    /\ \/ NewMessage(c, external, c, external, "chat", FALSE)
       \/ method' = "chat" /\ messages' = CrowdedNow /\ UNCHANGED sent
    /\ UNCHANGED <<number, external, forms, picture, posted, reports, tokens>>

(* The GUI shows what a thread has sent, and reads the file for a token.   *)
Shows ==
    /\ posted # <<>> /\ posted' = Tail(posted)
    /\ LET s == Head(posted) IN
          IF s.what = "token"
          THEN tokens' = tokens \cup {[msg |-> s.msg, shown |-> picture]} /\ UNCHANGED reports
          ELSE reports' = reports \cup {s.report} /\ UNCHANGED tokens
    /\ UNCHANGED <<number, external, method, forms, sent, messages, picture>>

(* "get token": a second thread, if the dialog was not cancelled.          *)
AnswerToken(t) ==
    /\ tokens' = tokens \ {t}
    /\ \E next \in {"removes", "complains"} : Reaches(t.msg, next)
    /\ UNCHANGED <<number, external, method, forms, sent, picture, posted, reports>>

CancelToken(t) ==
    /\ tokens' = tokens \ {t}
    /\ Over(t.msg)
    /\ UNCHANGED <<number, external, method, forms, sent, picture, posted, reports>>

-----------------------------------------------------------------------------
(* The threads.                                                            *)
OnlyThreads == UNCHANGED <<number, external, method, forms, sent, reports, tokens>>

(* sms_dialog_box: the answer goes where `method` says now.                *)
Says(m) ==
    /\ posted' = Append(posted, [what |-> "report",
                                 report |-> [how |-> method, asked |-> messages[m].asked,
                                             crowded |-> messages[m].crowded]])
    /\ Over(m)

Silently(m) == Over(m) /\ UNCHANGED posted

(* send_sms, up to the choice of an operator.  The external program says   *)
(* nothing.                                                                *)
Starts(m) ==
    /\ messages[m].at = "starts"
    /\ \/ Says(m)                         \* a field is missing
       \/ /\ messages[m].number \in Numbers
          /\ LET net == Network[messages[m].number] IN
                CASE net = "none"           -> Says(m)
                  [] messages[m].external   -> Silently(m)
                  [] net = "orange"         -> Reaches(m, "page") /\ UNCHANGED posted
                  [] OTHER                  -> Reaches(m, "sends") /\ UNCHANGED posted
    /\ OnlyThreads /\ UNCHANGED picture

(* send_PLUS, send_ERA: one request.  An error 0 of Era is not reported.   *)
Sends(m) ==
    /\ messages[m].at = "sends"
    /\ Says(m) \/ (Network[messages[m].number] = "era" /\ Silently(m))
    /\ OnlyThreads /\ UNCHANGED picture

(* A reply that is not "200 OK" is asked for again.                        *)
AsksAgain(m) ==
    /\ messages[m].left > 1
    /\ Set(m, messages[m].at, messages[m].left - 1) /\ UNCHANGED posted

(* send_ORANGE: the page, then the picture, either of which may fail.      *)
Page(m) ==
    /\ messages[m].at = "page"
    /\ Says(m) \/ AsksAgain(m) \/ (Set(m, "token", Tries) /\ UNCHANGED posted)
    /\ OnlyThreads /\ UNCHANGED picture

Token(m) ==
    /\ messages[m].at = "token"
    /\ Says(m) \/ AsksAgain(m) \/ (Reaches(m, "writes") /\ UNCHANGED posted)
    /\ OnlyThreads /\ UNCHANGED picture

Writes(m) ==
    /\ messages[m].at = "writes"
    /\ \/ Says(m) /\ UNCHANGED picture
       \/ Reaches(m, "asks") /\ picture' = m /\ UNCHANGED posted
    /\ OnlyThreads

(* ORANGE_logo                                                             *)
Asks(m) ==
    /\ messages[m].at = "asks"
    /\ posted' = Append(posted, [what |-> "token", msg |-> m])
    /\ Reaches(m, "waits")
    /\ OnlyThreads /\ UNCHANGED picture

(* send_ORANGE_stage2: the file goes first.                                *)
Removes(m) ==
    /\ messages[m].at \in {"removes", "complains"}
    /\ picture' = 0
    /\ IF messages[m].at = "complains" THEN Says(m)
       ELSE Set(m, "posts", Tries) /\ UNCHANGED posted
    /\ OnlyThreads

(* Three replies that are not "200 OK", and texts the plugin does not      *)
(* know, are not reported.                                                 *)
Posts(m) ==
    /\ messages[m].at = "posts"
    /\ Says(m) \/ AsksAgain(m) \/ Silently(m)
    /\ OnlyThreads /\ UNCHANGED picture

-----------------------------------------------------------------------------
SmsInit ==
    /\ number = "" /\ external \in BOOLEAN /\ method = "none"
    /\ forms = <<>> /\ sent = 0 /\ messages = <<>> /\ picture = 0
    /\ posted = <<>> /\ reports = {} /\ tokens = {}

Thread(m) ==
    \/ Starts(m) \/ Sends(m) \/ Page(m) \/ Token(m) \/ Writes(m) \/ Asks(m) \/ Removes(m) \/ Posts(m)

SmsNext ==
    \/ \E c \in Numbers : SendToContact(c) \/ SendInChat(c)
    \/ \E ext \in BOOLEAN : SendButton(ext) \/ UpdateConfig(ext)
    \/ \E i \in DOMAIN forms : Answer(i) \/ AnswerButton(i) \/ Cancel(i)
    \/ Shows
    \/ \E t \in tokens : AnswerToken(t) \/ CancelToken(t)
    \/ \E m \in Ids : Thread(m)

SmsSpec == SmsInit /\ [][SmsNext]_smsVars

-----------------------------------------------------------------------------
(***************************************************************************)
(* Properties.                                                             *)
(***************************************************************************)

(* A message goes to whom the title of its dialog names, in the way its    *)
(* button says, unless another dialog, or the preferences, changed what is *)
(* configured while it was open: the dialog of a contact has no entry for  *)
(* the number (sms_gui.c:155-157), that of a button none for the way       *)
(* (sms_gui.c:297-299).                                                    *)
SentAsTitled ==
    \A m \in Ids : ~messages[m].crossed =>
        messages[m].number = messages[m].to /\ messages[m].external = messages[m].ext

(* What the GUI shows of a message is its own and where it was sent from:  *)
(* the picture of its token, and its answer in a window or in the          *)
(* conversation; unless another message was under way, for there is one    *)
(* file (sms_gui.c:46) and one method (sms_gui.c:47) for all.              *)
AnswerFits ==
    /\ \A t \in tokens : ~messages[t.msg].crowded => t.shown = t.msg
    /\ \A r \in reports : ~r.crowded => r.how = r.asked
=============================================================================
