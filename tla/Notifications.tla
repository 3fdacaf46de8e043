---------------------------- MODULE Notifications ----------------------------
(***************************************************************************)
(* The messages about a scheduled report (scheduler/main.py:127-167): an   *)
(* email and a message to a WeCom webhook, each sent by a background task  *)
(* that tries once more after a pause (api/services/email_report_service,  *)
(* wecom_notification_service).  The settings are read once, when the      *)
(* report is ready; the user may change them meanwhile.  The mail server   *)
(* and the webhook may fail before or after they took the message.         *)
(***************************************************************************)
EXTENDS Naturals

CONSTANTS
  Notices,     \* reports of scheduled runs, each notified once
  MaxChanges   \* bound: changes of the settings

ASSUME NoticesAssumption == MaxChanges \in Nat

Channels == {"email", "wecom"}

VARIABLES
  settings,    \* channel -> the user wants it (and has given a webhook)
  changes,     \* how often he has changed his mind
  messages,    \* notice -> channel -> the local state of its task
  delivered,   \* notice -> channel -> messages that arrived
  restarted    \* history: the scheduler process ended meanwhile

noticeVars == <<settings, changes, messages, delivered, restarted>>

Fate == [pc : {"none", "first", "pause", "retry", "sent", "failed", "raised", "lost"}, unclear : BOOLEAN]

NoticeTypeOK ==
  /\ settings \in [Channels -> BOOLEAN]
  /\ changes \in 0 .. MaxChanges
  /\ messages \in [Notices -> [Channels -> Fate]]
  /\ delivered \in [Notices -> [Channels -> 0 .. 2]]
  /\ restarted \in BOOLEAN

NoticeInit ==
  /\ settings \in [Channels -> BOOLEAN]
  /\ changes = 0
  /\ messages = [n \in Notices |-> [c \in Channels |-> [pc |-> "none", unclear |-> FALSE]]]
  /\ delivered = [n \in Notices |-> [c \in Channels |-> 0]]
  /\ restarted = FALSE

\* _send_scheduled_report_notifications starts a task for each wanted channel.
ReportReady(n) ==
  /\ \A c \in Channels : messages[n][c].pc = "none"
  /\ \E c \in Channels : settings[c]
  /\ messages' = [messages EXCEPT ![n] =
       [c \in Channels |-> IF settings[c] THEN [pc |-> "first", unclear |-> FALSE] ELSE @[c]]]
  /\ UNCHANGED <<settings, changes, delivered, restarted>>

\* What the sender may learn of one attempt, and whether the message arrived.
\* The email is rendered, and its port read, outside the try block: that
\* raises.  Everything the webhook call raises is caught.
Attempts(c) ==
  {[ok |-> TRUE, arrived |-> TRUE, raised |-> FALSE],
   [ok |-> FALSE, arrived |-> TRUE, raised |-> FALSE],
   [ok |-> FALSE, arrived |-> FALSE, raised |-> FALSE]}
    \cup (IF c = "email" THEN {[ok |-> FALSE, arrived |-> FALSE, raised |-> TRUE]} ELSE {})

\* Variant: a second attempt follows in any case.
Send_AlwaysTwice(n, c) ==
  /\ messages[n][c].pc \in {"first", "retry"}
  /\ \E a \in Attempts(c) :
       /\ messages' = [messages EXCEPT ![n][c] =
            [pc |-> IF @.pc = "first" THEN "pause" ELSE "sent", unclear |-> ~a.ok /\ a.arrived]]
       /\ delivered' = [delivered EXCEPT ![n][c] = @ + (IF a.arrived THEN 1 ELSE 0)]
  /\ UNCHANGED <<settings, changes, restarted>>

\* One attempt of send_report_email or send_message.
Send(n, c) ==
  /\ messages[n][c].pc \in {"first", "retry"}
  /\ \E a \in Attempts(c) :
       /\ messages' = [messages EXCEPT ![n][c] =
            [pc |-> CASE a.ok -> "sent"
                      [] a.raised -> "raised"
                      [] OTHER -> IF @.pc = "first" THEN "pause" ELSE "failed",
             unclear |-> @.unclear \/ (~a.ok /\ a.arrived)]]
       /\ delivered' = [delivered EXCEPT ![n][c] = @ + (IF a.arrived THEN 1 ELSE 0)]
  /\ UNCHANGED <<settings, changes, restarted>>

\* 180 seconds for the email, 15 for the webhook.
PauseEnds(n, c) ==
  /\ messages[n][c].pc = "pause"
  /\ messages' = [messages EXCEPT ![n][c].pc = "retry"]
  /\ UNCHANGED <<settings, changes, delivered, restarted>>

ChangeSettings(c) ==
  /\ changes < MaxChanges
  /\ changes' = changes + 1
  /\ settings' = [settings EXCEPT ![c] = ~@]
  /\ UNCHANGED <<messages, delivered, restarted>>

\* The scheduler ends; its tasks are kept nowhere.
SchedulerEnds ==
  /\ ~restarted /\ restarted' = TRUE
  /\ messages' = [n \in Notices |-> [c \in Channels |->
       IF messages[n][c].pc \in {"first", "pause", "retry"} THEN [messages[n][c] EXCEPT !.pc = "lost"]
       ELSE messages[n][c]]]
  /\ UNCHANGED <<settings, changes, delivered>>

NoticeNext ==
  \/ \E n \in Notices : \/ ReportReady(n)
                        \/ \E c \in Channels : Send(n, c) \/ PauseEnds(n, c)
  \/ \E c \in Channels : ChangeSettings(c)
  \/ SchedulerEnds

NoticeSpec == NoticeInit /\ [][NoticeNext]_noticeVars

-----------------------------------------------------------------------------
(* A report reaches a user twice on a channel only when the answer to the   *)
(* first attempt was lost, and not at all only when two attempts failed,    *)
(* the email could not be made, or the scheduler ended: whatever happens to *)
(* the settings meanwhile (email_report_service.py:469-483,                 *)
(* wecom_notification_service.py:114-133).                                  *)
OnceUnlessExcused ==
  \A n \in Notices, c \in Channels :
    LET task == messages[n][c]
    IN  /\ delivered[n][c] > 1 => task.unclear
        /\ delivered[n][c] = 0 =>
             \/ task.pc \in {"none", "first", "pause", "retry", "failed"}
             \/ task.pc = "raised" /\ c = "email"
             \/ task.pc = "lost" /\ restarted
=============================================================================
