----------------------------- MODULE MailConfig -----------------------------
(***************************************************************************)
(* How the settings of the e-mail notifications come about: the [email]    *)
(* block of the scenario, the --mail-config file and the command line are  *)
(* merged field by field (internal/mail/merge.go, config.go, and           *)
(* buildOverrides and wantsEmail in cmd/loadtest/email.go).                *)
(*                                                                         *)
(* A configuration maps every field to the set of what it holds; the empty *)
(* set is Go's zero value, "not set".  A switch that is on holds "yes".    *)
(* Trigger names stand for themselves after strings.ToLower and TrimSpace. *)
(***************************************************************************)
EXTENDS Integers

CONSTANT EnvPass  \* what $LOADTEST_SMTP_PASS holds, {} if it is not set

Switches == {"enabled", "attach_log"}
Lists == {"on", "to", "cc", "bcc"}
Texts == {"smtp_host", "smtp_port", "smtp_user", "smtp_pass", "from", "subject",
          "template", "template_file", "template_html", "template_file_html",
          "send_timeout"}
Fields == Switches \cup Lists \cup Texts \cup {"report_interval"}

Yes == {"yes"}
NotSet == [f \in Fields |-> {}]

TriggerNames == {"start", "progress", "done", "error"}

\* The switches of a file count only when one of these is set.
IsFilePopulated(src) ==
  \E f \in {"smtp_host", "from", "to", "cc", "bcc", "subject", "template",
            "template_file", "smtp_user"} : src[f] # {}

\* The file overrides the scenario, but its cadence is only a fallback.
MergeFromFile(dst, src) ==
  [f \in Fields |->
    CASE f \in Switches          -> IF IsFilePopulated(src) THEN src[f] ELSE dst[f]
      [] f = "report_interval"   -> IF dst[f] = {} THEN src[f] ELSE dst[f]
      [] OTHER                   -> IF src[f] # {} THEN src[f] ELSE dst[f]]

\* The flags that were typed, as a function of them; --no-mail and
\* --mail-enabled drive one field, and --no-mail wins.
BuildOverrides(typed) ==
  LET switch == DOMAIN typed \cap {"no_mail", "enabled"}
      others == DOMAIN typed \ {"no_mail", "enabled"}
  IN [f \in others \cup (IF switch = {} THEN {} ELSE {"enabled"}) |->
       IF f = "enabled" /\ "no_mail" \in DOMAIN typed THEN Yes \ typed["no_mail"]
                                                     ELSE typed[f]]

\* A typed flag counts even when it is empty, unless it is a list or the time
\* limit.
MergeFromOverrides(dst, o) ==
  [f \in Fields |->
    IF f \in DOMAIN o /\ (f \in Lists \cup {"send_timeout"} => o[f] # {})
    THEN o[f] ELSE dst[f]]

ApplyDefaults(c) ==
  [f \in Fields |->
    IF c[f] = {} /\ f \in {"from", "subject", "smtp_port"} THEN {"default"} ELSE c[f]]

Merge(scenario, file, o) ==
  LET out == MergeFromOverrides(MergeFromFile(scenario, file), o)
  IN ApplyDefaults([out EXCEPT !["smtp_pass"] = IF @ = {} THEN EnvPass ELSE @])

HasRecipient(c) == c["to"] \cup c["cc"] \cup c["bcc"] # {}

Addressed(c) == c["smtp_host"] # {} /\ c["from"] # {} /\ HasRecipient(c)

\* Looks at the triggers alone.
Valid_Anonymous(c) ==
  c["enabled"] = Yes /\ "progress" \in c["on"] => c["report_interval"] # {}

Valid(c) ==
  c["enabled"] = Yes =>
    /\ Addressed(c)
    /\ c["on"] \subseteq TriggerNames
    /\ "progress" \in c["on"] => c["report_interval"] # {}

Triggers(c) == IF c["on"] = {} THEN {"done", "error"} ELSE c["on"]
FiresOn(c, event) == event \in Triggers(c)

\* The body templates; a file wins over the inline text.
TextBody(c) == IF c["template_file"] # {} THEN c["template_file"] ELSE c["template"]
HtmlBody(c) ==
  IF c["template_file_html"] # {} THEN c["template_file_html"] ELSE c["template_html"]

\* A body file that cannot be read ends the wiring, a body that fails to
\* execute ends every send.
BodiesResolve(c) == "missing" \notin c["template_file"] \cup c["template_file_html"]
RenderFails(c) == "broken" \in TextBody(c) \cup HtmlBody(c)

\* The flags that tell the user wants mail when --mail-config cannot be read.
WantsEmail(scenario, o, merged) ==
  IF scenario["enabled"] = Yes \/ merged["enabled"] = Yes THEN TRUE
  ELSE IF "enabled" \in DOMAIN o THEN o["enabled"] = Yes
  ELSE \/ \E f \in DOMAIN o \cap Lists : o[f] # {}
       \/ DOMAIN o \cap {"from", "subject", "smtp_host", "smtp_port", "smtp_user",
                         "smtp_pass", "template", "template_file", "attach_log"} # {}
=============================================================================
