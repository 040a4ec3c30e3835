-------------------------------- MODULE Mail --------------------------------
(***************************************************************************)
(* Layers of mail settings for the model checker.                          *)
(***************************************************************************)
EXTENDS MailNotify

\* A configuration with these fields and no others.
With(set) == [f \in Fields |-> IF f \in DOMAIN set THEN set[f] ELSE {}]

AllTriggers ==
  With([enabled |-> Yes, smtp_host |-> {"relay"}, smtp_user |-> {"u"}, smtp_pass |-> {"p"},
        to |-> {"a"}, on |-> {"progress","done","error"}, report_interval |-> {"5m"}])
NoRecipient == With([enabled |-> Yes, smtp_host |-> {"relay"}, on |-> {"progress"}])

Shared == With([enabled |-> Yes, smtp_host |-> {"localhost"}, cc |-> {"b"},
                report_interval |-> {"1m"}])
SharedOff == With([smtp_host |-> {"relay"}, template |-> {"broken"}])

Found(scenario, file, fileErr, typed) ==
  [scenario |-> scenario, file |-> file, fileErr |-> fileErr, typed |-> typed]

TypedFlags ==
  {<<>>, [no_mail |-> Yes], [no_mail |-> {}, on |-> {"done"}],
   [enabled |-> Yes, to |-> {}], [enabled |-> Yes, no_mail |-> Yes],
   [template_file |-> {"missing"}]}

Headless(set) == {[mode |-> "headless", found |-> f] : f \in set}
Tui(set) == {[mode |-> "tui", found |-> f] : f \in set}

\* One scenario that mails about its progress and its end.
Verbose == {Found(AllTriggers, NotSet, FALSE, <<>>)}

VerboseTui == Tui(Verbose)

MCSetups ==
  Headless(
    {Found(s, f, FALSE, t) :
       s \in {NotSet, AllTriggers, NoRecipient}, f \in {NotSet, Shared, SharedOff},
       t \in TypedFlags}
    \cup {Found(s, NotSet, TRUE, t) : s \in {NotSet, AllTriggers}, t \in TypedFlags})
  \cup VerboseTui
=============================================================================
