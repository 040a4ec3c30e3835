----------------------------- MODULE MCDashboard -----------------------------
(***************************************************************************)
(* Files and command lines for the model checker.                          *)
(***************************************************************************)
EXTENDS Dashboard

Scenario(ends, csv) ==
  [kind |-> "scenario", members |-> <<>>, builds |-> TRUE, compiles |-> TRUE,
   csv |-> csv, ends |-> ends]
Suite(members) == [Scenario(TRUE, "none") EXCEPT !.kind = "suite", !.members = members]

MCFiles ==
  [short   |-> Scenario(TRUE, "none"),
   endless |-> Scenario(FALSE, "none"),
   csv     |-> Scenario(TRUE, "ok"),
   nocsv   |-> Scenario(TRUE, "bad"),
   refused |-> [Scenario(TRUE, "none") EXCEPT !.builds = FALSE],
   script  |-> [Scenario(TRUE, "none") EXCEPT !.compiles = FALSE],
   both    |-> Suite(<<"short", "csv">>),
   mail    |-> [Scenario(TRUE, "none") EXCEPT !.kind = "other"]]

Run(args, config, suite, dirs, noTUI, autoStart, logFails) ==
  [args |-> args, config |-> config, suite |-> suite, dirs |-> dirs, noTUI |-> noTUI,
   autoStart |-> autoStart, logFails |-> logFails]

\* One scenario that reports to a file.
MCReported == {Run(<<"csv">>, <<>>, <<>>, <<>>, FALSE, TRUE, FALSE)}

\* Commands that start, with and without the dashboard.
Working ==
  {Run(<<"short">>, <<>>, <<>>, <<<<"endless", "mail", "short">>>>, FALSE, FALSE, FALSE),
   Run(<<"csv">>, <<>>, <<>>, <<<<"both">>>>, TRUE, TRUE, FALSE),
   Run(<<"endless">>, <<"script">>, <<>>, <<>>, TRUE, TRUE, FALSE),
   Run(<<"short">>, <<>>, <<>>, <<<<"csv", "script">>>>, TRUE, FALSE, FALSE),
   Run(<<>>, <<>>, <<>>, <<<<"both", "script", "short">>, <<"csv">>>>, FALSE, FALSE, FALSE)}

\* Commands of which something fails.
Failing ==
  {Run(<<>>, <<>>, <<>>, <<<<"mail">>>>, noTUI, TRUE, FALSE) : noTUI \in BOOLEAN}
  \cup {Run(<<"mail">>, <<>>, <<>>, <<>>, FALSE, TRUE, FALSE),
        Run(<<>>, <<>>, <<"short">>, <<>>, FALSE, TRUE, FALSE),
        Run(<<"csv", "script">>, <<>>, <<>>, <<>>, FALSE, TRUE, FALSE)}
  \cup {Run(<<"csv", bad>>, <<>>, <<"both">>, <<>>, noTUI, TRUE, logFails) :
          bad \in {"nocsv", "refused", "endless"}, noTUI \in BOOLEAN, logFails \in BOOLEAN}

MCCommands == MCReported \cup Working \cup Failing
MCCwdDirs == <<<<"short", "csv", "script">>, <<"short", "both">>>>

=============================================================================
