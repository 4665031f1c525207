----------------------------- MODULE MCCommandLine -----------------------------
(* Three invocations on one output directory, with every configuration.         *)
EXTENDS CommandLine

\* performance_report.md:5: running a backtest produces the four files of the
\* report.  A run without metric snapshots has nothing to plot and writes none of
\* the charts (test_reporting.py:149), but does not remove those of an earlier
\* run either, and its report.md shows them as its own.
FilesAreOfThisRun ==
    exit = "done" => \A file \in Files : disk[file] \in {Absent, Broken, invocation}
================================================================================
