------------------------------- MODULE CommandLine -----------------------------
(* Invocations of the command line, one after the other on the same output      *)
(* directory: main and run_backtest (__main__.py), the checks on the            *)
(* configuration (engine/config.py, strategies/registry.py, the constructors of *)
(* the strategies) and the files the report consists of (reporting/report.py).  *)
(* What Backtest.run does is the business of the other modules: here it         *)
(* returns, with or without metric snapshots, or raises.                        *)
(*                                                                              *)
(* Data abstraction.  A configuration is the set of the things wrong with it;   *)
(* a file on disk is the number of the invocation that wrote it.                *)
EXTENDS Integers, Sequences, Functions

CONSTANTS
    MaxInvocations    \* bound: invocations of the command line

ASSUME CommandLineAssumption == MaxInvocations \in Nat

VARIABLES
    invocation,       \* number of the last invocation
    stage,            \* the function it is in; "idle" between invocations
    config,           \* faults of its configuration
    run,              \* how Backtest.run ended: "none" before it did
    todo,             \* files generate_report has still to write
    exit,             \* how the invocation ended: "none" while it runs
    disk,             \* writer of each file of the output directory
    found             \* history: disk when the invocation started

vars == <<invocation, stage, config, run, todo, exit, disk, found>>

Charts == <<"equity_curve.png", "inventory.png", "turnover.png">>
Files  == {"report.md"} \cup Range(Charts)

Absent == 0
Broken == -1          \* cut short by a write that failed

--------------------------------------------------------------------------------
(* Faults of a configuration, in the order in which they are looked for, and    *)
(* the exception each raises.                                                   *)

Check(fault, error) == [fault |-> fault, error |-> error]

LoadChecks == << Check("no file",           "ConfigError"),
                 Check("not YAML",          "exception"),      \* yaml.YAMLError
                 Check("not a mapping",     "ConfigError"),
                 Check("unknown key",       "ConfigError"),
                 Check("missing key",       "ConfigError"),
                 Check("path not a string", "exception"),      \* TypeError of Path
                 Check("strategy section",  "ConfigError"),
                 Check("params not floats", "exception") >>    \* of float or items

ValidateChecks == << Check("no data file", "ConfigError") >>

BuildChecks == << Check("unknown strategy", "exception"),      \* KeyError
                  Check("params rejected",  "exception") >>    \* TypeError, ValueError

FaultsOf(checks) == {checks[i].fault : i \in DOMAIN checks}

Alone   == {"no file", "not YAML", "not a mapping"}
Faults  == UNION {FaultsOf(checks) : checks \in {LoadChecks, ValidateChecks, BuildChecks}}
Configs == {{fault} : fault \in Alone} \cup SUBSET (Faults \ Alone)

Init ==
    /\ invocation = 0
    /\ stage = "idle"
    /\ config = {}
    /\ run = "none"
    /\ todo = <<>>
    /\ exit = "none"
    /\ disk = [file \in Files |-> Absent]
    /\ found = disk

Invoke(faults) ==
    /\ stage = "idle"
    /\ invocation < MaxInvocations
    /\ invocation' = invocation + 1
    /\ stage' = "load"
    /\ config' = faults
    /\ run' = "none"
    /\ exit' = "none"
    /\ found' = disk
    /\ UNCHANGED <<todo, disk>>

\* The invocation ends; main turns a ConfigError into a message.
End(how) ==
    /\ stage' = "idle"
    /\ exit' = how
    /\ todo' = <<>>
    /\ UNCHANGED <<invocation, config, found>>

\* A function that makes some checks, the first that fails raising, and goes on.
Checking(here, checks, next) ==
    LET failing == {i \in DOMAIN checks : checks[i].fault \in config} IN
       /\ stage = here
       /\ \/ \E first \in failing :
                (\A i \in failing : first <= i) /\ End(checks[first].error)
          \/ /\ failing = {}
             /\ stage' = next
             /\ UNCHANGED <<invocation, config, todo, exit, found>>
       /\ UNCHANGED <<run, disk>>

LoadConfig == Checking("load", LoadChecks, "validate")

Validate == Checking("validate", ValidateChecks, "build")

BuildStrategy == Checking("build", BuildChecks, "run")

RunRaises_Bad ==                   \* the report is written all the same
    /\ stage = "run"
    /\ run' = "raised"
    /\ stage' = "report"
    /\ UNCHANGED <<invocation, config, todo, exit, disk, found>>

\* A row that does not parse, or an exception of the strategy.
RunRaises == stage = "run" /\ run' = "raised" /\ End("exception") /\ UNCHANGED disk

RunReturns ==
    /\ stage = "run"
    /\ run' \in {"snapshots", "no snapshots"}
    /\ stage' = "report"
    /\ UNCHANGED <<invocation, config, todo, exit, disk, found>>

ReportFiles_Bad ==                 \* the charts are written first
    IF run = "snapshots" THEN Charts \o <<"report.md">> ELSE <<"report.md">>

\* _write_markdown, then a chart per series if there is anything to plot.
ReportFiles == IF run = "snapshots" THEN <<"report.md">> \o Charts ELSE <<"report.md">>

\* generate_report starts: the directory is made, or there is one already.
MakeDirectory ==
    /\ stage = "report"
    /\ \/ /\ stage' = "write"
          /\ todo' = ReportFiles
          /\ UNCHANGED <<invocation, config, exit, found>>
       \/ End("exception")
    /\ UNCHANGED <<run, disk>>

WriteFile ==
    /\ stage = "write"
    /\ todo # <<>>
    /\ disk' = [disk EXCEPT ![Head(todo)] = invocation]
    /\ todo' = Tail(todo)
    /\ UNCHANGED <<invocation, stage, config, run, exit, found>>

WriteFails_Bad ==                  \* the exception is swallowed
    /\ stage = "write"
    /\ todo # <<>>
    /\ disk' = [disk EXCEPT ![Head(todo)] = Broken]
    /\ todo' = Tail(todo)
    /\ UNCHANGED <<invocation, stage, config, run, exit, found>>

\* The file cannot be opened, or is cut short.
WriteFails ==
    /\ stage = "write"
    /\ todo # <<>>
    /\ disk' \in {disk, [disk EXCEPT ![Head(todo)] = Broken]}
    /\ End("exception")
    /\ UNCHANGED run

Finish == stage = "write" /\ todo = <<>> /\ End("done") /\ UNCHANGED <<run, disk>>

Step ==
    \/ LoadConfig \/ Validate \/ BuildStrategy
    \/ RunRaises \/ RunReturns
    \/ MakeDirectory \/ WriteFile \/ WriteFails \/ Finish

Next == (\E faults \in Configs : Invoke(faults)) \/ Step

Spec == Init /\ [][Next]_vars

--------------------------------------------------------------------------------
(* Properties.                                                                  *)

\* The output directory is touched only by an invocation whose configuration
\* passed every check and whose run returned: until then, and if it never does,
\* the report of the invocation before is left as it was.
OnlyARunLeavesATrace ==
    /\ run # "none" => config = {}
    /\ run \in {"none", "raised"} => disk = found

\* Whatever invocations fail in between, and wherever, no chart next to report.md
\* is of a later invocation than report.md, and none is of a later one than the
\* chart written before it: a reader who sees a chart of an invocation also sees
\* the numbers of that invocation, or of one after it.
ReportIsNewest ==
    disk["report.md"] # Broken =>
       \A i \in 1 .. Len(Charts) :
          /\ disk[Charts[i]] <= disk["report.md"]
          /\ i > 1 /\ disk[Charts[i - 1]] # Broken => disk[Charts[i]] <= disk[Charts[i - 1]]

\* An invocation that ends well leaves no half-written report: report.md is its
\* own, and so is every chart of a run that had anything to plot.  Charts
\* that are not its own are the matter of FilesAreOfThisRun, in MCCommandLine.
DoneIsWhole ==
    exit = "done" =>
       /\ disk["report.md"] = invocation
       /\ run = "snapshots" => \A i \in DOMAIN Charts : disk[Charts[i]] = invocation
================================================================================
