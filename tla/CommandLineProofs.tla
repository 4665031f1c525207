---------------------------- MODULE CommandLineProofs ---------------------------
(* Proofs about the command line, for any number of invocations on one output   *)
(* directory and every configuration: what an invocation that fails, wherever   *)
(* it fails, leaves on disk.                                                    *)
(*                                                                              *)
(* The inductive invariant is Inv: which checks a configuration has passed      *)
(* where (Passed), where the directory is still as it was found (Untouched),    *)
(* which files are written while the report is (Writing), and how the files of  *)
(* different invocations are ordered in age (Aged).                             *)
EXTENDS CommandLine, SequenceTheorems, TLAPS

TypeOK ==
    /\ invocation \in Nat
    /\ config \subseteq Faults
    /\ disk \in [Files -> Int]
    /\ \A file \in Files : Broken <= disk[file] /\ disk[file] <= invocation

\* The checks made so far found nothing.
Passed ==
    /\ stage \in {"validate", "build", "run", "report", "write"} \/ run # "none"
          => config \cap FaultsOf(LoadChecks) = {}
    /\ stage \in {"build", "run", "report", "write"} \/ run # "none"
          => config \cap FaultsOf(ValidateChecks) = {}
    /\ stage \in {"run", "report", "write"} \/ run # "none"
          => config \cap FaultsOf(BuildChecks) = {}

Ran ==
    /\ stage \in {"load", "validate", "build", "run"} => run = "none"
    /\ stage \in {"report", "write"} => run \in {"snapshots", "no snapshots"}
    /\ exit = "done" => stage = "idle"

Untouched ==
    stage \in {"load", "validate", "build", "run", "report"} \/ run \in {"none", "raised"}
       => disk = found

\* The first files of the report are written, the others as they were found.
WrittenUpTo(k) ==
    \A file \in Files :
       disk[file] = IF \E i \in 1 .. k : file = ReportFiles[i] THEN invocation ELSE found[file]

Writing ==
    /\ stage = "write" =>
          \E k \in 0 .. Len(ReportFiles) :
             todo = SubSeq(ReportFiles, k + 1, Len(ReportFiles)) /\ WrittenUpTo(k)
    /\ exit = "done" => WrittenUpTo(Len(ReportFiles))

\* No chart is younger than the report, nor than the chart written before it.
Aged ==
    /\ disk["report.md"] # Broken =>
          /\ disk["equity_curve.png"] <= disk["report.md"]
          /\ disk["inventory.png"] <= disk["report.md"]
          /\ disk["turnover.png"] <= disk["report.md"]
    /\ disk["equity_curve.png"] # Broken => disk["inventory.png"] <= disk["equity_curve.png"]
    /\ disk["inventory.png"] # Broken => disk["turnover.png"] <= disk["inventory.png"]

Inv == TypeOK /\ Passed /\ Ran /\ Untouched /\ Writing /\ Aged

--------------------------------------------------------------------------------
LEMMA ChartFacts ==
    /\ Charts \in Seq(Files) /\ Len(Charts) = 3
    /\ Charts[1] = "equity_curve.png" /\ Charts[2] = "inventory.png" /\ Charts[3] = "turnover.png"
    /\ Files = {"report.md", "equity_curve.png", "inventory.png", "turnover.png"}
<1>1. /\ Len(Charts) = 3 /\ DOMAIN Charts = 1 .. 3
      /\ Charts[1] = "equity_curve.png" /\ Charts[2] = "inventory.png"
      /\ Charts[3] = "turnover.png"
  BY DEF Charts
<1>2. Range(Charts) = {"equity_curve.png", "inventory.png", "turnover.png"}
  BY <1>1 DEF Range
<1>3. Files = {"report.md", "equity_curve.png", "inventory.png", "turnover.png"}
  BY <1>2 DEF Files
<1>4. Charts \in Seq(Files)
  BY <1>3 DEF Charts
<1> QED
  BY <1>1, <1>3, <1>4

LEMMA ReportFacts ==
    /\ ReportFiles \in Seq(Files)
    /\ ReportFiles[1] = "report.md"
    /\ run = "snapshots" =>
          /\ Len(ReportFiles) = 4
          /\ ReportFiles[2] = "equity_curve.png"
          /\ ReportFiles[3] = "inventory.png"
          /\ ReportFiles[4] = "turnover.png"
    /\ run # "snapshots" => Len(ReportFiles) = 1
<1> DEFINE first == <<"report.md">>
<1>1. first \in Seq(Files) /\ Len(first) = 1 /\ first[1] = "report.md"
  BY ChartFacts
<1>2. ReportFiles = IF run = "snapshots" THEN first \o Charts ELSE first
  BY DEF ReportFiles
<1> HIDE DEF first
<1>3. /\ first \o Charts \in Seq(Files) /\ Len(first \o Charts) = 4
      /\ (first \o Charts)[1] = first[1] /\ (first \o Charts)[2] = Charts[1]
      /\ (first \o Charts)[3] = Charts[2] /\ (first \o Charts)[4] = Charts[3]
  <2>1. Charts \in Seq(Files) /\ Len(Charts) = 3
    BY ChartFacts
  <2>2. /\ Len(first \o Charts) = Len(first) + Len(Charts) /\ first \o Charts \in Seq(Files)
        /\ \A i \in 1 .. Len(first) + Len(Charts) :
              (first \o Charts)[i] = IF i <= Len(first) THEN first[i] ELSE Charts[i - Len(first)]
    BY <1>1, <2>1, ConcatProperties
  <2> QED
    BY <1>1, <2>1, <2>2
<1> QED
  BY <1>1, <1>2, <1>3, ChartFacts

\* Every check raises an exception, and a configuration with none of the faults
\* that are looked for has no fault.
LEMMA CheckFacts ==
    /\ \A checks \in {LoadChecks, ValidateChecks, BuildChecks} :
          \A i \in DOMAIN checks : checks[i].error # "done"
    /\ /\ config \subseteq Faults /\ config \cap FaultsOf(LoadChecks) = {}
       /\ config \cap FaultsOf(ValidateChecks) = {} /\ config \cap FaultsOf(BuildChecks) = {}
       => config = {}
<1> DEFINE Fails(check) == \E fault : \/ check = Check(fault, "ConfigError")
                                      \/ check = Check(fault, "exception")
<1>0. \A check : Fails(check) => check.error # "done"
  BY DEF Check
<1>1. \A i \in DOMAIN LoadChecks : Fails(LoadChecks[i])
  <2>1. DOMAIN LoadChecks = 1 .. 8
    BY DEF LoadChecks
  <2>2. /\ Fails(LoadChecks[1]) /\ Fails(LoadChecks[2]) /\ Fails(LoadChecks[3])
        /\ Fails(LoadChecks[4]) /\ Fails(LoadChecks[5]) /\ Fails(LoadChecks[6])
        /\ Fails(LoadChecks[7]) /\ Fails(LoadChecks[8])
    BY DEF LoadChecks
  <2> HIDE DEF Fails
  <2> QED
    BY <2>1, <2>2
<1>2. \A i \in DOMAIN ValidateChecks : Fails(ValidateChecks[i])
  <2>1. DOMAIN ValidateChecks = 1 .. 1
    BY DEF ValidateChecks
  <2>2. Fails(ValidateChecks[1])
    BY DEF ValidateChecks
  <2> HIDE DEF Fails
  <2> QED
    BY <2>1, <2>2
<1>3. \A i \in DOMAIN BuildChecks : Fails(BuildChecks[i])
  <2>1. DOMAIN BuildChecks = 1 .. 2
    BY DEF BuildChecks
  <2>2. Fails(BuildChecks[1]) /\ Fails(BuildChecks[2])
    BY DEF BuildChecks
  <2> HIDE DEF Fails
  <2> QED
    BY <2>1, <2>2
<1>4. Faults = FaultsOf(LoadChecks) \cup FaultsOf(ValidateChecks) \cup FaultsOf(BuildChecks)
  BY DEF Faults
<1> HIDE DEF Fails
<1> QED
  BY <1>0, <1>1, <1>2, <1>3, <1>4

--------------------------------------------------------------------------------
(* The invariant is inductive: one lemma per action.                            *)

LEMMA InitInv == Init => Inv
<1> SUFFICES ASSUME Init PROVE Inv
  OBVIOUS
<1>1. disk = [file \in Files |-> 0] /\ invocation = 0 /\ config = {}
  BY DEF Init, Absent
<1>2. TypeOK
  BY <1>1 DEF TypeOK, Broken
<1>3. Aged
  BY <1>1, ChartFacts DEF Aged
<1> QED
  BY <1>2, <1>3 DEF Init, Inv, Passed, Ran, Untouched, Writing

\* The faults that hide all others are among the faults.
LEMMA AloneFacts == Alone \subseteq Faults
<1>1. 1 \in DOMAIN LoadChecks /\ 2 \in DOMAIN LoadChecks /\ 3 \in DOMAIN LoadChecks
  BY DEF LoadChecks
<1>2. /\ LoadChecks[1].fault = "no file" /\ LoadChecks[2].fault = "not YAML"
      /\ LoadChecks[3].fault = "not a mapping"
  BY DEF LoadChecks, Check
<1>3. Alone \subseteq FaultsOf(LoadChecks)
  BY <1>1, <1>2 DEF Alone, FaultsOf
<1> QED
  BY <1>3 DEF Faults

\* The next invocation is younger than every file.
LEMMA InvokeStep ==
    ASSUME Inv, NEW faults \in Configs, Invoke(faults)
    PROVE  Inv'
<1>1. faults \subseteq Faults
  BY AloneFacts DEF Configs
<1>2. /\ stage' = "load" /\ config' = faults /\ run' = "none" /\ exit' = "none"
      /\ found' = disk /\ invocation' = invocation + 1 /\ UNCHANGED <<todo, disk>>
  BY DEF Invoke
<1>3. TypeOK'
  BY <1>1, <1>2 DEF Inv, TypeOK
<1>4. Aged'
  BY <1>2 DEF Inv, Aged
<1> QED
  BY <1>2, <1>3, <1>4 DEF Inv, Passed, Ran, Untouched, Writing

\* An end without a report: nothing was written since the directory was found.
LEMMA EarlyEndStep ==
    ASSUME Inv, NEW how, how # "done", End(how), UNCHANGED disk,
           run' \in {run, "raised"}, stage # "idle",
           run' # run => stage = "run"
    PROVE  Inv'
<1>1. stage' = "idle" /\ exit' = how /\ UNCHANGED <<invocation, config, found, disk>>
  BY DEF End
<1>2. TypeOK' /\ Aged'
  BY <1>1 DEF Inv, TypeOK, Aged
<1>3. Passed'
  BY <1>1 DEF Inv, Passed
<1>4. Ran' /\ Writing'
  BY <1>1 DEF Ran, Writing
<1>5. Untouched'
  BY <1>1 DEF Inv, Ran, Untouched
<1> QED
  BY <1>2, <1>3, <1>4, <1>5 DEF Inv

LEMMA CheckingStep ==
    ASSUME Inv, NEW here, NEW checks \in {LoadChecks, ValidateChecks, BuildChecks}, NEW next,
           Checking(here, checks, next), <<here, checks, next>> \in
              {<<"load", LoadChecks, "validate">>, <<"validate", ValidateChecks, "build">>,
               <<"build", BuildChecks, "run">>}
    PROVE  Inv'
<1>1. stage = here /\ UNCHANGED <<run, disk>> /\ stage # "idle"
  BY DEF Checking
<1>2. CASE \E first \in DOMAIN checks : End(checks[first].error)
  BY <1>1, <1>2, CheckFacts, EarlyEndStep
<1>3. CASE /\ {i \in DOMAIN checks : checks[i].fault \in config} = {}
           /\ stage' = next /\ UNCHANGED <<invocation, config, todo, exit, found>>
  <2>1. config \cap FaultsOf(checks) = {}
    BY <1>3 DEF FaultsOf
  <2>2. TypeOK' /\ Aged'
    BY <1>1, <1>3 DEF Inv, TypeOK, Aged
  <2>3. Passed'
    BY <1>1, <1>3, <2>1 DEF Inv, Passed, Ran
  <2>4. Ran' /\ Untouched'
    BY <1>1, <1>3 DEF Inv, Ran, Untouched
  <2>5. Writing'
    BY <1>1, <1>3 DEF Inv, Ran, Writing
  <2> QED
    BY <2>2, <2>3, <2>4, <2>5 DEF Inv
<1> QED
  BY <1>2, <1>3 DEF Checking

LEMMA RunReturnsStep ==
    ASSUME Inv, RunReturns
    PROVE  Inv'
<1>1. /\ stage = "run" /\ stage' = "report" /\ run' \in {"snapshots", "no snapshots"}
      /\ UNCHANGED <<invocation, config, todo, exit, disk, found>>
  BY DEF RunReturns
<1>2. TypeOK' /\ Aged'
  BY <1>1 DEF Inv, TypeOK, Aged
<1> QED
  BY <1>1, <1>2 DEF Inv, Passed, Ran, Untouched, Writing

\* The directory is made: no file is written yet, all of them are to do.
LEMMA MakeDirectoryStep ==
    ASSUME Inv, MakeDirectory
    PROVE  Inv'
<1>1. stage = "report" /\ UNCHANGED <<run, disk>>
  BY DEF MakeDirectory
<1>2. CASE End("exception")
  BY <1>1, <1>2, EarlyEndStep
<1>3. CASE /\ stage' = "write" /\ todo' = ReportFiles
           /\ UNCHANGED <<invocation, config, exit, found>>
  <2>1. TypeOK' /\ Aged'
    BY <1>1, <1>3 DEF Inv, TypeOK, Aged
  <2>2. Passed' /\ Ran' /\ Untouched'
    BY <1>1, <1>3 DEF Inv, Passed, Ran, Untouched
  <2>3. UNCHANGED ReportFiles
    BY <1>1 DEF ReportFiles
  <2>4. todo' = SubSeq(ReportFiles, 0 + 1, Len(ReportFiles)) /\ Len(ReportFiles) \in Nat
    BY <1>3, ReportFacts, SubSeqFull
  <2>5. disk' = found'
    BY <1>1, <1>3 DEF Inv, Untouched
  <2>6. WrittenUpTo(0)'
    BY <2>5 DEF WrittenUpTo
  <2>7. Writing'
    <3>1. exit' # "done"
      BY <1>1, <1>3 DEF Inv, Ran
    <3>2. 0 \in 0 .. Len(ReportFiles)
      BY <2>4
    <3> QED
      BY <2>3, <2>4, <2>6, <3>1, <3>2 DEF Writing
  <2> QED
    BY <2>1, <2>2, <2>7 DEF Inv
<1> QED
  BY <1>2, <1>3 DEF MakeDirectory

\* What a write finds: the files before this one are of this invocation.
LEMMA NextFile ==
    ASSUME Inv, stage = "write", todo # <<>>
    PROVE  \E k \in 0 .. (Len(ReportFiles) - 1) :
              /\ todo = SubSeq(ReportFiles, k + 1, Len(ReportFiles)) /\ WrittenUpTo(k)
              /\ Head(todo) = ReportFiles[k + 1]
              /\ Tail(todo) = SubSeq(ReportFiles, k + 2, Len(ReportFiles))
              /\ Len(ReportFiles) \in Nat
              /\ Head(todo) \in Files
              /\ \A i \in 1 .. k : disk[ReportFiles[i]] = invocation
<1>1. PICK k \in 0 .. Len(ReportFiles) :
         todo = SubSeq(ReportFiles, k + 1, Len(ReportFiles)) /\ WrittenUpTo(k)
  BY DEF Inv, Writing
<1>2. ReportFiles \in Seq(Files) /\ Len(ReportFiles) \in Nat
  BY ReportFacts
<1>3. k # Len(ReportFiles)
  <2>1. k = Len(ReportFiles) => SubSeq(ReportFiles, k + 1, Len(ReportFiles)) = <<>>
    BY <1>2, SubSeqEmpty
  <2> QED
    BY <1>1, <2>1
<1>4. k + 1 \in 1 .. Len(ReportFiles) /\ k \in 0 .. (Len(ReportFiles) - 1)
  BY <1>1, <1>2, <1>3
<1>5. /\ Head(SubSeq(ReportFiles, k + 1, Len(ReportFiles))) = ReportFiles[k + 1]
      /\ Tail(SubSeq(ReportFiles, k + 1, Len(ReportFiles)))
           = SubSeq(ReportFiles, (k + 1) + 1, Len(ReportFiles))
  BY <1>2, <1>4, HeadTailOfSubSeq
<1>6. (k + 1) + 1 = k + 2
  BY <1>1
<1>7. ReportFiles[k + 1] \in Files /\ \A i \in 1 .. k : ReportFiles[i] \in Files
  BY <1>2, <1>4
<1>8. \A i \in 1 .. k : disk[ReportFiles[i]] = invocation
  BY <1>1, <1>7 DEF WrittenUpTo
<1> QED
  BY <1>1, <1>2, <1>4, <1>5, <1>6, <1>7, <1>8

\* A file written once those before it are keeps the files ordered in age; so
\* does one that is broken.
LEMMA AgedStep ==
    ASSUME TypeOK, Aged, NEW file \in Files, NEW writer \in {invocation, Broken},
           disk' = [disk EXCEPT ![file] = writer],
           file = "equity_curve.png" => disk["report.md"] = invocation,
           file = "inventory.png" => /\ disk["report.md"] = invocation
                                     /\ disk["equity_curve.png"] = invocation,
           file = "turnover.png" => /\ disk["report.md"] = invocation
                                    /\ disk["inventory.png"] = invocation
    PROVE  Aged'
<1>1. /\ "report.md" \in Files /\ "equity_curve.png" \in Files
      /\ "inventory.png" \in Files /\ "turnover.png" \in Files
  BY ChartFacts
<1>2. /\ disk'[file] = writer /\ \A f \in Files : f # file => disk'[f] = disk[f]
      /\ \A f \in Files : disk[f] \in Int /\ -1 <= disk[f] /\ disk[f] <= invocation
      /\ invocation \in Int /\ Broken = -1 /\ invocation >= 0
  BY DEF TypeOK, Broken
<1>3. CASE file = "report.md"
  BY <1>1, <1>2, <1>3 DEF Aged
<1>4. CASE file = "equity_curve.png"
  BY <1>1, <1>2, <1>4 DEF Aged
<1>5. CASE file = "inventory.png"
  BY <1>1, <1>2, <1>5 DEF Aged
<1>6. CASE file = "turnover.png"
  BY <1>1, <1>2, <1>6 DEF Aged
<1> QED
  BY <1>3, <1>4, <1>5, <1>6, ChartFacts

\* The files before the one being written are those AgedStep asks about.
LEMMA EarlierFiles ==
    ASSUME Inv, stage = "write", todo # <<>>
    PROVE  LET file == Head(todo) IN
              /\ file \in Files
              /\ file = "equity_curve.png" => disk["report.md"] = invocation
              /\ file = "inventory.png" => /\ disk["report.md"] = invocation
                                           /\ disk["equity_curve.png"] = invocation
              /\ file = "turnover.png" => /\ disk["report.md"] = invocation
                                          /\ disk["inventory.png"] = invocation
<1>1. PICK k \in 0 .. (Len(ReportFiles) - 1) :
         /\ Head(todo) = ReportFiles[k + 1] /\ Head(todo) \in Files
         /\ \A i \in 1 .. k : disk[ReportFiles[i]] = invocation
  BY NextFile
<1>2. CASE run = "snapshots"
  <2>1. k \in 0 .. 3
    <3>1. Len(ReportFiles) = 4
      BY <1>2, ReportFacts
    <3> QED
      BY <1>1, <3>1
  <2>2. CASE k = 0
    BY <1>1, <2>2, ReportFacts
  <2>3. CASE k = 1
    BY <1>1, <1>2, <2>3, ReportFacts
  <2>4. CASE k = 2
    BY <1>1, <1>2, <2>4, ReportFacts
  <2>5. CASE k = 3
    BY <1>1, <1>2, <2>5, ReportFacts
  <2> QED
    BY <2>1, <2>2, <2>3, <2>4, <2>5
<1>3. CASE run # "snapshots"
  <2>1. k = 0
    <3>1. Len(ReportFiles) = 1
      BY <1>3, ReportFacts
    <3> QED
      BY <1>1, <3>1
  <2> QED
    BY <1>1, <2>1, ReportFacts
<1> QED
  BY <1>2, <1>3

LEMMA WriteFileStep ==
    ASSUME Inv, WriteFile
    PROVE  Inv'
<1>1. /\ stage = "write" /\ todo # <<>> /\ stage' = "write"
      /\ disk' = [disk EXCEPT ![Head(todo)] = invocation] /\ todo' = Tail(todo)
      /\ UNCHANGED <<invocation, config, run, exit, found>>
  BY DEF WriteFile
<1>2. PICK k \in 0 .. (Len(ReportFiles) - 1) :
         /\ WrittenUpTo(k) /\ Head(todo) = ReportFiles[k + 1]
         /\ Tail(todo) = SubSeq(ReportFiles, k + 2, Len(ReportFiles))
         /\ Len(ReportFiles) \in Nat /\ Head(todo) \in Files
  BY <1>1, NextFile
<1>3. TypeOK'
  BY <1>1, <1>2 DEF Inv, TypeOK, Broken
<1>4. Aged'
  BY <1>1, EarlierFiles, AgedStep DEF Inv
<1>5. Passed' /\ Ran' /\ Untouched'
  BY <1>1 DEF Inv, Passed, Ran, Untouched
<1>6. UNCHANGED ReportFiles
  BY <1>1 DEF ReportFiles
<1>7. WrittenUpTo(k + 1)'
  <2>1. ASSUME NEW file \in Files
        PROVE  disk'[file] = IF \E i \in 1 .. (k + 1) : file = ReportFiles[i]
                               THEN invocation ELSE found[file]
    <3>1. disk \in [Files -> Int]
      BY DEF Inv, TypeOK
    <3>2. CASE file = Head(todo)
      <4>1. disk'[file] = invocation /\ k + 1 \in 1 .. (k + 1)
        BY <1>1, <1>2, <3>1, <3>2
      <4> QED
        BY <1>2, <3>2, <4>1
    <3>3. CASE file # Head(todo)
      <4>1. disk'[file] = disk[file]
        BY <1>1, <3>1, <3>3
      <4>2. (\E i \in 1 .. (k + 1) : file = ReportFiles[i])
               <=> (\E i \in 1 .. k : file = ReportFiles[i])
        BY <1>2, <3>3
      <4> QED
        BY <1>2, <4>1, <4>2 DEF WrittenUpTo
    <3> QED
      BY <3>2, <3>3
  <2> QED
    BY <1>1, <1>6, <2>1 DEF WrittenUpTo
<1>8. Writing'
  <2>1. exit' # "done"
    BY <1>1 DEF Inv, Ran
  <2>2. k + 1 \in 0 .. Len(ReportFiles) /\ k + 2 = (k + 1) + 1
    BY <1>2
  <2>3. todo' = SubSeq(ReportFiles, (k + 1) + 1, Len(ReportFiles))
    BY <1>1, <1>2, <2>2
  <2> QED
    BY <1>6, <1>7, <2>1, <2>2, <2>3 DEF Writing
<1> QED
  BY <1>3, <1>4, <1>5, <1>8 DEF Inv

\* A write that fails ends the invocation: the file is broken, or as it was.
LEMMA WriteFailsStep ==
    ASSUME Inv, WriteFails
    PROVE  Inv'
<1>1. /\ stage = "write" /\ todo # <<>> /\ stage' = "idle" /\ exit' = "exception"
      /\ UNCHANGED <<invocation, config, run, found>>
      /\ disk' \in {disk, [disk EXCEPT ![Head(todo)] = Broken]}
  BY DEF WriteFails, End
<1>2. Head(todo) \in Files
  BY <1>1, EarlierFiles
<1>3. TypeOK'
  BY <1>1, <1>2 DEF Inv, TypeOK, Broken
<1>4. Aged'
  <2>1. CASE disk' = disk
    BY <2>1 DEF Inv, Aged
  <2>2. CASE disk' = [disk EXCEPT ![Head(todo)] = Broken]
    BY <1>1, <2>2, EarlierFiles, AgedStep DEF Inv
  <2> QED
    BY <1>1, <2>1, <2>2
<1>5. Passed' /\ Ran' /\ Untouched' /\ Writing'
  BY <1>1 DEF Inv, Passed, Ran, Untouched, Writing
<1> QED
  BY <1>3, <1>4, <1>5 DEF Inv

\* Nothing is left to do: every file of the report is written.
LEMMA FinishStep ==
    ASSUME Inv, Finish
    PROVE  Inv'
<1>1. /\ stage = "write" /\ todo = <<>> /\ stage' = "idle" /\ exit' = "done"
      /\ UNCHANGED <<invocation, config, run, found, disk>>
  BY DEF Finish, End
<1>2. TypeOK' /\ Aged'
  BY <1>1 DEF Inv, TypeOK, Aged
<1>3. Passed' /\ Ran' /\ Untouched'
  BY <1>1 DEF Inv, Passed, Ran, Untouched
<1>4. WrittenUpTo(Len(ReportFiles))
  <2>1. PICK k \in 0 .. Len(ReportFiles) :
           todo = SubSeq(ReportFiles, k + 1, Len(ReportFiles)) /\ WrittenUpTo(k)
    BY <1>1 DEF Inv, Writing
  <2>2. ReportFiles \in Seq(Files) /\ Len(ReportFiles) \in Nat
    BY ReportFacts
  <2>3. k = Len(ReportFiles)
    <3>1. k < Len(ReportFiles) => Len(SubSeq(ReportFiles, k + 1, Len(ReportFiles))) # 0
      BY <2>1, <2>2, SubSeqProperties
    <3>2. Len(todo) = 0
      BY <1>1
    <3> QED
      BY <2>1, <2>2, <3>1, <3>2
  <2> QED
    BY <2>1, <2>3
<1>5. Writing'
  BY <1>1, <1>4 DEF Writing, WrittenUpTo, ReportFiles
<1> QED
  BY <1>2, <1>3, <1>5 DEF Inv

LEMMA InvStep ==
    ASSUME Inv, [Next]_vars
    PROVE  Inv'
<1>1. CASE LoadConfig \/ Validate \/ BuildStrategy
  BY <1>1, CheckingStep DEF LoadConfig, Validate, BuildStrategy
<1>2. CASE RunRaises
  BY <1>2, EarlyEndStep DEF RunRaises
<1>3. CASE UNCHANGED vars
  <2>1. UNCHANGED <<invocation, stage, config, run, todo, exit, disk, found>>
    BY <1>3 DEF vars
  <2>2. TypeOK' /\ Passed' /\ Ran' /\ Untouched' /\ Aged'
    BY <2>1 DEF Inv, TypeOK, Passed, Ran, Untouched, Aged
  <2>3. UNCHANGED ReportFiles /\ \A k : WrittenUpTo(k)' <=> WrittenUpTo(k)
    BY <2>1 DEF WrittenUpTo, ReportFiles
  <2>4. Writing'
    BY <2>1, <2>3 DEF Inv, Writing
  <2> QED
    BY <2>2, <2>4 DEF Inv
<1> QED
  BY <1>1, <1>2, <1>3, InvokeStep, RunReturnsStep, MakeDirectoryStep, WriteFileStep,
     WriteFailsStep, FinishStep DEF Next, Step

LEMMA Invariance == Spec => []Inv
<1>1. Init => Inv
  BY InitInv
<1>2. Inv /\ [Next]_vars => Inv'
  BY InvStep
<1> QED
  BY <1>1, <1>2, PTL DEF Spec

--------------------------------------------------------------------------------
\* The directory is touched only by an invocation whose configuration passed
\* every check and whose run returned (__main__.py:27-51).
THEOREM FailuresLeaveNoTrace == Spec => []OnlyARunLeavesATrace
<1>1. Inv => OnlyARunLeavesATrace
  BY CheckFacts DEF Inv, TypeOK, Passed, Untouched, OnlyARunLeavesATrace
<1> QED
  BY <1>1, Invariance, PTL

\* Whatever invocations fail in between, no chart is of a later invocation than
\* the report next to it (report.py:172-200).
THEOREM ReportStaysNewest == Spec => []ReportIsNewest
<1>1. Inv => ReportIsNewest
  <2> SUFFICES ASSUME Aged, disk["report.md"] # Broken, NEW i \in 1 .. 3
               PROVE  /\ disk[Charts[i]] <= disk["report.md"]
                      /\ i > 1 /\ disk[Charts[i - 1]] # Broken
                            => disk[Charts[i]] <= disk[Charts[i - 1]]
    BY ChartFacts DEF Inv, ReportIsNewest
  <2>1. CASE i = 1
    BY <2>1, ChartFacts DEF Aged
  <2>2. CASE i = 2
    BY <2>2, ChartFacts DEF Aged
  <2>3. CASE i = 3
    BY <2>3, ChartFacts DEF Aged
  <2> QED
    BY <2>1, <2>2, <2>3
<1> QED
  BY <1>1, Invariance, PTL

\* An invocation that ends well has written report.md, and every chart if there
\* was anything to plot (report.py:169-202).
THEOREM DoneReportIsWhole == Spec => []DoneIsWhole
<1>1. Inv => DoneIsWhole
  <2> SUFFICES ASSUME Inv, exit = "done"
               PROVE  /\ disk["report.md"] = invocation
                      /\ run = "snapshots" =>
                            \A i \in DOMAIN Charts : disk[Charts[i]] = invocation
    BY DEF DoneIsWhole
  <2>1. \A file \in Files :
           disk[file] = IF \E i \in 1 .. Len(ReportFiles) : file = ReportFiles[i]
                          THEN invocation ELSE found[file]
    BY DEF Inv, Writing, WrittenUpTo
  <2>2. disk["report.md"] = invocation
    <3>1. "report.md" \in Files /\ "report.md" = ReportFiles[1] /\ 1 \in 1 .. Len(ReportFiles)
      BY ChartFacts, ReportFacts
    <3> QED
      BY <2>1, <3>1
  <2>3. ASSUME run = "snapshots", NEW i \in DOMAIN Charts
        PROVE  disk[Charts[i]] = invocation
    <3>1. Charts[i] \in Files
      BY ChartFacts
    <3>2. \E k \in 1 .. 4 : Charts[i] = ReportFiles[k]
      BY <2>3, <3>1, ChartFacts, ReportFacts
    <3> QED
      BY <2>1, <2>3, <3>1, <3>2, ReportFacts
  <2> QED
    BY <2>2, <2>3
<1> QED
  BY <1>1, Invariance, PTL
================================================================================
