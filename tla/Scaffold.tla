------------------------------ MODULE Scaffold ------------------------------
(***************************************************************************)
(* `pkg new`: the directory of a new workload, with its packages.toml and  *)
(* vm.toml.  The directory is looked for before it is made, and making it  *)
(* does not fail when it is there: two commands for one name may both go   *)
(* on.  A command may fail or be killed between any two steps, and in the  *)
(* middle of a file.                                                       *)
(***************************************************************************)
EXTENDS Naturals, Sequences, SequencesExt

CONSTANTS
  WorkloadNames,
  Configs,    \* the other arguments, and so the text of the two files
  Developers,
  Mixed,      \* a file that two commands have written, or that one has in part
  MaxBreaks,  \* bound: failures and kills
  MaxCalls,   \* bound: commands run
  Letters,    \* bound: the bytes that names are made of
  MaxLetters  \* bound: their length

ASSUME NameAssumption ==
  /\ Letters \subseteq 0 .. 255 /\ MaxLetters \in Nat
  /\ Configs \cap {Mixed, "absent", "empty"} = {} /\ Mixed \notin {"absent", "empty"}
ASSUME CallAssumption == MaxBreaks \in Nat /\ MaxCalls \in Nat

Files == <<"packages.toml", "vm.toml">>

-----------------------------------------------------------------------------
(* derive_mac *)

\* fold with wrapping_add.
WrappingSum(terms) ==
  LET acc[i \in 0 .. Len(terms)] == IF i = 0 THEN 0 ELSE (acc[i - 1] + terms[i]) % 256
  IN  acc[Len(terms)]

Sum1(text) == WrappingSum(text)
\* Mutant: the letters are not weighted.
Unweighted(text) == Sum1(text)

Sum2(text) == WrappingSum([i \in DOMAIN text |-> text[i] * (i % 256)])
derive_mac(text) == <<222, 173, 190, 239, Sum1(text), Sum2(text)>>

-----------------------------------------------------------------------------
VARIABLES
  workloads,  \* name -> what each of its files holds; only for directories that exist
  task,       \* the command of each developer
  ran, failed,
  asked,      \* history: name -> the arguments of the commands that went on to make it
  broken,     \* history: names with one among them that failed or was killed
  name        \* a name, letter by letter

scaffoldVars == <<workloads, task, ran, failed, asked, broken>>

NoTask == [pc |-> "idle", name |-> CHOOSE n \in WorkloadNames : TRUE, config |-> Mixed, file |-> 1,
           result |-> "none"]

ScaffoldInit ==
  /\ workloads = << >> /\ task = [d \in Developers |-> NoTask]
  /\ ran = 0 /\ failed = 0 /\ asked = [n \in WorkloadNames |-> {}] /\ broken = {}

NameInit        == name = << >>
AppendLetter(b) == Len(name) < MaxLetters /\ name' = Append(name, b)
NameSpec        == NameInit /\ [][\E b \in Letters : AppendLetter(b)]_name

Busy(n) == {d \in Developers : task[d].pc # "idle" /\ task[d].name = n}
Set(d, r) == task' = [task EXCEPT ![d] = r]
On(d, pc) == task[d].pc = pc /\ UNCHANGED ran
Ok(d)     == UNCHANGED <<failed, asked, broken>>

Return(d, why) == Set(d, [NoTask EXCEPT !.result = why])
Dir(d)    == task[d].name
File(d)   == Files[task[d].file]
Holds(d, text) == workloads' = [workloads EXCEPT ![Dir(d)][File(d)] = text]

\* The directory must not be there.
Look(d, n, config) ==
  /\ task[d].pc = "idle" /\ ran < MaxCalls /\ ran' = ran + 1
  /\ \/ n \in DOMAIN workloads /\ Return(d, "conflict") /\ UNCHANGED <<asked, broken>>
     \/ /\ n \notin DOMAIN workloads
        /\ Set(d, [NoTask EXCEPT !.pc = "mkdir", !.name = n, !.config = config])
        /\ IF Busy(n) = {}
           THEN asked' = [asked EXCEPT ![n] = {config}] /\ broken' = broken \ {n}
           ELSE asked' = [asked EXCEPT ![n] = @ \cup {config}] /\ UNCHANGED broken
  /\ UNCHANGED <<workloads, failed>>

Made(dirs, n) ==
  [m \in DOMAIN dirs \cup {n} |->
     IF m \in DOMAIN dirs THEN dirs[m] ELSE [f \in Range(Files) |-> "absent"]]

\* create_dir_all, which a directory that is there does not disturb.
MakeDir(d) ==
  /\ On(d, "mkdir") /\ Ok(d) /\ Set(d, [task[d] EXCEPT !.pc = "open"])
  /\ workloads' = Made(workloads, Dir(d))

\* fs::write makes the file, or truncates it, and then fills it.
OpenFile(d) ==
  /\ On(d, "open") /\ Ok(d) /\ Set(d, [task[d] EXCEPT !.pc = "fill"]) /\ Holds(d, "empty")

\* Mutant: vm.toml is left out.
AfterFile(d) == Return(d, "ok")

NextFile(d) ==
  \/ task[d].file < Len(Files) /\ Set(d, [task[d] EXCEPT !.file = @ + 1, !.pc = "open"])
  \/ task[d].file = Len(Files) /\ Return(d, "ok")

FillFile(d) ==
  /\ On(d, "fill") /\ Ok(d) /\ NextFile(d)
  /\ Holds(d, IF workloads[Dir(d)][File(d)] \in {"empty", task[d].config}
              THEN task[d].config ELSE Mixed)

\* A step fails, or the process is killed, perhaps with a part of a file written.
BreakDown(d) ==
  /\ task[d].pc # "idle" /\ On(d, task[d].pc) /\ Return(d, "failed")
  /\ failed < MaxBreaks /\ failed' = failed + 1
  /\ broken' = broken \cup {Dir(d)} /\ UNCHANGED asked
  /\ UNCHANGED workloads \/ (task[d].pc = "fill" /\ Holds(d, Mixed))

\* Someone deletes a workload that no command is at, as the message of a
\* conflict suggests.
Delete(n) ==
  /\ n \in DOMAIN workloads /\ Busy(n) = {}
  /\ workloads' = [m \in DOMAIN workloads \ {n} |-> workloads[m]]
  /\ UNCHANGED <<task, ran, failed, asked, broken>>

ScaffoldNext ==
  \/ \E n \in WorkloadNames : Delete(n)
  \/ \E d \in Developers :
       \/ \E n \in WorkloadNames, config \in Configs : Look(d, n, config)
       \/ MakeDir(d) \/ OpenFile(d) \/ FillFile(d) \/ BreakDown(d)

ScaffoldSpec == ScaffoldInit /\ [][ScaffoldNext]_scaffoldVars
-----------------------------------------------------------------------------
(* Properties *)

\* "callers never silently overwrite an existing workload": a workload with
\* both its files written stays as it is, until someone deletes it.  Of the code
\* this is false: two commands look for the directory before either makes it,
\* and the slower one writes over the files of the other after its Ok.
NeverOverwritten ==
  [][\A n \in DOMAIN workloads \cap DOMAIN workloads' :
       (\A f \in Range(Files) : workloads[n][f] \in Configs) => workloads'[n] = workloads[n]
    ]_scaffoldVars

\* What a file may hold when commands with these arguments have written it.
Texts(configs) == configs \cup {text \in {Mixed} : \E a, b \in configs : a # b}

\* How far the commands spoil each other's work: when none is at a workload and
\* none of those that made it broke down, both its files are written, from the
\* arguments of the commands that found no directory, however many did so at
\* once.  So with one such command it is whole and as that one asked, whatever
\* `pkg new` is called with later; and with several a file may be of any of
\* them or a mixture, but none is missing and none is from elsewhere.
FilesAreAsAsked ==
  \A n \in DOMAIN workloads \ broken :
    Busy(n) = {} => \A f \in Range(Files) : workloads[n][f] \in Texts(asked[n])

\* "each workload gets a unique address" as far as it goes: two names of one
\* length have different addresses if they differ in one letter, or in the
\* order of two neighbours.
SimilarNamesDiffer ==
  \A i \in DOMAIN name :
    /\ \A b \in Letters \ {name[i]} : derive_mac([name EXCEPT ![i] = b]) # derive_mac(name)
    /\ i < Len(name) /\ name[i] # name[i + 1] =>
         derive_mac([name EXCEPT ![i] = name[i + 1], ![i + 1] = name[i]]) # derive_mac(name)
=============================================================================
