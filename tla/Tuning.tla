------------------------------- MODULE Tuning -------------------------------
(***************************************************************************)
(* Where a disk model's flush thresholds come from: a file of parameters   *)
(* (ennbo/src/file_config.rs), a snapshot of it shared by the process      *)
(* (bpann/src/tuning.rs), and the calls that open a model                  *)
(* (disk_bpann/enn_backend.rs).  Callers run side by side, and no call     *)
(* takes its locks for longer than one read or one write.                  *)
(*                                                                         *)
(* Of the parameters only the two thresholds are told apart; fits says     *)
(* that all the others are in range.                                       *)
(***************************************************************************)
EXTENDS Integers, FiniteSets

CONSTANTS
  Openers,      \* threads
  Paths, Home,  \* files of parameters, and the default one
  Softs, Hards, \* thresholds a caller or a user may give
  DefaultSoft, DefaultHard,
  MaxEdits,     \* calls and edits of a behaviour
  Absent,       \* no file, no key, no snapshot, no backend
  Garbage       \* a file that is not one of parameters

ASSUME TuningAssumption ==
  /\ Home \in Paths /\ DefaultSoft \in Nat \ {0} /\ DefaultHard \in Nat /\ DefaultSoft <= DefaultHard
  /\ Softs \subseteq Nat /\ Hards \subseteq Nat
  /\ Absent \notin [soft : Nat, hard : Nat]

VARIABLES
  files,    \* what each file holds
  path,     \* CONFIG_PATH_OVERRIDE, or the default
  snapshot, \* TUNING_PROVIDER
  opener,   \* what each caller is doing
  opened,   \* the thresholds of the backend each caller opened last
  edits,
  said,     \* what the file in force said while a caller's call was under way alone
  alone     \* no other call installed in that time

tuningVars == <<files, path, snapshot, opener, opened, edits, said, alone>>

LargerOf(a, b) == IF a >= b THEN a ELSE b

---------------------------------------------------------------------------
(* tuning.rs, file_config.rs, flush_thresholds.rs *)

Thresholds(s, h) == [soft |-> s, hard |-> h]
Defaults == Thresholds(DefaultSoft, DefaultHard)
Parameters == [soft : Softs, hard : Hards \cup {Absent}, fits : BOOLEAN]

Missing == {p \in Paths : files[p] = Absent}
DefaultFile == [soft |-> DefaultSoft, hard |-> DefaultHard, fits |-> TRUE]

\* resolved_pending_hard_flush_threshold
HardOf(file) == IF file.hard = Absent THEN LargerOf(DefaultHard, file.soft) ELSE file.hard

\* BpannTuning::validate
Valid(file) == file.fits /\ file.soft >= 1 /\ HardOf(file) >= 1 /\ HardOf(file) >= file.soft

\* Config::load, to_tuning
LoadedTuning(content) ==
  IF content \in {Absent, Garbage} THEN Defaults
  ELSE IF Valid(content) THEN Thresholds(content.soft, HardOf(content)) ELSE Defaults

\* current_tuning.  A snapshot is of a file that was valid when it was loaded.
CurrentTuning == IF snapshot = Absent THEN Defaults ELSE snapshot

WithSoft(b, soft) == Thresholds(soft, LargerOf(b.hard, soft))
WithHard(b, hard) == Thresholds(b.soft, LargerOf(hard, b.soft))
Reconfigured(soft, hard) == Thresholds(LargerOf(soft, 1), LargerOf(hard, LargerOf(soft, 1)))

\* What a file may hold while it is being written: the first of its bytes.  The keys are
\* in order, a number may be cut short, and a missing key is its default.
CutShort(file) ==
  {Garbage, [soft |-> DefaultSoft, hard |-> Absent, fits |-> TRUE]}
  \cup {[soft |-> s, hard |-> Absent, fits |-> TRUE] : s \in 1..file.soft}
  \cup {[soft |-> file.soft, hard |-> h, fits |-> TRUE] :
          h \in IF file.hard = Absent THEN {} ELSE 1..file.hard}

---------------------------------------------------------------------------
(* The calls, one lock or one access to a file to a step.                  *)

Resting == [at |-> "rest"]
UnderWay(c) == opener[c].at # "rest"
IsAt(c, step) == opener[c].at = step
Goto(c, step) == opener' = [opener EXCEPT ![c].at = step]
Rest(c) == opener' = [opener EXCEPT ![c] = Resting]

Edited == edits < MaxEdits /\ edits' = edits + 1
Begin(c, step, what) ==
  /\ ~UnderWay(c) /\ Edited
  /\ opener' = [opener EXCEPT ![c] = [at |-> step, what |-> what, from |-> Absent, read |-> Absent]]

\* set_config_path
SetConfigPath(c) ==
  \E p \in Paths :
    /\ Begin(c, "path", [call |-> "path"])
    /\ path' = p
    /\ UNCHANGED <<files, snapshot, opened>>

\* ensure_config_file, which loads the file once more.
EnsureConfigFile(c) ==
  /\ Begin(c, "path", [call |-> "ensure"])
  /\ UNCHANGED <<files, path, snapshot, opened>>

\* DiskBpannEnnBackend::new, new_empty.  The mutant forgets to install.
OpenUninstalled(c) ==
  /\ Begin(c, "open", [call |-> "open"])
  /\ UNCHANGED <<files, path, snapshot, opened>>
Open(c) ==
  /\ Begin(c, "path", [call |-> "open"])
  /\ UNCHANGED <<files, path, snapshot, opened>>

\* new_empty_with_flush_threshold: the cap is of the snapshot there was.
OpenWithSoft(c) ==
  \E soft \in Softs :
    /\ Begin(c, "path", [call |-> "thresholds", soft |-> soft,
                         hard |-> LargerOf(CurrentTuning.hard, soft)])
    /\ UNCHANGED <<files, path, snapshot, opened>>

\* new_empty_with_flush_thresholds
OpenWithBoth(c) ==
  \E soft \in Softs, hard \in Hards :
    /\ Begin(c, "path", [call |-> "thresholds", soft |-> soft, hard |-> hard])
    /\ UNCHANGED <<files, path, snapshot, opened>>

\* install_bpann_tuning_from_config: the path, then its file, then the snapshot.
ReadPath(c) ==
  /\ IsAt(c, "path")
  /\ opener' = [opener EXCEPT ![c].from = path, ![c].at = "load"]
  /\ UNCHANGED <<files, path, snapshot, opened, edits>>

\* ensure_exists: a file that is missing is written, though it may be there by then, and
\* whatever goes wrong is not noticed.
EnsureExists(c) ==
  /\ IsAt(c, "load")
  /\ Goto(c, IF opener[c].from \in Missing THEN "create" ELSE "read")
  /\ UNCHANGED <<files, path, snapshot, opened, edits>>

CreateFile(c) ==
  /\ IsAt(c, "create")
  /\ \/ files' = files /\ Goto(c, "read")
     \/ \E part \in CutShort(DefaultFile) :
          files' = [files EXCEPT ![opener[c].from] = part] /\ Goto(c, "fill")
  /\ UNCHANGED <<path, snapshot, opened, edits>>

FillFile(c) ==
  /\ IsAt(c, "fill")
  /\ files' \in {files, [files EXCEPT ![opener[c].from] = DefaultFile]}
  /\ Goto(c, "read")
  /\ UNCHANGED <<path, snapshot, opened, edits>>

\* Config::load, the read.
LoadFile(c) ==
  /\ IsAt(c, "read")
  /\ opener' = IF opener[c].what.call = "load" THEN [opener EXCEPT ![c] = Resting]
               ELSE [opener EXCEPT ![c].read = LoadedTuning(files[opener[c].from]), ![c].at = "install"]
  /\ UNCHANGED <<files, path, snapshot, opened, edits>>

Install(c) ==
  /\ IsAt(c, "install")
  /\ snapshot' = opener[c].read
  /\ CASE opener[c].what.call = "path" -> Rest(c)
       [] opener[c].what.call = "ensure" ->
            opener' = [opener EXCEPT ![c].what.call = "load", ![c].at = "path"]
       [] OTHER -> Goto(c, "open")
  /\ UNCHANGED <<files, path, opened, edits>>

\* A refused call leaves no backend of its own.
Refused(what) == what.soft = 0 \/ what.hard = 0 \/ what.hard < what.soft
OpenBackend(c) ==
  /\ IsAt(c, "open")
  /\ LET what == opener[c].what
         given == IF what.call = "open" THEN CurrentTuning ELSE what
     IN opened' = IF what.call = "thresholds" /\ Refused(what) THEN opened
                  ELSE [opened EXCEPT ![c] = WithHard(WithSoft(Defaults, given.soft), given.hard)]
  /\ Rest(c)
  /\ UNCHANGED <<files, path, snapshot, edits>>

Reconfigure(c) ==
  \E soft \in Softs, hard \in Hards :
    /\ ~UnderWay(c) /\ opened[c] # Absent /\ Edited
    /\ opened' = [opened EXCEPT ![c] = Reconfigured(soft, hard)]
    /\ UNCHANGED <<files, path, snapshot, opener>>

\* Config::save, of a path: what is invalid is refused, the file is truncated, and then
\* written, unless the write fails.
Save(c) ==
  \E p \in Paths, file \in {f \in Parameters : Valid(f)} :
    /\ Begin(c, "write", [call |-> "save", path |-> p, file |-> file])
    /\ files' \in {[files EXCEPT ![p] = part] : part \in CutShort(file)}
    /\ UNCHANGED <<path, snapshot, opened>>
Write(c) ==
  /\ IsAt(c, "write")
  /\ files' \in {files, [files EXCEPT ![opener[c].what.path] = opener[c].what.file]}
  /\ Rest(c)
  /\ UNCHANGED <<path, snapshot, opened, edits>>

\* The user's editor.
Edit ==
  \E p \in Paths, content \in Parameters \cup {Garbage, Absent} :
    /\ Edited
    /\ files' = [files EXCEPT ![p] = content]
    /\ UNCHANGED <<path, snapshot, opener, opened>>

\* The process ends and another starts.
Restart ==
  /\ Edited
  /\ path' = Home /\ snapshot' = Absent
  /\ opener' = [c \in Openers |-> Resting] /\ opened' = [c \in Openers |-> Absent]
  /\ UNCHANGED files

---------------------------------------------------------------------------
(* What the file in force says, and what it said while a call was under    *)
(* way; a call that shared its time with another that installs, or with a  *)
(* change of the path, is told apart.                                      *)

Says(content) ==
  IF content \in {Absent, Garbage} THEN Defaults
  ELSE LET cap == IF content.hard # Absent THEN content.hard ELSE LargerOf(DefaultHard, content.soft)
       IN IF content.fits /\ content.soft \in 1..cap THEN Thresholds(content.soft, cap) ELSE Defaults

Alone(c) == \A d \in Openers \ {c} : opener'[d].at \in {"rest", "write"}

TuningInit ==
  /\ files = [p \in Paths |-> Absent] /\ path = Home /\ snapshot = Absent
  /\ opener = [c \in Openers |-> Resting] /\ opened = [c \in Openers |-> Absent]
  /\ edits = 0
  /\ said = [c \in Openers |-> {}] /\ alone = [c \in Openers |-> TRUE]

TuningNext ==
  /\ \/ \E c \in Openers :
          \/ SetConfigPath(c) \/ EnsureConfigFile(c)
          \/ Open(c) \/ OpenWithSoft(c) \/ OpenWithBoth(c) \/ Reconfigure(c)
          \/ ReadPath(c) \/ EnsureExists(c) \/ CreateFile(c) \/ FillFile(c) \/ LoadFile(c)
          \/ Install(c) \/ OpenBackend(c)
          \/ Save(c) \/ Write(c)
     \/ Edit \/ Restart
  /\ alone' = [c \in Openers |-> opener'[c].at = "rest" \/ (alone[c] /\ Alone(c))]
  /\ said' = [c \in Openers |->
                IF opener'[c].at = "rest" \/ ~alone'[c] THEN {}
                ELSE said[c] \cup {Says(files[path]), Says(files'[path'])}]

TuningSpec == TuningInit /\ [][TuningNext]_tuningVars

---------------------------------------------------------------------------
(* enn_backend.rs, file_config.rs, tuning.rs: whatever is in the file, while it is edited   *)
(* or written, and whoever else opens models, a backend's soft threshold is at least one    *)
(* and at most its hard one; an open that no other call installs beside has the thresholds  *)
(* the file in force said while it ran, and one that is given thresholds has those.         *)
ThresholdsFollowFile ==
  [][\A c \in Openers : opened'[c] \notin {opened[c], Absent} =>
       LET b == opened'[c]
           what == opener[c].what
       IN /\ 1 <= b.soft /\ b.soft <= b.hard
          /\ UnderWay(c) /\ what.call = "thresholds" => b = Thresholds(what.soft, what.hard)
          /\ UnderWay(c) /\ what.call = "open" /\ alone[c] => b \in said[c]]_tuningVars
=============================================================================
