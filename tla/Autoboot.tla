------------------------------- MODULE Autoboot -------------------------------
(***************************************************************************)
(* libsc/lib/auto.c and bootname.c over the environment.                   *)
(*                                                                         *)
(* autoboot() asks make_bootfile() for one boot file after the other; for  *)
(* each it sets "kernname" and calls Execute(), until one succeeds or no   *)
(* path is left.  make_bootfile() keeps two pointers into the values of    *)
(* OSLoadPartition and OSLoadFilename from one call to the next, so it     *)
(* reads the string list that the setenv() between the calls writes.       *)
(* Nothing in this build calls the handlers given to Signal(), and the     *)
(* auto command passes no delay: the loop cannot be interrupted.           *)
(*                                                                         *)
(* The cells of a value are path pieces (a run of other characters, quoted *)
(* or not), the separator ";" and " ".                                     *)
(***************************************************************************)
EXTENDS Environ

CONSTANTS
  UserSets,      (* <<name, value, override>>: the setenv commands typed   *)
  KERN_ENVP      (* entries of the kernel's environment Execute() fills    *)

SPACE == " "
SEMICOLON == ";"
SLASH == "/"

ASSUME EnvpAssumption == KERN_ENVP \in Nat
ASSUME UserAssumption ==
  /\ {"kernname", SLASH} \subseteq Chars
  /\ \A c \in UserSets : c[1] \in Chars /\ c[2] \in Seq(Chars) \ {<<>>}

VARIABLES
  pc,            (* idle: the prompt; next: the top of autoboot()'s loop;  *)
                 (* exec: in Execute(); boot, execonce: the boot command;  *)
                 (* run: the booted program has control                    *)
  sp, osl,       (* make_bootfile()'s static pointers into strbuf          *)
  savesp,        (* the last partition and the last file name found        *)
  saveosl,
  asked,         (* the two values at the rewind, as the user set them     *)
  tried,         (* the boot files made since the rewind                   *)
  moved,         (* a path variable has moved in strbuf since the rewind   *)
  envp           (* the environment of the program that runs               *)

bootVars == <<sp, osl, savesp, saveosl, asked, tried, moved>>
vars == <<environ, mirror, pc, sp, osl, savesp, saveosl, asked, tried, moved, envp>>

PathNames == {"OSLoadPartition", "OSLoadFilename", "SystemPartition", "OSLoader"}
LeastOf(a, b) == IF a <= b THEN a ELSE b

Init ==
  /\ InitEnv
  /\ pc = "idle" /\ sp = NULL /\ osl = NULL /\ savesp = <<>> /\ saveosl = <<>>
  /\ asked = <<{}, {}>> /\ tried = <<>> /\ moved = FALSE /\ envp = <<>>

(* Back at the prompt.  What make_bootfile() leaves in its statics is dead *)
(* (its next caller rewinds) and the history of the scan is over.          *)
ToPrompt ==
  /\ pc' = "idle" /\ sp' = NULL /\ osl' = NULL /\ savesp' = <<>> /\ saveosl' = <<>>
  /\ asked' = <<{}, {}>> /\ tried' = <<>> /\ moved' = FALSE /\ envp' = <<>>
  /\ UNCHANGED envVars

-----------------------------------------------------------------------------
(* bootname.c.                                                             *)

Separators == {SPACE, SEMICOLON, NUL}
NoPath == <<NUL>>

SkipSpace(buf, p) == Least({q \in p .. STRINGBYTES - 1 : buf[q] # SPACE})

\* Mutant: the scan stops in front of the ";".
EnvGetVarStuck(buf, p) ==
  IF p = NULL THEN [path |-> NoPath, next |-> p]
  ELSE LET from == SkipSpace(buf, p)
           to   == Least({q \in from .. STRINGBYTES - 1 : buf[q] \in Separators})
       IN IF buf[from] = NUL THEN [path |-> NoPath, next |-> from]
          ELSE [path |-> [i \in 1 .. to - from |-> buf[from + i - 1]],
                next |-> SkipSpace(buf, to)]

(* env_get_var(): the piece of the value at p and where the next starts.   *)
EnvGetVar(buf, p) ==
  IF p = NULL THEN [path |-> NoPath, next |-> p]
  ELSE LET from == SkipSpace(buf, p)
           to   == Least({q \in from .. STRINGBYTES - 1 : buf[q] \in Separators})
       IN IF buf[from] = NUL THEN [path |-> NoPath, next |-> from]
          ELSE [path |-> [i \in 1 .. to - from |-> buf[from + i - 1]],
                next |-> SkipSpace(buf, IF buf[to] = SEMICOLON THEN to + 1 ELSE to)]

(* A value, read as make_bootfile() would read it if nothing disturbed it. *)
ValueOf(name) ==
  LET p == ValuePtr(name, environ)
  IN IF p = NULL THEN {} ELSE {StringAt(environ.strbuf, p)}

FirstSet(a, b) == IF ValuePtr(a, environ) # NULL THEN a ELSE b

(* make_bootfile(1) up to the scan.                                        *)
Rewind ==
  LET part == FirstSet("OSLoadPartition", "SystemPartition")
      file == FirstSet("OSLoadFilename", "OSLoader")
  IN /\ sp' = ValuePtr(part, environ) /\ osl' = ValuePtr(file, environ)
     /\ asked' = <<ValueOf(part), ValueOf(file)>>
     /\ savesp' = <<>> /\ saveosl' = <<>>
     /\ tried' = <<>> /\ moved' = FALSE

\* Mutant: a value that has run out is not replaced by its last piece.
OrEmpty(path, saved) == IF path = NoPath THEN <<>> ELSE path

OrSaved(path, saved) == IF path = NoPath THEN saved ELSE path

(* The auto command, menu item 1 and the autoboot at power up: scan from   *)
(* the beginning.  The boot command with no file named asks                *)
(* make_bootfile(1) the same way, once.                                    *)
Start(to) ==
  /\ pc = "idle" /\ pc' = to
  /\ Rewind
  /\ UNCHANGED <<envVars, envp>>

StartAuto == Start("next")
BootCommand == Start("boot")

(* make_bootfile() has hit the end of both variables.                      *)
NoPathLeft ==
  /\ EnvGetVar(environ.strbuf, sp).path = NoPath
  /\ EnvGetVar(environ.strbuf, osl).path = NoPath

(* make_bootfile() has a path, and kernname is set to the boot file.       *)
MakeBootfile(from, to) ==
  LET p == EnvGetVar(environ.strbuf, sp)
      f == EnvGetVar(environ.strbuf, osl)
      newsp == OrSaved(p.path, savesp)
      newosl == OrSaved(f.path, saveosl)
      bootfile == newsp \o <<SLASH>> \o newosl
  IN /\ pc = from /\ pc' = to
     /\ ~NoPathLeft
     /\ sp' = p.next /\ osl' = f.next
     /\ savesp' = newsp /\ saveosl' = newosl
     /\ SetEnv("kernname", bootfile, 0)
     /\ tried' = Append(tried, bootfile)
     /\ moved' = (moved \/ \E n \in PathNames :
                             ValuePtr(n, environ') # ValuePtr(n, environ))
     /\ UNCHANGED <<asked, envp>>

NextBootfile == MakeBootfile("next", "exec")
BootFirst == MakeBootfile("boot", "execonce")

NoBootfileLeft ==
  /\ pc \in {"next", "boot"}
  /\ NoPathLeft
  /\ ToPrompt

-----------------------------------------------------------------------------
(* Execute(), pv_stubs.c: the kernel's environment.                        *)

\* Mutant: the PROM's own console= string is copied as well.
AllCopied ==
  LET all == Strings(environ) IN SubSeq(all, 1, LeastOf(Len(all), KERN_ENVP))

(* The PROM's strings but console=, up to the limit.                       *)
Copied ==
  LET all == Strings(environ)
      upTo[k \in 0 .. Len(all)] ==
        IF k = 0 THEN <<>>
        ELSE IF all[k][1] = "console" \/ Len(upTo[k - 1]) >= KERN_ENVP THEN upTo[k - 1]
        ELSE Append(upTo[k - 1], all[k])
  IN upTo[Len(all)]

Forced ==
  LET absent(name) == \A i \in DOMAIN Copied : Copied[i][1] # name
      ifAbsent(name, value) == IF absent(name) THEN << <<name, value>> >> ELSE <<>>
  IN << <<"console", "d">> >> \o ifAbsent("eaddr", "mac")
     \o ifAbsent("ConsoleIn", "tty0") \o ifAbsent("ConsoleOut", "tty0")
     \o << <<"OSLoadPartition", "p">>, <<"root", "dks0d1s0">>,
           <<"SystemPartition", "v">>, <<"OSLoadFilename", "unix">>,
           <<"showconfig", "1">> >>

KernEnvp ==
  LET all == Copied \o Forced
  IN SubSeq(all, 1, LeastOf(Len(all), KERN_ENVP))

(* The program is loaded, patched and entered.                             *)
ExecRuns ==
  /\ pc \in {"exec", "execonce"} /\ pc' = "run"
  /\ envp' = KernEnvp
  /\ UNCHANGED <<envVars, bootVars>>

(* It is not: autoboot() tries the next boot file, boot() reports.         *)
ExecFails ==
  \/ pc = "exec" /\ pc' = "next" /\ UNCHANGED <<envVars, bootVars, envp>>
  \/ pc = "execonce" /\ ToPrompt

(* While it runs, the program may call SetEnvironmentVariable().           *)
ProgramSetsEnv ==
  /\ pc = "run"
  /\ \E c \in UserSets : SetEnv(c[1], c[2], 0)
  /\ UNCHANGED <<pc, bootVars, envp>>

(* Execute() answers ESUCCESS when the program returns.                    *)
ProgramReturns == pc = "run" /\ ToPrompt

-----------------------------------------------------------------------------
(* The prompt.                                                             *)

UserSetEnv ==
  /\ pc = "idle"
  /\ \E c \in UserSets : SetEnv(c[1], c[2], c[3])
  /\ UNCHANGED <<pc, bootVars, envp>>

UserUnsetEnv ==
  /\ pc = "idle"
  /\ \E c \in UserSets : SetEnv(c[1], <<>>, 0)
  /\ UNCHANGED <<pc, bootVars, envp>>

UserResetEnv ==
  /\ pc = "idle"
  /\ ResetEnv
  /\ UNCHANGED <<pc, bootVars, envp>>

Boot == StartAuto \/ BootCommand \/ NextBootfile \/ BootFirst \/ NoBootfileLeft
Exec == ExecRuns \/ ExecFails \/ ProgramSetsEnv \/ ProgramReturns
User == UserSetEnv \/ UserUnsetEnv \/ UserResetEnv

Next == Boot \/ Exec \/ User

Spec == Init /\ [][Next]_vars
==============================================================================
