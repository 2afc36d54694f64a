------------------------------- MODULE Environ -------------------------------
(***************************************************************************)
(* The PROM's environment: libsk/ml/env.c over the string_list environ_str *)
(* (getenv.c).  It lives in RAM only, and _setenv() answers ESUCCESS       *)
(* whether or not the string list had room for the new string.             *)
(***************************************************************************)
EXTENDS StringList

CONSTANTS
  Chars,         (* what the cells of a string hold                        *)
  Defaults,      (* default_env: sequence of <<name, value>>               *)
  VARIABLE_NAMES,(* special_tab: the names with flag VARIABLE              *)
  READONLY_NAMES (* special_tab: the names with flag SENV_READONLY         *)

(* No default is a variable that a C global mirrors.                       *)
ASSUME DefaultsAssumption ==
  /\ NUL \notin Chars
  /\ Defaults \in Seq(Chars \X Seq(Chars))
  /\ \A k \in DOMAIN Defaults : Defaults[k][1] \notin VARIABLE_NAMES

VARIABLES
  environ,       (* environ_str                                            *)
  mirror         (* the C globals of special_tab, by the value they came   *)
                 (* from; <<>> is the number 0                             *)

envVars == <<environ, mirror>>

(* init_env() and resetenv(): syssetenv() of every default.                *)
WithDefaults(sl) ==
  LET upTo[k \in 0 .. Len(Defaults)] ==
        IF k = 0 THEN InitStr(sl)
        ELSE ReplaceStr(Defaults[k][1], Defaults[k][2], upTo[k - 1])
  IN upTo[Len(Defaults)]

InitEnv ==
  /\ environ = WithDefaults(Blank)
  /\ mirror = [n \in VARIABLE_NAMES |-> <<>>]

(* The globals are in BSS, and init_env() meets the defaults only.         *)
ResetEnv ==
  /\ environ' = WithDefaults(environ)
  /\ UNCHANGED mirror

Denied(name, override) == name \in READONLY_NAMES /\ override # 1

Mirrored(name, value) ==
  [n \in VARIABLE_NAMES |-> IF n = name THEN value ELSE mirror[n]]

(* _setenv().  An empty value unsets the variable.                         *)
SetEnv(name, value, override) ==
  IF Denied(name, override)
  THEN UNCHANGED envVars
  ELSE /\ mirror' = Mirrored(name, value)
       /\ environ' = IF value = <<>> THEN DeleteStr(name, environ)
                     ELSE ReplaceStr(name, value, environ)
==============================================================================
