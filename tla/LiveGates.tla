------------------------------ MODULE LiveGates ------------------------------
(***************************************************************************)
(* The launch check of production_replay: its gates over the configuration *)
(* in config_locked.yaml and the last report of phase 7.                   *)
(*                                                                         *)
(* The configuration is edited, the report is renewed, PyYAML may or may   *)
(* not be there, and the launch check runs at any time.  Without PyYAML,   *)
(* which no requirements file names, the launch check reads the file with  *)
(* a parser of its own that knows flags but no lists.                      *)
(***************************************************************************)
EXTENDS Integers

CONSTANTS
  Pairs,        \* (symbol, timeframe) pairs
  Results,      \* a pair's line in the report: trades, ev, pf, dd
  MaxEdits      \* bound: edits of either file

VARIABLES
  config,       \* config_locked.yaml: live, paper, dry, allowed, blocked
  report,       \* the report: what json.load makes of it, and its lines
  yaml,         \* PyYAML can be imported
  verdict,      \* the last launch check, NotRun after an edit
  edits

vars == <<config, report, yaml, verdict, edits>>

Absent == "absent"
Flags == {"true", "false", Absent}
Limits == MaxEdits \in Nat

(* A report that is not there or cannot be parsed, one that is an empty     *)
(* object, and one with the lines of some pairs, or of none.                *)
NoLines == [p \in {} |-> 0]
Missing == [is |-> "missing", lines |-> NoLines]
Empty == [is |-> "empty", lines |-> NoLines]
Written == [is : {"written"}, lines : UNION {[S -> Results] : S \in SUBSET Pairs}]

-----------------------------------------------------------------------------
(* load_config and _parse_yaml_simple: `allowed_configs:' has no value on   *)
(* its line, so it becomes None, and so does `blocked_configs:'.            *)
Lists(pairs, parser) == IF parser THEN pairs ELSE {}
Loaded(c, parser) ==
  [c EXCEPT !.allowed = Lists(c.allowed, parser), !.blocked = Lists(c.blocked, parser)]

(* Gates 1 to 3: an absent flag is taken for the dangerous value.           *)
FlagsLocked(c) == c.live = "false" /\ c.paper = "false" /\ c.dry = "true"
(* Gate 5, `if ok and report': every allowed pair has a good line, unless   *)
(* the report is false to Python.                                           *)
Good(line) == line.trades > 0 /\ line.ev > 0 /\ 2 * line.pf >= 3 /\ line.dd < 12
AllowedValid(c, r) ==
  r.is = "written" => \A p \in c.allowed : p \in DOMAIN r.lines /\ Good(r.lines[p])
(* run_launch_check with a clean tree; a missing report fails a gate.       *)
Launch(c, r) ==
  IF /\ FlagsLocked(c)
     /\ c.allowed \cap c.blocked = {}
     /\ r.is # "missing"
     /\ AllowedValid(c, r)
  THEN "PASS" ELSE "BLOCKED"

-----------------------------------------------------------------------------
(* Any configuration that leaves paper trading off.                         *)
Configs ==
  [live : Flags, paper : {"false"}, dry : {"true", Absent},
   allowed : SUBSET Pairs, blocked : SUBSET Pairs]
Init ==
  /\ config \in Configs
  /\ report = Missing /\ yaml \in BOOLEAN /\ verdict = "NotRun" /\ edits = 0

Edited == edits < MaxEdits /\ edits' = edits + 1 /\ verdict' = "NotRun"
Allow(p) ==
  /\ Edited /\ config' = [config EXCEPT !.allowed = @ \cup {p}]
  /\ UNCHANGED <<report, yaml>>
(* The report is rewritten in place, so that it may be cut off.             *)
Report ==
  /\ Edited /\ report' \in {Missing, Empty} \cup Written
  /\ UNCHANGED <<config, yaml>>
Check ==
  /\ verdict = "NotRun" /\ verdict' = Launch(Loaded(config, yaml), report)
  /\ UNCHANGED <<config, report, yaml, edits>>

Next == (\E p \in Pairs : Allow(p)) \/ Report \/ Check
Spec == Init /\ [][Next]_vars

-----------------------------------------------------------------------------
(* What the launch check says of a configuration it lets pass: "each        *)
(* allowed config has EV > 0, PF >= 1.5, DD < 12.0R in latest report".      *)
LaunchIsBacked ==
  verdict = "PASS" =>
    \A p \in config.allowed : p \in DOMAIN report.lines /\ Good(report.lines[p])
=============================================================================
