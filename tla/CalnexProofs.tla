---------------------------- MODULE CalnexProofs ----------------------------
(***************************************************************************)
(* Proofs of the safety properties of Calnex for any operators, channels,  *)
(* configurations and firmware versions, any number of commands, samples   *)
(* and faults.                                                             *)
(***************************************************************************)
EXTENDS Calnex, FiniteSetTheorems, TLAPS

-----------------------------------------------------------------------------
(* The inductive invariant                                                 *)
-----------------------------------------------------------------------------
Values == {"none", "set", "Yes", "No"} \cup Probes \cup Targets
Settings == [Keys -> Values]
Sample == [n : Nat \ {0}, ch : Channels, label : Values \X Values]
AnyCommand == [name : {"none", "config", "firmware", "export", "reboot", "clear", "report"},
               cc : Configs \cup {<<>>}, v : Nat, chs : SUBSET Channels, apply : BOOLEAN]
Pcs == {"idle", "fetch", "status", "stop", "push", "start", "probe", "target", "csv",
        "print"}
RunState == [cmd : AnyCommand, pc : Pcs, f : Settings \cup {<<>>}, changed : BOOLEAN,
             todo : SUBSET Channels, ch : SUBSET Channels, probe : Values,
             target : Values, csv : SUBSET Sample, success : BOOLEAN]
Lines == [sample : Sample, label : Values \X Values, by : Operators,
          disturbed : BOOLEAN]

TypeInv ==
  /\ settings \in Settings /\ measuring \in BOOLEAN /\ version \in Nat
  /\ samples \subseteq Sample /\ run \in [Operators -> RunState]
  /\ output \subseteq Lines /\ outcome \in [Operators -> {"none", "ok", "error"}]
  /\ taken \in Nat

(* What a command knows of itself, whatever happens to the device: where   *)
(* it can be, and that it holds data only between reading and printing.    *)
Shape(r) ==
  /\ r.pc = "idle" => r = NoRun
  /\ r.pc \in {"status", "stop", "push"} => r.cmd.name \in {"config", "firmware"}
  /\ r.pc = "start" => r.cmd.name = "config"
  /\ r.pc \in {"probe", "target", "csv", "print"} => r.cmd.name = "export"
  /\ r.cmd.name = "config" => r.cmd.cc \in Configs
  /\ (r.cmd.name = "config" /\ r.pc # "fetch") => r.cmd.apply /\ r.f \in Settings
  /\ r.pc \in {"probe", "target", "csv", "print"} => \E c \in Channels : r.ch = {c}
  /\ r.pc \in {"target", "csv", "print"} => r.probe \in Probes
  /\ r.csv # {} => r.pc = "print"
  /\ \A s \in r.csv : s.ch \in r.ch

(* What an undisturbed command knows of the device.                        *)
Knows(r) ==
  /\ (r.cmd.name = "config" /\ r.pc \in {"status", "stop", "push"}) =>
       r.f = SetAll(settings, Wanted(r.cmd.cc))
  /\ (r.cmd.name = "config" /\ r.pc = "status") => r.changed = (r.f # settings)
  /\ (r.cmd.name = "config" /\ r.pc \in {"stop", "push"}) => r.f # settings
  /\ r.pc = "start" => Agrees(settings, r.cmd.cc)
  /\ r.pc \in {"push", "start"} => ~measuring
  /\ (r.cmd.name = "firmware" /\ r.pc \in {"status", "stop", "push"}) => version < r.cmd.v
  /\ r.pc \in {"target", "csv", "print"} =>
       \A c \in r.ch : r.probe = settings[<<c, "probe">>]
  /\ r.pc \in {"csv", "print"} => \A c \in r.ch : r.target = settings[<<c, r.probe>>]

Undisturbed == \A o \in Operators \ disturbed : Knows(run[o])

(* A sample not marked relabelled was measured as its channel is set up.   *)
Labelled == \A s \in Held : s.n \in relabelled \/ s.label = Label(settings, s.ch)

OnDevice(n) == \E s \in samples : s.n = n
With(o, n) == \E s \in run[o].csv : s.n = n
Printed(n) == \E l \in output : l.sample.n = n

(* Every sample taken is in one place, and there once.                     *)
Placed ==
  /\ \A n \in lost : n \in 1 .. taken
  /\ \A s \in Held : s.n \in 1 .. taken
  /\ \A l \in output : l.sample.n \in 1 .. taken
  /\ \A s, t \in samples : s.n = t.n => s = t
  /\ \A o \in Operators : \A s, t \in run[o].csv : s.n = t.n => s = t
  /\ \A l, m \in output : l.sample.n = m.sample.n => l = m
  /\ \A n \in 1 .. taken :
       /\ OnDevice(n) \/ (\E o \in Operators : With(o, n)) \/ Printed(n) \/ n \in lost
       /\ OnDevice(n) => ~Printed(n) /\ n \notin lost
       /\ Printed(n) => n \notin lost
       /\ \A o \in Operators : With(o, n) =>
            /\ ~OnDevice(n) /\ ~Printed(n) /\ n \notin lost
            /\ \A p \in Operators : With(p, n) => p = o

Running == \A o \in Operators : /\ Shape(run[o])
                                /\ run[o].pc # "idle" => outcome[o] = "none"

IInv == TypeInv /\ Running /\ Undisturbed /\ Labelled /\ LabelRight /\ Placed

-----------------------------------------------------------------------------
(* Facts about the operators                                               *)
-----------------------------------------------------------------------------
\* The keys a configuration sets are settings of the device, with values it
\* can have.
LEMMA WantedType ==
  ASSUME NEW cc \in Configs
  PROVE  /\ DOMAIN Wanted(cc) = WantedKeys(cc) /\ WantedKeys(cc) \subseteq Keys
         /\ \A k \in WantedKeys(cc) : Wanted(cc)[k] \in Values
<1>1. PICK chs \in SUBSET Channels : cc \in [chs -> [probe : Probes, target : Targets]]
  BY CalnexAssumption, Zenon
<1>2. \A ch \in DOMAIN cc : /\ ch \in Channels /\ cc[ch].probe \in Probes
                            /\ cc[ch].target \in Targets
  BY <1>1, Zenon
<1>3. WantedKeys(cc) \subseteq Keys
  BY <1>2 DEF WantedKeys, Keys
<1>4. ASSUME NEW k \in WantedKeys(cc)
      PROVE  Wanted(cc)[k] \in Values
  <2>1. CASE k = <<"all", "base">>
    BY <2>1, <1>4, Zenon DEF Wanted, Values
  <2>2. CASE k \in Channels \X {"used"}
    BY <2>2, <1>4, Zenon DEF Wanted, Values
  <2>3. ASSUME NEW ch \in DOMAIN cc, k = <<ch, "probe">>
        PROVE  Wanted(cc)[k] \in Values
    BY <2>3, <1>2, <1>4, Zenon DEF Wanted, Values
  <2>4. ASSUME NEW ch \in DOMAIN cc, k = <<ch, cc[ch].probe>>
        PROVE  Wanted(cc)[k] \in Values
    <3>1. k[1] = ch /\ k[2] \in {"ptp", "ntp"}
      BY <2>4, <1>2, Zenon DEF Probes
    <3>2. Wanted(cc)[k] = cc[ch].target
      BY <3>1, <1>4, Zenon DEF Wanted
    <3>3. QED
      BY <3>2, <1>2, Zenon DEF Values
  <2>5. QED
    BY <1>4, <2>1, <2>2, <2>3, <2>4, Zenon DEF WantedKeys
<1>5. QED
  BY <1>3, <1>4, Zenon DEF Wanted

\* Setting every key as asked makes the settings agree, and changes nothing
\* exactly if they did so before.
LEMMA SetAllAgrees ==
  ASSUME NEW s \in Settings, NEW cc \in Configs
  PROVE  /\ SetAll(s, Wanted(cc)) \in Settings
         /\ Agrees(SetAll(s, Wanted(cc)), cc)
         /\ SetAll(s, Wanted(cc)) = s <=> Agrees(s, cc)
<1> DEFINE w == Wanted(cc)
<1>1. /\ DOMAIN w \subseteq Keys /\ \A k \in DOMAIN w : w[k] \in Values
  BY WantedType, Zenon
<1> HIDE DEF w
<1>2. SetAll(s, w) \in Settings
  BY <1>1, Zenon DEF SetAll, Settings
<1>3. \A k \in DOMAIN w : SetAll(s, w)[k] = w[k]
  BY <1>1, Zenon DEF SetAll
<1>4. SetAll(s, w) = s <=> \A k \in DOMAIN w : s[k] = w[k]
  BY <1>1, Zenon DEF SetAll, Settings
<1>5. QED
  BY <1>2, <1>3, <1>4, Zenon DEF w, Agrees

-----------------------------------------------------------------------------
(* What a step does to the operators' commands                             *)
-----------------------------------------------------------------------------
\* What a step of o must do for the part of the invariant about commands.
Kept(o) ==
  /\ run' \in [Operators -> RunState]
  /\ outcome' \in [Operators -> {"none", "ok", "error"}]
  /\ \A p \in Operators \ {o} : run'[p] = run[p] /\ outcome'[p] = outcome[p]
  /\ Shape(run[o])' /\ (run'[o].pc # "idle" => outcome'[o] = "none")
  /\ o \notin disturbed' => Knows(run[o])'

\* A process that is not there is in order.
LEMMA NoRunType == NoRun \in RunState
  BY Zenon DEF NoRun, RunState, AnyCommand, Pcs, Values, Command

\* The end of a command.
LEMMA FinishKept ==
  ASSUME TypeInv, NEW o \in Operators, NEW out \in {"ok", "error"}, Finish(o, out)
  PROVE  /\ Kept(o) /\ run' = [run EXCEPT ![o] = NoRun]
         /\ run'[o] = NoRun /\ run'[o].csv = {} /\ outcome'[o] = out
<1>1. run' \in [Operators -> RunState] /\ run'[o] = NoRun
  BY NoRunType, Zenon DEF Finish, TypeInv
<1>2. /\ outcome' \in [Operators -> {"none", "ok", "error"}] /\ outcome'[o] = out
      /\ \A p \in Operators \ {o} : run'[p] = run[p] /\ outcome'[p] = outcome[p]
  BY Zenon DEF Finish, TypeInv
<1>3. NoRun.pc = "idle" /\ NoRun.cmd.name = "none" /\ NoRun.csv = {}
  BY Zenon DEF NoRun, Command
<1>4. Shape(run[o])'
  BY <1>1, <1>3, Zenon DEF Shape
<1>5. Knows(run[o])'
  BY <1>1, <1>3, Zenon DEF Knows
<1>6. QED
  BY <1>1, <1>2, <1>3, <1>4, <1>5, Zenon DEF Kept, Finish

\* The next call of a command.
LEMMA GotoRun ==
  ASSUME TypeInv, NEW o \in Operators, NEW pc \in Pcs, Goto(o, pc)
  PROVE  /\ run' \in [Operators -> RunState] /\ run'[o] = [run[o] EXCEPT !.pc = pc]
         /\ \A p \in Operators \ {o} : run'[p] = run[p]
         /\ outcome' = outcome
<1>1. run[o] \in RunState /\ [run[o] EXCEPT !.pc = pc] \in RunState
  BY Zenon DEF TypeInv, RunState
<1>2. run' = [run EXCEPT ![o] = [run[o] EXCEPT !.pc = pc]] /\ outcome' = outcome
  BY Zenon DEF Goto
<1>3. QED
  BY <1>1, <1>2, Zenon DEF TypeInv

\* The next channel of an export.
LEMMA NextChannelRun ==
  ASSUME TypeInv, NEW o \in Operators, NEW todo \in SUBSET Channels, NEW ok \in BOOLEAN,
         NextChannel(o, todo, ok), run[o].cmd.name = "export", run[o].pc # "idle",
         outcome[o] = "none", Shape(run[o])
  PROVE  Kept(o) /\ run'[o].csv = {}
<1>1. CASE todo = {}
  <2>1. Finish(o, IF ok THEN "ok" ELSE "error")
    BY <1>1, Zenon DEF NextChannel
  <2>2. (IF ok THEN "ok" ELSE "error") \in {"ok", "error"}
    BY Zenon
  <2>3. QED
    BY <2>1, <2>2, FinishKept, Zenon
<1>2. CASE todo # {}
  <2>1. PICK ch \in todo :
          run' = [run EXCEPT ![o].pc = "probe", ![o].todo = todo \ {ch},
                             ![o].ch = {ch}, ![o].csv = {}, ![o].success = ok]
    BY <1>2, Zenon DEF NextChannel
  <2> DEFINE r == [run[o] EXCEPT !.pc = "probe", !.todo = todo \ {ch}, !.ch = {ch},
                                 !.csv = {}, !.success = ok]
  <2>2. run[o] \in RunState
    BY Zenon DEF TypeInv
  <2>3. r \in RunState
    BY <2>2, Zenon DEF RunState, Pcs
  <2>4. r.pc = "probe" /\ r.cmd = run[o].cmd /\ r.ch = {ch} /\ r.csv = {}
    BY <2>2, Zenon DEF RunState
  <2>5. run' = [run EXCEPT ![o] = r]
    BY <2>1, Zenon
  <2> HIDE DEF r
  <2>6. /\ run' \in [Operators -> RunState] /\ run'[o] = r
        /\ \A p \in Operators \ {o} : run'[p] = run[p]
    BY <2>3, <2>5, Zenon DEF TypeInv
  <2>7. outcome' = outcome
    BY <1>2, Zenon DEF NextChannel
  <2>8. Shape(run[o])'
    BY <2>4, <2>6, Zenon DEF Shape
  <2>9. Knows(run[o])'
    BY <2>4, <2>6, Zenon DEF Knows
  <2>10. QED
    BY <2>4, <2>6, <2>7, <2>8, <2>9, Zenon DEF Kept, TypeInv
<1>3. QED
  BY <1>1, <1>2, Zenon

\* A command starts knowing nothing of the device.
LEMMA StartKept ==
  ASSUME IInv, NEW o \in Operators, NEW c \in Commands, Start(o, c)
  PROVE  Kept(o) /\ run'[o].csv = {}
<1> DEFINE r == [NoRun EXCEPT !.cmd = c, !.pc = "fetch"]
<1>1. c \in AnyCommand /\ (c.name = "config" => c.cc \in Configs)
  <2>1. CASE c \in ConfigCommands
    BY <2>1 DEF ConfigCommands, AnyCommand, Command
  <2>2. CASE c \in FirmwareCommands
    BY <2>2, CalnexAssumption DEF FirmwareCommands, AnyCommand, Command
  <2>3. CASE c \in ExportCommands
    <3>1. PICK chs \in {{}, Channels} : c = Command("export", <<>>, 0, chs, FALSE)
      BY <2>3, Zenon DEF ExportCommands
    <3>2. chs \in SUBSET Channels
      BY <3>1, Zenon
    <3>3. QED
      BY <3>1, <3>2, Zenon DEF AnyCommand, Command
  <2>4. CASE c \in {Command(n, <<>>, 0, {}, FALSE) : n \in {"reboot", "clear", "report"}}
    <3>1. PICK n \in {"reboot", "clear", "report"} : c = Command(n, <<>>, 0, {}, FALSE)
      BY <2>4, Zenon
    <3>2. QED
      BY <3>1, Zenon DEF AnyCommand, Command
  <2>5. QED
    BY <2>1, <2>2, <2>3, <2>4, Zenon DEF Commands
<1>2. r \in RunState
  BY <1>1, NoRunType, Zenon DEF RunState, Pcs
<1>3. r.pc = "fetch" /\ r.cmd = c /\ r.csv = {}
  BY Zenon DEF NoRun
<1>4. run' = [run EXCEPT ![o] = r] /\ outcome' = [outcome EXCEPT ![o] = "none"]
  BY Zenon DEF Start
<1> HIDE DEF r
<1>5. /\ run' \in [Operators -> RunState] /\ run'[o] = r
      /\ outcome' \in [Operators -> {"none", "ok", "error"}] /\ outcome'[o] = "none"
      /\ \A p \in Operators \ {o} : run'[p] = run[p] /\ outcome'[p] = outcome[p]
  BY <1>2, <1>4, Zenon DEF IInv, TypeInv
<1>6. Shape(run[o])'
  BY <1>1, <1>3, <1>5, Zenon DEF Shape
<1>7. Knows(run[o])'
  BY <1>3, <1>5, Zenon DEF Knows
<1>8. QED
  BY <1>3, <1>5, <1>6, <1>7, Zenon DEF Kept

\* Config reads the settings.
LEMMA ConfigFetchKept ==
  ASSUME IInv, NEW o \in Operators, ConfigFetch(o)
  PROVE  Kept(o) /\ run'[o].csv = run[o].csv
<1> DEFINE f == SetAll(settings, Wanted(run[o].cmd.cc))
           r == [run[o] EXCEPT !.pc = "status", !.f = f, !.changed = (f # settings)]
<1>1. /\ run[o] \in RunState /\ Shape(run[o]) /\ run[o].cmd.name = "config"
      /\ run[o].pc = "fetch" /\ run[o].csv = {} /\ outcome[o] = "none"
      /\ run[o].cmd.cc \in Configs
  BY Zenon DEF IInv, TypeInv, Running, Shape, ConfigFetch, At
<1>2. CASE Finish(o, "ok") \/ Finish(o, "error")
  BY <1>1, <1>2, FinishKept, Zenon DEF IInv
<1>3. CASE run[o].cmd.apply /\ run' = [run EXCEPT ![o] = r] /\ outcome' = outcome
  <2>1. settings \in Settings
    BY Zenon DEF IInv, TypeInv
  <2>2. f \in Settings
    BY <1>1, <2>1, SetAllAgrees, Zenon
  <2>3. settings' = settings
    BY Zenon DEF ConfigFetch, device
  <2> HIDE DEF f
  <2>4. r \in RunState
    BY <1>1, <2>2, Zenon DEF RunState, Pcs
  <2>5. /\ r.pc = "status" /\ r.cmd = run[o].cmd /\ r.f = f /\ r.changed = (f # settings)
        /\ r.csv = {}
    BY <1>1, Zenon DEF RunState
  <2> HIDE DEF r
  <2>6. /\ run' \in [Operators -> RunState] /\ run'[o] = r
        /\ \A p \in Operators \ {o} : run'[p] = run[p]
    BY <1>3, <2>4, Zenon DEF IInv, TypeInv
  <2>7. Shape(run[o])'
    BY <1>1, <1>3, <2>2, <2>5, <2>6, Zenon DEF Shape
  <2>8. Knows(run[o])'
    BY <1>1, <2>3, <2>5, <2>6, Zenon DEF Knows, f
  <2>9. QED
    BY <1>1, <1>3, <2>5, <2>6, <2>7, <2>8, Zenon DEF Kept, IInv, TypeInv
<1>4. QED
  <2>1. \/ Finish(o, "ok") \/ Finish(o, "error")
        \/ /\ run[o].cmd.apply /\ outcome' = outcome
           /\ run' = [run EXCEPT ![o].pc = "status", ![o].f = f,
                                 ![o].changed = (f # settings)]
    BY Zenon DEF ConfigFetch, Changed, FetchSettings
  <2>2. [run EXCEPT ![o].pc = "status", ![o].f = f, ![o].changed = (f # settings)]
          = [run EXCEPT ![o] = r]
    BY Zenon
  <2>3. QED
    BY <1>2, <1>3, <2>1, <2>2, Zenon

\* Between two calls of config or firmware.
LEMMA GotoKept ==
  ASSUME IInv, NEW o \in Operators, NEW pc \in Pcs \ {"idle", "fetch"}, Goto(o, pc),
         run[o].pc # "idle", run[o].csv = {},
         run[o].cmd.name \in {"config", "firmware"},
         pc \in {"status", "stop", "push"} \/ (pc = "start" /\ run[o].cmd.name = "config"),
         run[o].cmd.name = "config" => run[o].pc # "fetch",
         o \notin disturbed' => Knows(run[o])'
  PROVE  Kept(o) /\ run'[o].csv = {}
<1>1. run[o] \in RunState /\ Shape(run[o]) /\ outcome[o] = "none"
  BY Zenon DEF IInv, TypeInv, Running
<1>2. /\ run' \in [Operators -> RunState] /\ run'[o] = [run[o] EXCEPT !.pc = pc]
      /\ \A p \in Operators \ {o} : run'[p] = run[p]
      /\ outcome' = outcome
  BY GotoRun, Zenon DEF IInv
<1>3. /\ run'[o].pc = pc /\ run'[o].cmd = run[o].cmd /\ run'[o].f = run[o].f
      /\ run'[o].csv = {}
  BY <1>1, <1>2, Zenon DEF RunState
<1>4. Shape(run[o])'
  BY <1>1, <1>3, Zenon DEF Shape
<1>5. QED
  BY <1>1, <1>2, <1>3, <1>4, Zenon DEF Kept, IInv, TypeInv

\* What a command that is neither idle nor printing is like.
LEMMA BusyRun ==
  ASSUME IInv, NEW o \in Operators, run[o].pc # "idle"
  PROVE  /\ run[o] \in RunState /\ Shape(run[o]) /\ outcome[o] = "none"
         /\ run[o].pc # "print" => run[o].csv = {}
         /\ run[o].cmd.name = "config" => run[o].cmd.cc \in Configs
         /\ o \notin disturbed => Knows(run[o])
  BY Zenon DEF IInv, TypeInv, Running, Undisturbed, Shape

\* Config looks at the state of the measurement.
LEMMA ConfigStatusKept ==
  ASSUME IInv, NEW o \in Operators, ConfigStatus(o)
  PROVE  Kept(o) /\ run'[o].csv = {}
<1>1. /\ run[o].cmd.name = "config" /\ run[o].pc = "status" /\ run[o].csv = {}
      /\ run[o] \in RunState /\ Shape(run[o]) /\ outcome[o] = "none"
      /\ run[o].cmd.cc \in Configs
      /\ o \notin disturbed => Knows(run[o])
  BY BusyRun, Zenon DEF ConfigStatus, At
<1>2. UNCHANGED <<settings, measuring, version, disturbed>>
  BY Zenon DEF ConfigStatus, device, hist
<1>3. CASE Finish(o, "ok") \/ Finish(o, "error")
  BY <1>3, FinishKept, Zenon DEF IInv
<1>4. ASSUME NEW pc \in {"stop", "push", "start"}, Goto(o, pc), pc = AfterStatus(o)
      PROVE  Kept(o) /\ run'[o].csv = {}
  <2>1. pc \in Pcs \ {"idle", "fetch"}
    BY <1>4, Zenon DEF Pcs
  <2>2. run'[o] = [run[o] EXCEPT !.pc = pc]
    BY <1>4, <2>1, GotoRun, Zenon DEF IInv
  <2>3. run'[o].pc = pc /\ run'[o].cmd = run[o].cmd /\ run'[o].f = run[o].f
    BY <1>1, <2>2, Zenon DEF RunState
  <2>4. /\ pc \in {"stop", "push"} => run[o].changed
        /\ pc = "start" => ~run[o].changed
        /\ pc \in {"push", "start"} => ~measuring
    BY <1>4, Zenon DEF AfterStatus, FetchStatus
  <2>5. ASSUME o \notin disturbed
        PROVE  Knows(run[o])'
    <3>1. /\ run[o].f = SetAll(settings, Wanted(run[o].cmd.cc))
          /\ run[o].changed = (run[o].f # settings)
      BY <1>1, <2>5, Zenon DEF Knows
    <3>2. pc = "start" => Agrees(settings, run[o].cmd.cc)
      BY <1>1, <2>4, <3>1, SetAllAgrees, Zenon DEF IInv, TypeInv
    <3>3. (Agrees(settings, run[o].cmd.cc))' <=> Agrees(settings, run[o].cmd.cc)
      BY <1>2, <2>3, Zenon DEF Agrees
    <3>4. QED
      BY <1>1, <1>2, <1>4, <2>3, <2>4, <3>1, <3>2, <3>3, Zenon DEF Knows
  <2>6. QED
    BY <1>1, <1>2, <1>4, <2>1, <2>5, GotoKept, Zenon
<1>5. QED
  BY <1>3, <1>4, Zenon DEF ConfigStatus, Then, AfterStatus

\* Config and Firmware stop the measurement.
LEMMA StopMeasureKept ==
  ASSUME IInv, NEW o \in Operators, StopMeasure(o)
  PROVE  Kept(o) /\ run'[o].csv = {}
<1>1. /\ run[o].cmd.name \in {"config", "firmware"} /\ run[o].pc = "stop"
      /\ run[o] \in RunState /\ Shape(run[o]) /\ outcome[o] = "none" /\ run[o].csv = {}
      /\ o \notin disturbed => Knows(run[o])
  BY BusyRun, Zenon DEF StopMeasure, Shape
<1>2. UNCHANGED <<settings, version>> /\ (o \in disturbed => o \in disturbed')
  BY Zenon DEF StopMeasure, Disturb
<1>3. CASE Finish(o, "error")
  BY <1>3, FinishKept, Zenon DEF IInv
<1>4. CASE Goto(o, "push") /\ ~measuring'
  <2>1. "push" \in Pcs \ {"idle", "fetch"}
    BY Zenon DEF Pcs
  <2>2. run'[o] = [run[o] EXCEPT !.pc = "push"]
    BY <1>4, <2>1, GotoRun, Zenon DEF IInv
  <2>3. run'[o].pc = "push" /\ run'[o].cmd = run[o].cmd /\ run'[o].f = run[o].f
    BY <1>1, <2>2, Zenon DEF RunState
  <2>4. ASSUME o \notin disturbed
        PROVE  Knows(run[o])'
    BY <1>1, <1>2, <1>4, <2>3, <2>4, Zenon DEF Knows
  <2>5. QED
    BY <1>1, <1>2, <1>4, <2>1, <2>4, GotoKept, Zenon
<1>5. QED
  BY <1>3, <1>4, Zenon DEF StopMeasure, Then

\* Config writes the settings.
LEMMA ConfigPushKept ==
  ASSUME IInv, NEW o \in Operators, ConfigPush(o)
  PROVE  Kept(o) /\ run'[o].csv = {}
<1>1. /\ run[o].cmd.name = "config" /\ run[o].pc = "push"
      /\ run[o] \in RunState /\ Shape(run[o]) /\ outcome[o] = "none" /\ run[o].csv = {}
      /\ run[o].cmd.cc \in Configs
      /\ o \notin disturbed => Knows(run[o])
  BY BusyRun, Zenon DEF ConfigPush, At
<1>2. UNCHANGED <<measuring, version>> /\ (o \in disturbed => o \in disturbed')
  BY Zenon DEF ConfigPush, Disturb
<1>3. CASE Finish(o, "error")
  BY <1>3, FinishKept, Zenon DEF IInv
<1>4. CASE Goto(o, "start") /\ settings' = run[o].f
  <2>1. "start" \in Pcs \ {"idle", "fetch"}
    BY Zenon DEF Pcs
  <2>2. run'[o] = [run[o] EXCEPT !.pc = "start"]
    BY <1>4, <2>1, GotoRun, Zenon DEF IInv
  <2>3. run'[o].pc = "start" /\ run'[o].cmd = run[o].cmd
    BY <1>1, <2>2, Zenon DEF RunState
  <2>4. ASSUME o \notin disturbed
        PROVE  Knows(run[o])'
    <3>1. run[o].f = SetAll(settings, Wanted(run[o].cmd.cc)) /\ ~measuring
      BY <1>1, <2>4, Zenon DEF Knows
    <3>2. Agrees(run[o].f, run[o].cmd.cc)
      BY <1>1, <3>1, SetAllAgrees DEF IInv, TypeInv
    <3>3. (Agrees(settings, run[o].cmd.cc))'
      BY <1>4, <2>3, <3>2, Zenon DEF Agrees
    <3>4. QED
      BY <1>1, <1>2, <2>3, <3>1, <3>3, Zenon DEF Knows
  <2>5. QED
    BY <1>1, <1>2, <1>4, <2>1, <2>4, GotoKept, Zenon
<1>5. QED
  BY <1>3, <1>4, Zenon DEF ConfigPush, Then, PushSettings

\* Firmware compares versions and looks at the state of the measurement.
LEMMA FirmwareKept ==
  ASSUME IInv, NEW o \in Operators, FirmwareVersion(o) \/ FirmwareStatus(o)
  PROVE  Kept(o) /\ run'[o].csv = {}
<1>1. /\ run[o].cmd.name = "firmware" /\ run[o].pc \in {"fetch", "status"}
      /\ run[o] \in RunState /\ Shape(run[o]) /\ outcome[o] = "none" /\ run[o].csv = {}
      /\ o \notin disturbed => Knows(run[o])
  BY BusyRun, Zenon DEF FirmwareVersion, FirmwareStatus, At
<1>2. UNCHANGED <<settings, measuring, version, disturbed>>
  BY Zenon DEF FirmwareVersion, FirmwareStatus, device, hist
<1>3. CASE Finish(o, "ok") \/ Finish(o, "error")
  BY <1>3, FinishKept, Zenon DEF IInv
<1>4. ASSUME NEW pc \in {"status", "stop", "push"}, Goto(o, pc), pc = "push" => ~measuring,
             run[o].pc = "status" \/ version < run[o].cmd.v
      PROVE  Kept(o) /\ run'[o].csv = {}
  <2>1. pc \in Pcs \ {"idle", "fetch"}
    BY <1>4, Zenon DEF Pcs
  <2>2. run'[o] = [run[o] EXCEPT !.pc = pc]
    BY <1>4, <2>1, GotoRun, Zenon DEF IInv
  <2>3. run'[o].pc = pc /\ run'[o].cmd = run[o].cmd
    BY <1>1, <2>2, Zenon DEF RunState
  <2>4. ASSUME o \notin disturbed
        PROVE  Knows(run[o])'
    <3>1. version < run[o].cmd.v
      BY <1>1, <1>4, <2>4, Zenon DEF Knows
    <3>2. QED
      BY <1>1, <1>2, <1>4, <2>3, <3>1, Zenon DEF Knows
  <2>5. QED
    BY <1>1, <1>2, <1>4, <2>1, <2>4, GotoKept, Zenon
<1>5. CASE FirmwareVersion(o)
  BY <1>3, <1>4, <1>5, Zenon DEF FirmwareVersion, NeedsUpdate, FetchVersion
<1>6. CASE FirmwareStatus(o)
  <2>1. run[o].pc = "status"
    BY <1>6, Zenon DEF FirmwareStatus, At
  <2>2. Finish(o, "error") \/ Goto(o, IF measuring THEN "stop" ELSE "push")
    BY <1>6, Zenon DEF FirmwareStatus, Then, FetchStatus
  <2>3. QED
    BY <1>3, <1>4, <2>1, <2>2, Zenon
<1>7. QED
  BY <1>5, <1>6, Zenon

\* The calls after which a command ends in any case.
LEMMA LastCallKept ==
  ASSUME IInv, NEW o \in Operators,
         \/ ConfigStart(o) \/ FirmwarePush(o) \/ Reboot(o) \/ ClearDevice(o)
         \/ Report(o) \/ Kill(o)
  PROVE  Kept(o) /\ run'[o].csv = {}
<1>1. PICK out \in {"ok", "error"} : Finish(o, out)
  BY Zenon DEF ConfigStart, FirmwarePush, Reboot, ClearDevice, Report, Kill
<1>2. QED
  BY <1>1, FinishKept, Zenon DEF IInv

\* What an export that reads or prints a channel is like.
LEMMA ExportRun ==
  ASSUME IInv, NEW o \in Operators, run[o].cmd.name = "export",
         run[o].pc \in {"probe", "target", "csv", "print"}
  PROVE  /\ run[o] \in RunState /\ Shape(run[o]) /\ outcome[o] = "none"
         /\ run[o].pc # "print" => run[o].csv = {}
         /\ \E c \in Channels : run[o].ch = {c}
         /\ run[o].pc # "probe" => run[o].probe \in Probes
         /\ run[o].todo \in SUBSET Channels /\ run[o].success \in BOOLEAN
         /\ o \notin disturbed => Knows(run[o])
<1>1. run[o].pc # "idle"
  BY Zenon
<1>2. /\ run[o] \in RunState /\ Shape(run[o]) /\ outcome[o] = "none"
      /\ run[o].pc # "print" => run[o].csv = {}
      /\ o \notin disturbed => Knows(run[o])
  BY <1>1, BusyRun, Zenon
<1>3. run[o].todo \in SUBSET Channels /\ run[o].success \in BOOLEAN
  BY <1>2, Zenon DEF RunState
<1>4. QED
  BY <1>2, <1>3, Zenon DEF Shape

\* The device has a value for every probe of a channel.
LEMMA SettingsType ==
  ASSUME TypeInv, NEW ch \in Channels
  PROVE  /\ settings[<<ch, "probe">>] \in Values
         /\ \A p \in Probes : settings[<<ch, p>>] \in Values
<1>1. <<ch, "probe">> \in Keys /\ \A p \in Probes : <<ch, p>> \in Keys
  BY Zenon DEF Keys
<1>2. QED
  BY <1>1, Zenon DEF TypeInv, Settings

\* An export finds out its channels.
LEMMA ExportChannelsKept ==
  ASSUME IInv, NEW o \in Operators, ExportChannels(o)
  PROVE  Kept(o) /\ run'[o].csv = {}
<1>1. /\ run[o].cmd.name = "export" /\ run[o].pc = "fetch" /\ run[o] \in RunState
      /\ Shape(run[o]) /\ outcome[o] = "none"
  BY BusyRun, Zenon DEF ExportChannels, At
<1>2. run[o].cmd.chs \in SUBSET Channels
  BY <1>1, Zenon DEF RunState, AnyCommand
<1>3. FetchUsedChannels \in SUBSET Channels
  BY Zenon DEF FetchUsedChannels
<1>4. \/ Finish(o, "error") \/ NextChannel(o, run[o].cmd.chs, FALSE)
      \/ NextChannel(o, FetchUsedChannels, FALSE)
  BY Zenon DEF ExportChannels
<1>5. QED
  BY <1>1, <1>2, <1>3, <1>4, FinishKept, NextChannelRun, Zenon DEF IInv

\* An export asks for the probe of its channel.
LEMMA ExportProbeKept ==
  ASSUME IInv, NEW o \in Operators, ExportProbe(o)
  PROVE  Kept(o) /\ run'[o].csv = {}
<1>1. run[o].cmd.name = "export" /\ run[o].pc = "probe"
  BY Zenon DEF ExportProbe, At
<1>2. /\ run[o] \in RunState /\ Shape(run[o]) /\ outcome[o] = "none" /\ run[o].csv = {}
      /\ run[o].todo \in SUBSET Channels /\ run[o].success \in BOOLEAN
  BY <1>1, ExportRun, Zenon
<1>3. PICK ch \in Channels : run[o].ch = {ch}
  BY <1>1, ExportRun, Zenon
<1> DEFINE p == settings[<<ch, "probe">>]
           r == [run[o] EXCEPT !.pc = "target", !.probe = p]
<1>4. UNCHANGED <<settings, measuring, version, disturbed>>
  BY Zenon DEF ExportProbe, device, hist
<1>5. CASE NextChannel(o, run[o].todo, run[o].success)
  BY <1>1, <1>2, <1>5, NextChannelRun, Zenon DEF IInv
<1>6. CASE /\ p \in Probes /\ outcome' = outcome
           /\ run' = [run EXCEPT ![o].pc = "target", ![o].probe = p]
  <2>1. p \in Values
    BY SettingsType, Zenon DEF IInv
  <2>2. run' = [run EXCEPT ![o] = r]
    BY <1>6, Zenon
  <2> HIDE DEF p
  <2>3. r \in RunState
    BY <1>2, <2>1, Zenon DEF RunState, Pcs
  <2>4. /\ r.pc = "target" /\ r.cmd = run[o].cmd /\ r.probe = p /\ r.csv = {}
        /\ r.ch = {ch}
    BY <1>2, <1>3, Zenon DEF RunState
  <2> HIDE DEF r
  <2>5. /\ run' \in [Operators -> RunState] /\ run'[o] = r
        /\ \A q \in Operators \ {o} : run'[q] = run[q]
    BY <2>2, <2>3, Zenon DEF IInv, TypeInv
  <2>6. Shape(run[o])'
    BY <1>1, <1>6, <2>4, <2>5, Zenon DEF Shape
  <2>7. Knows(run[o])'
    BY <1>1, <1>4, <2>4, <2>5, Zenon DEF Knows, p
  <2>8. QED
    BY <1>2, <1>6, <2>4, <2>5, <2>6, <2>7, Zenon DEF Kept, IInv, TypeInv
<1>7. QED
  BY <1>3, <1>5, <1>6, Zenon DEF ExportProbe

\* An export asks for the server of its channel.
LEMMA ExportTargetKept ==
  ASSUME IInv, NEW o \in Operators, ExportTarget(o)
  PROVE  Kept(o) /\ run'[o].csv = {}
<1>1. run[o].cmd.name = "export" /\ run[o].pc = "target"
  BY Zenon DEF ExportTarget, At
<1>2. /\ run[o] \in RunState /\ Shape(run[o]) /\ outcome[o] = "none" /\ run[o].csv = {}
      /\ run[o].todo \in SUBSET Channels /\ run[o].success \in BOOLEAN
      /\ run[o].probe \in Probes /\ (o \notin disturbed => Knows(run[o]))
  BY <1>1, ExportRun, Zenon
<1>3. PICK ch \in Channels : run[o].ch = {ch}
  BY <1>1, ExportRun, Zenon
<1> DEFINE t == settings[<<ch, run[o].probe>>]
           r == [run[o] EXCEPT !.pc = "csv", !.target = t]
<1>4. UNCHANGED <<settings, measuring, version, disturbed>>
  BY Zenon DEF ExportTarget, device, hist
<1>5. CASE NextChannel(o, run[o].todo, run[o].success)
  BY <1>1, <1>2, <1>5, NextChannelRun, Zenon DEF IInv
<1>6. CASE /\ outcome' = outcome
           /\ run' = [run EXCEPT ![o].pc = "csv", ![o].target = t]
  <2>1. t \in Values
    BY <1>2, SettingsType, Zenon DEF IInv
  <2>2. run' = [run EXCEPT ![o] = r]
    BY <1>6, Zenon
  <2> HIDE DEF t
  <2>3. r \in RunState
    BY <1>2, <2>1, Zenon DEF RunState, Pcs
  <2>4. /\ r.pc = "csv" /\ r.cmd = run[o].cmd /\ r.probe = run[o].probe /\ r.csv = {}
        /\ r.ch = {ch} /\ r.target = t
    BY <1>2, <1>3, Zenon DEF RunState
  <2> HIDE DEF r
  <2>5. /\ run' \in [Operators -> RunState] /\ run'[o] = r
        /\ \A q \in Operators \ {o} : run'[q] = run[q]
    BY <2>2, <2>3, Zenon DEF IInv, TypeInv
  <2>6. Shape(run[o])'
    BY <1>1, <1>2, <2>4, <2>5, Zenon DEF Shape
  <2>7. o \notin disturbed => Knows(run[o])'
    BY <1>1, <1>2, <1>3, <1>4, <2>4, <2>5, Zenon DEF Knows, t
  <2>8. QED
    BY <1>2, <1>4, <1>6, <2>4, <2>5, <2>6, <2>7, Zenon DEF Kept, IInv, TypeInv
<1>7. QED
  BY <1>3, <1>5, <1>6, Zenon DEF ExportTarget, TargetKey

\* An export reads the data of its channel.
LEMMA FetchCsvKept ==
  ASSUME IInv, NEW o \in Operators, FetchCsv(o)
  PROVE  Kept(o)
<1>1. run[o].cmd.name = "export" /\ run[o].pc = "csv"
  BY Zenon DEF FetchCsv, At
<1>2. /\ run[o] \in RunState /\ Shape(run[o]) /\ outcome[o] = "none"
      /\ run[o].todo \in SUBSET Channels /\ run[o].success \in BOOLEAN
      /\ run[o].probe \in Probes /\ (o \notin disturbed => Knows(run[o]))
  BY <1>1, ExportRun, Zenon
<1>3. PICK ch \in Channels : run[o].ch = {ch}
  BY <1>1, ExportRun, Zenon
<1> DEFINE r == [run[o] EXCEPT !.pc = "print", !.csv = Of(ch)]
<1>4. UNCHANGED <<settings, measuring, version, disturbed>>
  BY Zenon DEF FetchCsv
<1>5. CASE NextChannel(o, run[o].todo, run[o].success)
  BY <1>1, <1>2, <1>5, NextChannelRun, Zenon DEF IInv
<1>6. CASE /\ outcome' = outcome
           /\ run' = [run EXCEPT ![o].pc = "print", ![o].csv = Of(ch)]
  <2>1. Of(ch) \in SUBSET Sample /\ \A s \in Of(ch) : s.ch = ch
    BY Zenon DEF Of, IInv, TypeInv
  <2>2. run' = [run EXCEPT ![o] = r]
    BY <1>6, Zenon
  <2>3. r \in RunState
    BY <1>2, <2>1, Zenon DEF RunState, Pcs
  <2>4. /\ r.pc = "print" /\ r.cmd = run[o].cmd /\ r.probe = run[o].probe
        /\ r.csv = Of(ch) /\ r.ch = {ch} /\ r.target = run[o].target
    BY <1>2, <1>3, Zenon DEF RunState
  <2> HIDE DEF r
  <2>5. /\ run' \in [Operators -> RunState] /\ run'[o] = r
        /\ \A q \in Operators \ {o} : run'[q] = run[q]
    BY <2>2, <2>3, Zenon DEF IInv, TypeInv
  <2>6. Shape(run[o])'
    BY <1>1, <1>2, <2>1, <2>4, <2>5 DEF Shape
  <2>7. o \notin disturbed => Knows(run[o])'
    BY <1>1, <1>2, <1>3, <1>4, <2>4, <2>5, Zenon DEF Knows
  <2>8. QED
    BY <1>2, <1>4, <1>6, <2>4, <2>5, <2>6, <2>7, Zenon DEF Kept, IInv, TypeInv
<1>7. QED
  BY <1>3, <1>5, <1>6, Zenon DEF FetchCsv

\* An export prints what it has read.
LEMMA ExportPrintKept ==
  ASSUME IInv, NEW o \in Operators, ExportPrint(o)
  PROVE  Kept(o) /\ run'[o].csv = {}
<1>1. run[o].cmd.name = "export" /\ run[o].pc = "print"
  BY Zenon DEF ExportPrint, At
<1>2. /\ run[o] \in RunState /\ Shape(run[o]) /\ outcome[o] = "none"
      /\ run[o].todo \in SUBSET Channels /\ run[o].success \in BOOLEAN
  BY <1>1, ExportRun, Zenon
<1>3. PICK ok \in BOOLEAN : NextChannel(o, run[o].todo, ok)
  <2>1. PICK bad : NextChannel(o, run[o].todo, run[o].success \/ bad = 0)
    BY Zenon DEF ExportPrint
  <2>2. (run[o].success \/ bad = 0) \in BOOLEAN
    BY Zenon
  <2>3. QED
    BY <2>1, <2>2, Zenon
<1>4. QED
  BY <1>1, <1>2, <1>3, NextChannelRun, Zenon DEF IInv

\* Every step of an operator leaves its own command in order.
LEMMA StepKept ==
  ASSUME IInv, NEW o \in Operators, Step(o)
  PROVE  Kept(o)
  BY StartKept, ConfigFetchKept, ConfigStatusKept, StopMeasureKept, ConfigPushKept,
     FirmwareKept, LastCallKept, ExportChannelsKept, ExportProbeKept, ExportTargetKept,
     FetchCsvKept, ExportPrintKept, Zenon DEF Step

\* Who is not marked as disturbed by a step of another one sees the device as
\* it was.
LEMMA OthersStep ==
  ASSUME NEW o \in Operators, Step(o), NEW p \in Operators \ {o}, p \notin disturbed'
  PROVE  /\ p \notin disturbed
         /\ run[p].pc = "idle" \/ UNCHANGED <<settings, measuring, version>>
<1>1. CASE \E c \in Commands : Start(o, c)
  BY <1>1, Zenon DEF Start, device
<1>2. CASE \/ StopMeasure(o) \/ ConfigPush(o) \/ ConfigStart(o) \/ FirmwarePush(o)
           \/ Reboot(o) \/ ClearDevice(o)
  <2>1. disturbed' = disturbed \cup (Busy \ {o})
    BY <1>2, Zenon DEF StopMeasure, ConfigPush, ConfigStart, FirmwarePush, Reboot,
         ClearDevice, Disturb
  <2>2. QED
    BY <2>1, Zenon DEF Busy
<1>3. CASE \/ ConfigFetch(o) \/ ConfigStatus(o) \/ FirmwareVersion(o) \/ FirmwareStatus(o)
           \/ ExportChannels(o) \/ ExportProbe(o) \/ ExportTarget(o) \/ FetchCsv(o)
           \/ ExportPrint(o) \/ Report(o) \/ Kill(o)
  <2>1. UNCHANGED <<settings, measuring, version, disturbed>>
    BY <1>3, Zenon DEF ConfigFetch, ConfigStatus, FirmwareVersion, FirmwareStatus,
         ExportChannels, ExportProbe, ExportTarget, FetchCsv, ExportPrint, Report, Kill,
         device, hist
  <2>2. QED
    BY <2>1, Zenon
<1>4. QED
  BY <1>1, <1>2, <1>3, Zenon DEF Step

\* What an idle command knows, and what one knows of a device that did not
\* change.
LEMMA KnowsFrame ==
  ASSUME NEW p \in Operators, run'[p] = run[p], Knows(run[p]),
         run[p].pc = "idle" \/ UNCHANGED <<settings, measuring, version>>
  PROVE  Knows(run[p])'
<1>1. CASE UNCHANGED <<settings, measuring, version>>
  BY <1>1, Zenon DEF Knows, Agrees
<1>2. CASE run[p].pc = "idle"
  BY <1>2, Zenon DEF Knows
<1>3. QED
  BY <1>1, <1>2, Zenon

\* The part of the invariant about commands.
LEMMA CommandsStep ==
  ASSUME IInv, Next
  PROVE  /\ run' \in [Operators -> RunState]
         /\ outcome' \in [Operators -> {"none", "ok", "error"}]
         /\ Running' /\ Undisturbed'
<1>1. ASSUME NEW ch \in Channels, Measure(ch)
      PROVE  UNCHANGED <<run, outcome, settings, measuring, version, disturbed>>
  BY <1>1, Zenon DEF Measure, hist
<1>2. CASE UNCHANGED <<run, outcome, settings, measuring, version, disturbed>>
  <2>1. ASSUME NEW p \in Operators \ disturbed'
        PROVE  Knows(run[p])'
    BY <1>2, KnowsFrame, Zenon DEF IInv, Undisturbed
  <2>2. Running'
    BY <1>2, Zenon DEF IInv, Running, Shape
  <2>3. QED
    BY <1>2, <2>1, <2>2, Zenon DEF IInv, TypeInv, Undisturbed
<1>3. ASSUME NEW o \in Operators, Step(o)
      PROVE  /\ run' \in [Operators -> RunState]
             /\ outcome' \in [Operators -> {"none", "ok", "error"}]
             /\ Running' /\ Undisturbed'
  <2>1. Kept(o)
    BY <1>3, StepKept, Zenon
  <2>2. ASSUME NEW p \in Operators
        PROVE  Shape(run[p])' /\ (run'[p].pc # "idle" => outcome'[p] = "none")
    <3>1. CASE p = o
      BY <2>1, <3>1, Zenon DEF Kept
    <3>2. CASE p # o
      <4>1. run'[p] = run[p] /\ outcome'[p] = outcome[p]
        BY <2>1, <3>2, Zenon DEF Kept
      <4>2. Shape(run[p]) /\ (run[p].pc # "idle" => outcome[p] = "none")
        BY Zenon DEF IInv, Running
      <4>3. QED
        BY <4>1, <4>2, Zenon DEF Shape
    <3>3. QED
      BY <3>1, <3>2, Zenon
  <2>3. ASSUME NEW p \in Operators, p \notin disturbed'
        PROVE  Knows(run[p])'
    <3>1. CASE p = o
      BY <2>1, <2>3, <3>1, Zenon DEF Kept
    <3>2. CASE p # o
      <4>1. run'[p] = run[p]
        BY <2>1, <3>2, Zenon DEF Kept
      <4>2. /\ p \notin disturbed
            /\ run[p].pc = "idle" \/ UNCHANGED <<settings, measuring, version>>
        BY <1>3, <2>3, <3>2, OthersStep, Zenon
      <4>3. QED
        BY <4>1, <4>2, KnowsFrame, Zenon DEF IInv, Undisturbed
    <3>3. QED
      BY <3>1, <3>2, Zenon
  <2>4. QED
    BY <2>1, <2>2, <2>3, Zenon DEF Kept, Running, Undisturbed
<1>4. QED
  BY <1>1, <1>2, <1>3, Zenon DEF Next

\* The factory's settings are settings.
LEMMA FactoryType == Factory \in Settings
  BY Zenon DEF Factory, Settings, Values

\* What a channel measures is described by two values.
LEMMA LabelType ==
  ASSUME TypeInv, NEW ch \in Channels
  PROVE  Label(settings, ch) \in Values \X Values
<1>1. settings[<<ch, "probe">>] \in Values
  BY SettingsType, Zenon
<1>2. \A p \in Probes : settings[<<ch, p>>] \in Values
  BY SettingsType, Zenon
<1>3. "none" \in Values
  BY Zenon DEF Values
<1>4. QED
  BY <1>1, <1>2, <1>3, Zenon DEF Label

\* Types.
LEMMA TypeStep ==
  ASSUME IInv, Next
  PROVE  TypeInv'
<1>1. /\ run' \in [Operators -> RunState]
      /\ outcome' \in [Operators -> {"none", "ok", "error"}]
  BY CommandsStep, Zenon
<1> USE DEF IInv, TypeInv
<1>2. ASSUME NEW ch \in Channels, Measure(ch)
      PROVE  TypeInv'
  <2>1. [n |-> taken + 1, ch |-> ch, label |-> Label(settings, ch)] \in Sample
    BY LabelType DEF Sample
  <2>2. QED
    BY <1>1, <1>2, <2>1 DEF Measure
<1>3. ASSUME NEW o \in Operators,
             \/ \E c \in Commands : Start(o, c)
             \/ ConfigFetch(o) \/ ConfigStatus(o) \/ FirmwareVersion(o)
             \/ FirmwareStatus(o) \/ ExportChannels(o) \/ ExportProbe(o)
             \/ ExportTarget(o) \/ Report(o) \/ Kill(o)
      PROVE  TypeInv'
  <2>1. UNCHANGED <<settings, measuring, version, samples, output, taken>>
    BY <1>3, Zenon DEF Start, ConfigFetch, ConfigStatus, FirmwareVersion, FirmwareStatus,
         ExportChannels, ExportProbe, ExportTarget, Report, Kill, device
  <2>2. QED
    BY <1>1, <2>1, Zenon
<1>4. ASSUME NEW o \in Operators, StopMeasure(o) \/ ConfigStart(o) \/ Reboot(o)
      PROVE  TypeInv'
  <2>1. UNCHANGED <<settings, version, samples, output, taken>>
    BY <1>4, Zenon DEF StopMeasure, ConfigStart, Reboot
  <2>2. measuring' \in BOOLEAN
    BY <1>4, Zenon DEF StopMeasure, ConfigStart, Reboot
  <2>3. QED
    BY <1>1, <2>1, <2>2, Zenon
<1>5. ASSUME NEW o \in Operators, ConfigPush(o)
      PROVE  TypeInv'
  <2>1. run[o].f \in Settings
    BY <1>5, Zenon DEF ConfigPush, At, Running, Shape
  <2>2. settings' \in Settings
    BY <1>5, <2>1, Zenon DEF ConfigPush, PushSettings
  <2>3. QED
    BY <1>1, <1>5, <2>2, Zenon DEF ConfigPush
<1>6. ASSUME NEW o \in Operators, FirmwarePush(o)
      PROVE  TypeInv'
  <2>1. run[o].cmd.v \in Nat
    BY Zenon DEF RunState, AnyCommand
  <2>2. version' \in Nat
    BY <1>6, <2>1, Zenon DEF FirmwarePush, PushVersion
  <2>3. measuring' \in BOOLEAN
    BY <1>6, Zenon DEF FirmwarePush, PushVersion
  <2>4. UNCHANGED <<settings, samples, output, taken>>
    BY <1>6, Zenon DEF FirmwarePush
  <2>5. QED
    BY <1>1, <2>2, <2>3, <2>4, Zenon
<1>7. ASSUME NEW o \in Operators, FetchCsv(o)
      PROVE  TypeInv'
  <2>1. samples' \subseteq samples
    BY <1>7, Zenon DEF FetchCsv, Reset
  <2>2. UNCHANGED <<settings, measuring, version, output, taken>>
    BY <1>7, Zenon DEF FetchCsv
  <2>3. QED
    BY <1>1, <2>1, <2>2, Zenon
<1>8. ASSUME NEW o \in Operators, ExportPrint(o)
      PROVE  TypeInv'
  <2>1. run[o].csv \subseteq Sample /\ run[o].probe \in Values /\ run[o].target \in Values
    BY Zenon DEF RunState
  <2>2. \A s \in run[o].csv : Line(o, s) \in Lines
    BY <2>1 DEF Line, Lines
  <2>3. output' \subseteq output \cup {Line(o, s) : s \in run[o].csv}
    <3>1. PICK bad : output' = output \cup
             {Line(o, s) : s \in run[o].csv \ {t \in run[o].csv : bad # 0 /\ t.n >= bad}}
      BY <1>8, Zenon DEF ExportPrint
    <3>2. QED
      BY <3>1, Zenon
  <2>4. UNCHANGED <<settings, measuring, version, samples, taken>>
    BY <1>8, Zenon DEF ExportPrint, device
  <2>5. QED
    BY <1>1, <2>2, <2>3, <2>4, Zenon
<1>9. ASSUME NEW o \in Operators, ClearDevice(o)
      PROVE  TypeInv'
  <2>1. settings' \in Settings /\ measuring' \in BOOLEAN /\ samples' \subseteq Sample
    BY <1>9, FactoryType, Zenon DEF ClearDevice
  <2>2. QED
    BY <1>1, <1>9, <2>1, Zenon DEF ClearDevice
<1>10. QED
  BY <1>2, <1>3, <1>4, <1>5, <1>6, <1>7, <1>8, <1>9, Zenon DEF Next, Step

-----------------------------------------------------------------------------
(* Samples                                                                 *)
-----------------------------------------------------------------------------
\* Only reading, printing and being killed changes what an export holds.
LEMMA CsvSame ==
  ASSUME IInv, NEW o \in Operators, Step(o), ~FetchCsv(o), ~ExportPrint(o), ~Kill(o)
  PROVE  \A p \in Operators : run'[p].csv = run[p].csv
<1>1. \A p \in Operators \ {o} : run'[p] = run[p]
  BY StepKept, Zenon DEF Kept
<1>2. run[o].pc # "print" => run[o].csv = {}
  BY Zenon DEF IInv, Running, Shape
<1>3. run'[o].csv = {} \/ run'[o].csv = run[o].csv
  BY StartKept, ConfigFetchKept, ConfigStatusKept, StopMeasureKept, ConfigPushKept,
     FirmwareKept, LastCallKept, ExportChannelsKept, ExportProbeKept, ExportTargetKept,
     Zenon DEF Step
<1>4. run[o].pc # "print"
  BY Zenon DEF Step, Start, ConfigFetch, ConfigStatus, StopMeasure, ConfigPush, ConfigStart,
     FirmwareVersion, FirmwareStatus, FirmwarePush, ExportChannels, ExportProbe,
     ExportTarget, Reboot, ClearDevice, Report, At
<1>5. QED
  BY <1>1, <1>2, <1>3, <1>4, Zenon

\* Reading moves the samples of one channel from the device to the export;
\* if the answer is lost, so are they.
LEMMA FetchCsvMoves ==
  ASSUME IInv, NEW o \in Operators, FetchCsv(o)
  PROVE  \E ch \in Channels :
           /\ \A p \in Operators \ {o} : run'[p].csv = run[p].csv
           /\ run[o].csv = {}
           /\ \/ samples' = samples /\ lost' = lost /\ run'[o].csv = {}
              \/ /\ samples' = samples \ Of(ch) /\ lost' = lost /\ run'[o].csv = Of(ch)
              \/ /\ samples' = samples \ Of(ch) /\ lost' = lost \cup {s.n : s \in Of(ch)}
                 /\ run'[o].csv = {}
<1>1. \A p \in Operators \ {o} : run'[p] = run[p]
  BY FetchCsvKept, Zenon DEF Kept
<1>2. run[o].cmd.name = "export" /\ run[o].pc = "csv"
  BY Zenon DEF FetchCsv, At
<1>3. /\ run[o] \in RunState /\ Shape(run[o]) /\ outcome[o] = "none" /\ run[o].csv = {}
      /\ run[o].todo \in SUBSET Channels /\ run[o].success \in BOOLEAN
  BY <1>2, ExportRun, Zenon
<1>4. PICK ch \in Channels : run[o].ch = {ch}
  BY <1>2, ExportRun, Zenon
<1>5. NextChannel(o, run[o].todo, run[o].success) => run'[o].csv = {}
  BY <1>2, <1>3, NextChannelRun, Zenon DEF IInv
<1>6. run' = [run EXCEPT ![o].pc = "print", ![o].csv = Of(ch)] => run'[o].csv = Of(ch)
  BY <1>3 DEF IInv, TypeInv, RunState
<1>7. PICK a \in Answers :
        /\ samples' = IF a = "failed" THEN samples ELSE samples \ Of(ch)
        /\ lost' = IF a = "lost" THEN lost \cup {s.n : s \in Of(ch)} ELSE lost
        /\ IF a = "ok" THEN run' = [run EXCEPT ![o].pc = "print", ![o].csv = Of(ch)]
           ELSE NextChannel(o, run[o].todo, run[o].success)
  <2>1. \A c \in run[o].ch : c = ch
    BY <1>4, Zenon
  <2>2. QED
    BY <2>1, Zenon DEF FetchCsv, Reset
<1>8. a \in {"ok", "failed", "lost"}
  BY Zenon DEF Answers
<1>9. QED
  BY <1>1, <1>3, <1>5, <1>6, <1>7, <1>8, Zenon

\* What export prints or drops it no longer holds.
LEMMA ExportPrintMoves ==
  ASSUME IInv, NEW o \in Operators, ExportPrint(o)
  PROVE  \E dropped \in SUBSET run[o].csv :
           /\ \A p \in Operators \ {o} : run'[p].csv = run[p].csv
           /\ run'[o].csv = {} /\ samples' = samples
           /\ output' = output \cup {Line(o, s) : s \in run[o].csv \ dropped}
           /\ lost' = lost \cup {s.n : s \in dropped}
<1>1. \A p \in Operators \ {o} : run'[p] = run[p]
  BY ExportPrintKept, Zenon DEF Kept
<1>2. run'[o].csv = {} /\ samples' = samples
  BY ExportPrintKept, Zenon DEF ExportPrint, device
<1>3. PICK bad :
        LET dropped == {s \in run[o].csv : bad # 0 /\ s.n >= bad}
        IN  /\ output' = output \cup {Line(o, s) : s \in run[o].csv \ dropped}
            /\ lost' = lost \cup {s.n : s \in dropped}
  BY Zenon DEF ExportPrint
<1>4. QED
  BY <1>1, <1>2, <1>3, Zenon

\* Killing an export loses what it holds.
LEMMA KillMoves ==
  ASSUME IInv, NEW o \in Operators, Kill(o)
  PROVE  /\ \A p \in Operators \ {o} : run'[p].csv = run[p].csv
         /\ run'[o].csv = {} /\ samples' = samples /\ output' = output
         /\ lost' = lost \cup {s.n : s \in run[o].csv}
  BY LastCallKept, Zenon DEF Kept, Kill, device

\* No step of an operator adds a sample.
LEMMA HeldStep ==
  ASSUME IInv, NEW o \in Operators, Step(o)
  PROVE  Held' \subseteq Held
<1>1. CASE FetchCsv(o)
  <2>1. PICK ch \in Channels :
           /\ \A p \in Operators \ {o} : run'[p].csv = run[p].csv
           /\ samples' \subseteq samples
           /\ run'[o].csv \subseteq samples
    BY <1>1, FetchCsvMoves, Zenon DEF Of
  <2>2. QED
    BY <2>1, Zenon DEF Held
<1>2. CASE ExportPrint(o) \/ Kill(o)
  <2>1. /\ \A p \in Operators \ {o} : run'[p].csv = run[p].csv
        /\ run'[o].csv = {} /\ samples' = samples
    BY <1>2, ExportPrintMoves, KillMoves, Zenon
  <2>2. QED
    BY <2>1, Zenon DEF Held
<1>3. CASE ~FetchCsv(o) /\ ~ExportPrint(o) /\ ~Kill(o)
  <2>1. \A p \in Operators : run'[p].csv = run[p].csv
    BY <1>3, CsvSame, Zenon
  <2>2. samples' = samples \/ samples' = {}
    BY <1>3, Zenon DEF Step, Start, ConfigFetch, ConfigStatus, StopMeasure, ConfigPush,
       ConfigStart, FirmwareVersion, FirmwareStatus, FirmwarePush, ExportChannels,
       ExportProbe, ExportTarget, Reboot, ClearDevice, Report, device
  <2>3. QED
    BY <2>1, <2>2, Zenon DEF Held
<1>4. QED
  BY <1>1, <1>2, <1>3, Zenon

\* The settings change only with the marks of the samples that are affected.
LEMMA RelabelStep ==
  ASSUME NEW o \in Operators, Step(o)
  PROVE  Relabel(settings, settings') \/ UNCHANGED <<settings, relabelled>>
  BY Zenon DEF Step, Start, ConfigFetch, ConfigStatus, StopMeasure, ConfigPush,
     ConfigStart, FirmwareVersion, FirmwareStatus, FirmwarePush, ExportChannels,
     ExportProbe, ExportTarget, FetchCsv, ExportPrint, Reboot, ClearDevice, Report,
     Kill, device, hist

\* Labels of the samples not printed.
LEMMA LabelledStep ==
  ASSUME IInv, Next
  PROVE  Labelled'
<1>1. ASSUME NEW o \in Operators, Step(o)
      PROVE  Labelled'
  <2>1. Held' \subseteq Held
    BY <1>1, HeldStep, Zenon
  <2>2. ASSUME NEW s \in Held'
        PROVE  s.n \in relabelled' \/ s.label = Label(settings', s.ch)
    <3>1. s \in Held /\ (s.n \in relabelled \/ s.label = Label(settings, s.ch))
      BY <2>1, Zenon DEF IInv, Labelled
    <3>2. CASE Relabel(settings, settings')
      BY <3>1, <3>2, Zenon DEF Relabel
    <3>3. CASE UNCHANGED <<settings, relabelled>>
      BY <3>1, <3>3, Zenon
    <3>4. QED
      BY <1>1, <3>2, <3>3, RelabelStep, Zenon
  <2>3. QED
    BY <2>2, Zenon DEF Labelled, Label
<1>2. ASSUME NEW ch \in Channels, Measure(ch)
      PROVE  Labelled'
  <2> DEFINE m == [n |-> taken + 1, ch |-> ch, label |-> Label(settings, ch)]
  <2>1. m.ch = ch /\ m.label = Label(settings, ch)
    BY Zenon
  <2>2. /\ samples' = samples \cup {m} /\ run' = run
        /\ UNCHANGED <<settings, relabelled>>
    BY <1>2, Zenon DEF Measure, hist
  <2> HIDE DEF m
  <2>3. Held' = Held \cup {m}
    BY <2>2, Zenon DEF Held
  <2>4. \A s \in Held' : s.n \in relabelled \/ s.label = Label(settings, s.ch)
    BY <2>1, <2>3, Zenon DEF IInv, Labelled
  <2>5. QED
    BY <2>2, <2>4, Zenon DEF Labelled, Label
<1>3. QED
  BY <1>1, <1>2, Zenon DEF Next

\* Labels of the printed lines.
LEMMA LabelRightStep ==
  ASSUME IInv, Next
  PROVE  LabelRight'
<1>1. relabelled \subseteq relabelled'
  <2>1. ASSUME NEW o \in Operators, Step(o)
        PROVE  relabelled \subseteq relabelled'
    BY <2>1, RelabelStep, Zenon DEF Relabel
  <2>2. ASSUME NEW ch \in Channels, Measure(ch)
        PROVE  relabelled \subseteq relabelled'
    BY <2>2, Zenon DEF Measure, hist
  <2>3. QED
    BY <2>1, <2>2, Zenon DEF Next
<1>2. CASE output' = output
  BY <1>1, <1>2, Zenon DEF IInv, LabelRight
<1>3. ASSUME NEW o \in Operators, ExportPrint(o)
      PROVE  LabelRight'
  <2>1. \A l \in output' : l \in output \/ \E s \in run[o].csv : l = Line(o, s)
    BY <1>3, ExportPrintMoves
  <2>2. ASSUME NEW s \in run[o].csv, o \notin disturbed
        PROVE  s.n \in relabelled \/ s.label = <<run[o].probe, run[o].target>>
    <3>1. run[o].cmd.name = "export" /\ run[o].pc = "print"
      BY <1>3, Zenon DEF ExportPrint, At
    <3>2. Shape(run[o]) /\ Knows(run[o]) /\ run[o].probe \in Probes
      BY <2>2, <3>1, ExportRun, Zenon
    <3>3. /\ run[o].probe = settings[<<s.ch, "probe">>]
          /\ run[o].target = settings[<<s.ch, run[o].probe>>]
      BY <3>1, <3>2, Zenon DEF Shape, Knows
    <3>4. Label(settings, s.ch) = <<run[o].probe, run[o].target>>
      BY <3>2, <3>3, Zenon DEF Label
    <3>5. s \in Held
      BY Zenon DEF Held
    <3>6. QED
      BY <3>4, <3>5, Zenon DEF IInv, Labelled
  <2>3. \A s \in run[o].csv :
          /\ Line(o, s).sample = s /\ Line(o, s).label = <<run[o].probe, run[o].target>>
          /\ Line(o, s).disturbed = (o \in disturbed)
    BY Zenon DEF Line
  <2>4. ASSUME NEW l \in output'
        PROVE  l.label = l.sample.label \/ l.sample.n \in relabelled' \/ l.disturbed
    <3>1. CASE l \in output
      BY <1>1, <3>1, Zenon DEF IInv, LabelRight
    <3>2. ASSUME NEW s \in run[o].csv, l = Line(o, s)
          PROVE  l.label = l.sample.label \/ l.sample.n \in relabelled' \/ l.disturbed
      <4>1. /\ l.sample = s /\ l.label = <<run[o].probe, run[o].target>>
            /\ l.disturbed = (o \in disturbed)
        BY <2>3, <3>2, Zenon
      <4>2. QED
        BY <1>1, <2>2, <4>1, Zenon
    <3>3. QED
      BY <2>1, <3>1, <3>2, Zenon
  <2>5. QED
    BY <2>4, Zenon DEF LabelRight
<1>4. ASSUME NEW o \in Operators, Step(o), ~ExportPrint(o)
      PROVE  output' = output
  BY <1>4, Zenon DEF Step, Start, ConfigFetch, ConfigStatus, StopMeasure, ConfigPush,
     ConfigStart, FirmwareVersion, FirmwareStatus, FirmwarePush, ExportChannels,
     ExportProbe, ExportTarget, FetchCsv, Reboot, ClearDevice, Report, Kill
<1>5. ASSUME NEW ch \in Channels, Measure(ch)
      PROVE  output' = output
  BY <1>5, Zenon DEF Measure
<1>6. QED
  BY <1>2, <1>3, <1>4, <1>5, Zenon DEF Next

\* Steps that move no sample.
LEMMA PlacedFrame ==
  ASSUME Placed, UNCHANGED <<samples, output, lost, taken>>,
         \A p \in Operators : run'[p].csv = run[p].csv
  PROVE  Placed'
<1>1. Held' = Held
  BY Zenon DEF Held
<1>2. /\ \A n : OnDevice(n)' <=> OnDevice(n)
      /\ \A n : Printed(n)' <=> Printed(n)
      /\ \A n : \A o \in Operators : With(o, n)' <=> With(o, n)
  BY Zenon DEF OnDevice, Printed, With
<1>3. QED
  BY <1>1, <1>2, Zenon DEF Placed

\* Measuring puts the next sample on the device.
LEMMA PlacedMeasure ==
  ASSUME IInv, NEW ch \in Channels, Measure(ch)
  PROVE  Placed'
<1> DEFINE m == [n |-> taken + 1, ch |-> ch, label |-> Label(settings, ch)]
<1>1. m.n = taken + 1
  BY Zenon
<1>2. /\ samples' = samples \cup {m} /\ UNCHANGED <<run, output, lost>>
      /\ taken' = taken + 1 /\ taken \in Nat
  BY Zenon DEF Measure, hist, IInv, TypeInv
<1> HIDE DEF m
<1>3. /\ \A n \in 1 .. taken : n \in 1 .. taken' /\ n # taken + 1
      /\ \A n \in 1 .. taken' : n \in 1 .. taken \/ n = taken + 1
      /\ taken + 1 \in 1 .. taken'
      /\ ~(taken + 1 \in 1 .. taken)
  BY <1>2
<1>4. Held' = Held \cup {m}
  BY <1>2, Zenon DEF Held
<1>5. /\ \A n : OnDevice(n)' <=> OnDevice(n) \/ n = taken + 1
      /\ \A n : Printed(n)' <=> Printed(n)
      /\ \A n : \A o \in Operators : With(o, n)' <=> With(o, n)
  BY <1>1, <1>2, Zenon DEF OnDevice, Printed, With
<1>6. /\ ~OnDevice(taken + 1) /\ ~Printed(taken + 1) /\ taken + 1 \notin lost
      /\ \A o \in Operators : ~With(o, taken + 1)
  BY <1>3 DEF IInv, Placed, OnDevice, Printed, With, Held
<1>7. /\ \A n \in lost' : n \in 1 .. taken'
      /\ \A s \in Held' : s.n \in 1 .. taken'
      /\ \A l \in output' : l.sample.n \in 1 .. taken'
  BY <1>1, <1>2, <1>3, <1>4, Zenon DEF IInv, Placed
<1>8. \A s, t \in samples' : s.n = t.n => s = t
  BY <1>1, <1>2, <1>6, Zenon DEF IInv, Placed, OnDevice
<1>9. ASSUME NEW n \in 1 .. taken'
      PROVE  /\ OnDevice(n)' \/ (\E o \in Operators : With(o, n)') \/ Printed(n)' \/ n \in lost'
             /\ OnDevice(n)' => ~Printed(n)' /\ n \notin lost'
             /\ Printed(n)' => n \notin lost'
             /\ \A o \in Operators : With(o, n)' =>
                  /\ ~OnDevice(n)' /\ ~Printed(n)' /\ n \notin lost'
                  /\ \A p \in Operators : With(p, n)' => p = o
  <2>1. CASE n = taken + 1
    BY <1>2, <1>5, <1>6, <2>1, Zenon
  <2>2. CASE n \in 1 .. taken
    BY <1>2, <1>3, <1>5, <2>2, Zenon DEF IInv, Placed
  <2>3. QED
    BY <1>3, <2>1, <2>2, Zenon
<1>10. QED
  BY <1>2, <1>7, <1>8, <1>9, Zenon DEF IInv, Placed

\* Samples of one channel move from the device to an export, or are lost.
LEMMA PlacedFetchCsv ==
  ASSUME IInv, NEW o \in Operators, FetchCsv(o)
  PROVE  Placed'
<1>1. output' = output /\ taken' = taken
  BY Zenon DEF FetchCsv
<1>2. PICK ch \in Channels :
           /\ \A p \in Operators \ {o} : run'[p].csv = run[p].csv
           /\ run[o].csv = {}
           /\ \/ samples' = samples /\ lost' = lost /\ run'[o].csv = {}
              \/ /\ samples' = samples \ Of(ch) /\ lost' = lost /\ run'[o].csv = Of(ch)
              \/ /\ samples' = samples \ Of(ch) /\ lost' = lost \cup {s.n : s \in Of(ch)}
                 /\ run'[o].csv = {}
  BY FetchCsvMoves, Zenon
<1> DEFINE Moved(n) == \E s \in Of(ch) : s.n = n
<1>3. CASE samples' = samples /\ lost' = lost /\ run'[o].csv = {}
  BY <1>1, <1>2, <1>3, PlacedFrame, Zenon DEF IInv
<1>4. CASE samples' = samples \ Of(ch)
  <2>1. Of(ch) \subseteq samples
    BY Zenon DEF Of
  <2>2. \A n : OnDevice(n)' <=> OnDevice(n) /\ ~Moved(n)
    <3>1. \A s, t \in samples : s.n = t.n => s = t
      BY Zenon DEF IInv, Placed
    <3>2. QED
      BY <1>4, <2>1, <3>1, Zenon DEF OnDevice
  <2>3. \A n : Moved(n) => OnDevice(n) /\ n \in 1 .. taken
    BY <2>1 DEF OnDevice, IInv, Placed, Held
  <2>4. /\ \A n : Printed(n)' <=> Printed(n)
        /\ \A n : \A p \in Operators \ {o} : With(p, n)' <=> With(p, n)
        /\ \A n : ~With(o, n)
    BY <1>1, <1>2, Zenon DEF Printed, With
  <2>5. \A s, t \in samples' : s.n = t.n => s = t
    BY <1>4, Zenon DEF IInv, Placed
  <2>6. /\ \A l \in output' : l.sample.n \in 1 .. taken'
        /\ \A l, m \in output' : l.sample.n = m.sample.n => l = m
    BY <1>1, Zenon DEF IInv, Placed
  <2>7. \A s \in Held' : s.n \in 1 .. taken'
    <3>1. Held' \subseteq Held
      BY HeldStep, Zenon DEF Step
    <3>2. QED
      BY <1>1, <3>1, Zenon DEF IInv, Placed
  <2>8. \A p \in Operators : \A s, t \in run'[p].csv : s.n = t.n => s = t
    <3>1. run'[o].csv \subseteq samples
      BY <1>2, <2>1, Zenon
    <3>2. QED
      BY <1>2, <3>1, Zenon DEF IInv, Placed
  <2>9. CASE lost' = lost /\ run'[o].csv = Of(ch)
    <3>1. \A n : With(o, n)' <=> Moved(n)
      BY <2>9, Zenon DEF With
    <3>2. ASSUME NEW n \in 1 .. taken'
          PROVE  /\ OnDevice(n)' \/ (\E p \in Operators : With(p, n)') \/ Printed(n)'
                    \/ n \in lost'
                 /\ OnDevice(n)' => ~Printed(n)' /\ n \notin lost'
                 /\ Printed(n)' => n \notin lost'
                 /\ \A p \in Operators : With(p, n)' =>
                      /\ ~OnDevice(n)' /\ ~Printed(n)' /\ n \notin lost'
                      /\ \A q \in Operators : With(q, n)' => q = p
      BY <1>1, <2>2, <2>3, <2>4, <2>9, <3>1 DEF IInv, Placed
    <3>3. \A n \in lost' : n \in 1 .. taken'
      BY <1>1, <2>9, Zenon DEF IInv, Placed
    <3>4. QED
      BY <2>5, <2>6, <2>7, <2>8, <3>2, <3>3, Zenon DEF Placed
  <2>10. CASE lost' = lost \cup {s.n : s \in Of(ch)} /\ run'[o].csv = {}
    <3>1. \A n : ~With(o, n)'
      BY <2>10, Zenon DEF With
    <3>2. \A n : n \in lost' <=> n \in lost \/ Moved(n)
      BY <2>10, Zenon
    <3>3. ASSUME NEW n \in 1 .. taken'
          PROVE  /\ OnDevice(n)' \/ (\E p \in Operators : With(p, n)') \/ Printed(n)'
                    \/ n \in lost'
                 /\ OnDevice(n)' => ~Printed(n)' /\ n \notin lost'
                 /\ Printed(n)' => n \notin lost'
                 /\ \A p \in Operators : With(p, n)' =>
                      /\ ~OnDevice(n)' /\ ~Printed(n)' /\ n \notin lost'
                      /\ \A q \in Operators : With(q, n)' => q = p
      BY <1>1, <2>2, <2>3, <2>4, <3>1, <3>2 DEF IInv, Placed
    <3>4. \A n \in lost' : n \in 1 .. taken'
      BY <1>1, <2>3, <3>2, Zenon DEF IInv, Placed
    <3>5. QED
      BY <2>5, <2>6, <2>7, <2>8, <3>3, <3>4, Zenon DEF Placed
  <2>11. QED
    BY <1>2, <1>4, <2>9, <2>10, <1>3, Zenon
<1>5. QED
  BY <1>2, <1>3, <1>4, Zenon

(* What o's export holds goes: dropped is lost, the rest is in the lines.   *)
Emptied(o, dropped, lines) ==
  /\ \A p \in Operators \ {o} : run'[p].csv = run[p].csv
  /\ run'[o].csv = {} /\ samples' = samples /\ taken' = taken
  /\ output' = output \cup lines /\ lost' = lost \cup {s.n : s \in dropped}
  /\ \A l \in lines : l.sample \in run[o].csv \ dropped
  /\ \A s \in run[o].csv \ dropped : \E l \in lines : l.sample = s
  /\ \A l, m \in lines : l.sample = m.sample => l = m

\* What an export holds is printed or lost: by printing, or, with nothing
\* printed, by being killed.
LEMMA PlacedPrint ==
  ASSUME IInv, NEW o \in Operators, NEW dropped \in SUBSET run[o].csv, NEW lines,
         Emptied(o, dropped, lines)
  PROVE  Placed'
<1> USE DEF Emptied
<1> DEFINE Drops(n) == \E s \in dropped : s.n = n
           Prints(n) == \E s \in run[o].csv \ dropped : s.n = n
<1>1. \A n : With(o, n) <=> Drops(n) \/ Prints(n)
  BY Zenon DEF With
<1>2. \A n : ~(Drops(n) /\ Prints(n))
  <2>1. \A s, t \in run[o].csv : s.n = t.n => s = t
    BY Zenon DEF IInv, Placed
  <2>2. QED
    BY <2>1, Zenon
<1>3. /\ \A n : OnDevice(n)' <=> OnDevice(n)
      /\ \A n : \A p \in Operators \ {o} : With(p, n)' <=> With(p, n)
      /\ \A n : ~With(o, n)'
  BY Zenon DEF OnDevice, With
<1>4. \A n : Printed(n)' <=> Printed(n) \/ Prints(n)
  <2>1. \A n : Prints(n) <=> \E l \in lines : l.sample.n = n
    <3>1. ASSUME NEW n, Prints(n)
          PROVE  \E l \in lines : l.sample.n = n
      <4>1. PICK s \in run[o].csv \ dropped : s.n = n
        BY <3>1, Zenon
      <4>2. PICK l \in lines : l.sample = s
        BY <4>1, Zenon
      <4>3. QED
        BY <4>1, <4>2, Zenon
    <3>2. QED
      BY <3>1, Zenon
  <2>2. QED
    BY <2>1, Zenon DEF Printed
<1>5. \A n : n \in lost' <=> n \in lost \/ Drops(n)
  BY Zenon
<1>6. \A n : With(o, n) => n \in 1 .. taken /\ ~Printed(n) /\ ~OnDevice(n) /\ n \notin lost
  BY DEF IInv, Placed, With, Held
<1>7. \A n \in lost' : n \in 1 .. taken'
  BY <1>1, <1>5, <1>6, Zenon DEF IInv, Placed
<1>8. \A s \in Held' : s.n \in 1 .. taken'
  <2>1. Held' \subseteq Held
    BY DEF Held
  <2>2. QED
    BY <2>1, Zenon DEF IInv, Placed
<1>9. \A l \in output' : l.sample.n \in 1 .. taken'
  <2>1. \A l \in output : l.sample.n \in 1 .. taken
    BY Zenon DEF IInv, Placed
  <2>2. \A l \in lines : l.sample.n \in 1 .. taken
    BY <1>1, <1>6, Zenon
  <2>3. QED
    BY <2>1, <2>2, Zenon
<1>10. ASSUME NEW l \in output', NEW m \in output', l.sample.n = m.sample.n
       PROVE  l = m
  <2>1. CASE l \in output /\ m \in output
    BY <1>10, <2>1, Zenon DEF IInv, Placed
  <2>2. CASE l \in lines /\ m \in lines
    BY <1>10, <2>2, Zenon DEF IInv, Placed
  <2>3. CASE l \in output /\ m \in lines
    BY <1>1, <1>6, <1>10, <2>3, Zenon DEF Printed
  <2>4. CASE l \in lines /\ m \in output
    BY <1>1, <1>6, <1>10, <2>4, Zenon DEF Printed
  <2>5. QED
    BY <2>1, <2>2, <2>3, <2>4, Zenon
<1>11. /\ \A s, t \in samples' : s.n = t.n => s = t
       /\ \A p \in Operators : \A s, t \in run'[p].csv : s.n = t.n => s = t
  BY Zenon DEF IInv, Placed
<1> HIDE DEF Drops, Prints
<1>12. ASSUME NEW n \in 1 .. taken'
       PROVE  /\ OnDevice(n)' \/ (\E p \in Operators : With(p, n)') \/ Printed(n)'
                 \/ n \in lost'
              /\ OnDevice(n)' => ~Printed(n)' /\ n \notin lost'
              /\ Printed(n)' => n \notin lost'
              /\ \A p \in Operators : With(p, n)' =>
                   /\ ~OnDevice(n)' /\ ~Printed(n)' /\ n \notin lost'
                   /\ \A q \in Operators : With(q, n)' => q = p
  BY <1>1, <1>2, <1>3, <1>4, <1>5, <1>6 DEF IInv, Placed
<1>13. QED
  BY <1>7, <1>8, <1>9, <1>10, <1>11, <1>12, Zenon DEF Placed

\* Clearing the device loses what is on it.
LEMMA PlacedClear ==
  ASSUME IInv, NEW o \in Operators, ClearDevice(o)
  PROVE  Placed'
<1>1. \A p \in Operators : run'[p].csv = run[p].csv
  <2>1. /\ run'[o].csv = {} /\ \A p \in Operators \ {o} : run'[p] = run[p]
    BY LastCallKept, Zenon DEF Kept
  <2>2. run[o].csv = {}
    BY BusyRun, Zenon DEF ClearDevice, At
  <2>3. QED
    BY <2>1, <2>2, Zenon
<1>2. output' = output /\ taken' = taken
  BY Zenon DEF ClearDevice
<1>3. \/ samples' = samples /\ lost' = lost
      \/ samples' = {} /\ lost' = lost \cup {s.n : s \in samples}
  BY Zenon DEF ClearDevice
<1>4. CASE samples' = samples /\ lost' = lost
  BY <1>1, <1>2, <1>4, PlacedFrame, Zenon DEF IInv
<1>5. CASE samples' = {} /\ lost' = lost \cup {s.n : s \in samples}
  <2>1. /\ \A n : ~OnDevice(n)'
        /\ \A n : Printed(n)' <=> Printed(n)
        /\ \A n : \A p \in Operators : With(p, n)' <=> With(p, n)
        /\ \A n : n \in lost' <=> n \in lost \/ OnDevice(n)
    BY <1>1, <1>2, <1>5, Zenon DEF OnDevice, Printed, With
  <2>2. \A n : OnDevice(n) => n \in 1 .. taken
    BY DEF OnDevice, IInv, Placed, Held
  <2>3. Held' \subseteq Held
    BY <1>1, <1>5, Zenon DEF Held
  <2>4. ASSUME NEW n \in 1 .. taken'
        PROVE  /\ OnDevice(n)' \/ (\E p \in Operators : With(p, n)') \/ Printed(n)'
                  \/ n \in lost'
               /\ OnDevice(n)' => ~Printed(n)' /\ n \notin lost'
               /\ Printed(n)' => n \notin lost'
               /\ \A p \in Operators : With(p, n)' =>
                    /\ ~OnDevice(n)' /\ ~Printed(n)' /\ n \notin lost'
                    /\ \A q \in Operators : With(q, n)' => q = p
    BY <1>2, <2>1, <2>2, Zenon DEF IInv, Placed
  <2>5. /\ \A n \in lost' : n \in 1 .. taken'
        /\ \A s \in Held' : s.n \in 1 .. taken'
        /\ \A l \in output' : l.sample.n \in 1 .. taken'
    BY <1>2, <2>1, <2>2, <2>3, Zenon DEF IInv, Placed
  <2>6. /\ \A s, t \in samples' : s.n = t.n => s = t
        /\ \A p \in Operators : \A s, t \in run'[p].csv : s.n = t.n => s = t
        /\ \A l, m \in output' : l.sample.n = m.sample.n => l = m
    BY <1>1, <1>2, <1>5, Zenon DEF IInv, Placed
  <2>7. QED
    BY <2>4, <2>5, <2>6, Zenon DEF Placed
<1>6. QED
  BY <1>3, <1>4, <1>5, Zenon

\* Every step leaves every sample in one place.
LEMMA PlacedStep ==
  ASSUME IInv, Next
  PROVE  Placed'
<1>1. ASSUME NEW o \in Operators, ExportPrint(o)
      PROVE  Placed'
  <2>1. PICK dropped \in SUBSET run[o].csv :
           /\ \A p \in Operators \ {o} : run'[p].csv = run[p].csv
           /\ run'[o].csv = {} /\ samples' = samples
           /\ output' = output \cup {Line(o, s) : s \in run[o].csv \ dropped}
           /\ lost' = lost \cup {s.n : s \in dropped}
    BY <1>1, ExportPrintMoves, Zenon
  <2>2. taken' = taken
    BY <1>1, Zenon DEF ExportPrint
  <2>3. PICK lines : lines = {Line(o, s) : s \in run[o].csv \ dropped}
    BY Zenon
  <2>4. \A s \in run[o].csv : Line(o, s).sample = s
    BY Zenon DEF Line
  <2>5. /\ \A l \in lines : l.sample \in run[o].csv \ dropped
        /\ \A s \in run[o].csv \ dropped : \E l \in lines : l.sample = s
        /\ \A l, m \in lines : l.sample = m.sample => l = m
    <3>1. \A l \in lines : \E s \in run[o].csv \ dropped : l = Line(o, s) /\ l.sample = s
      BY <2>4, <2>3, Zenon
    <3>2. \A s \in run[o].csv \ dropped : Line(o, s) \in lines /\ Line(o, s).sample = s
      BY <2>4, <2>3, Zenon
    <3>3. \A l \in lines : l.sample \in run[o].csv \ dropped /\ l = Line(o, l.sample)
      BY <3>1, Zenon
    <3>4. QED
      BY <3>2, <3>3, Zenon
  <2>6. output' = output \cup lines
    BY <2>1, <2>3, Zenon
  <2>7. Emptied(o, dropped, lines)
    BY <2>1, <2>2, <2>5, <2>6, Zenon DEF Emptied
  <2>8. QED
    BY <2>7, PlacedPrint, Zenon
<1>2. ASSUME NEW o \in Operators, Kill(o)
      PROVE  Placed'
  <2>1. taken' = taken
    BY <1>2, Zenon DEF Kill
  <2>2. output' = output \cup {}
    BY <1>2, KillMoves, Zenon
  <2>3. /\ \A p \in Operators \ {o} : run'[p].csv = run[p].csv
        /\ run'[o].csv = {} /\ samples' = samples
        /\ lost' = lost \cup {s.n : s \in run[o].csv}
    BY <1>2, KillMoves, Zenon
  <2>4. run[o].csv \in SUBSET run[o].csv /\ run[o].csv \ run[o].csv = {}
    BY Zenon
  <2>5. Emptied(o, run[o].csv, {})
    BY <2>1, <2>2, <2>3, <2>4, Zenon DEF Emptied
  <2>6. QED
    BY <2>4, <2>5, PlacedPrint, Zenon
<1>3. ASSUME NEW o \in Operators, Step(o), ~ExportPrint(o), ~Kill(o), ~FetchCsv(o),
             ~ClearDevice(o)
      PROVE  Placed'
  <2>1. \A p \in Operators : run'[p].csv = run[p].csv
    BY <1>3, CsvSame, Zenon
  <2>2. UNCHANGED <<samples, output, lost, taken>>
    BY <1>3, Zenon DEF Step, Start, ConfigFetch, ConfigStatus, StopMeasure, ConfigPush,
       ConfigStart, FirmwareVersion, FirmwareStatus, FirmwarePush, ExportChannels,
       ExportProbe, ExportTarget, Reboot, Report, device, hist
  <2>3. QED
    BY <2>1, <2>2, PlacedFrame, Zenon DEF IInv
<1>4. QED
  BY <1>1, <1>2, <1>3, PlacedFetchCsv, PlacedClear, PlacedMeasure, Zenon DEF Next

-----------------------------------------------------------------------------
(* The theorems                                                            *)
-----------------------------------------------------------------------------
\* The invariant holds of a factory-fresh device and no command running.
LEMMA InitIInv == Init => IInv
<1> SUFFICES ASSUME Init PROVE IInv
  BY Zenon
<1>1. \A o \in Operators : run[o] = NoRun
  BY Zenon DEF Init
<1>2. NoRun.pc = "idle" /\ NoRun.cmd.name = "none" /\ NoRun.csv = {}
  BY Zenon DEF NoRun, Command
<1>3. TypeInv
  BY NoRunType, FactoryType, CalnexAssumption, Zenon DEF Init, TypeInv
<1>4. Running
  BY <1>1, <1>2, Zenon DEF Running, Shape
<1>5. Undisturbed
  BY <1>1, <1>2, Zenon DEF Undisturbed, Knows
<1>6. Held = {}
  BY <1>1, <1>2, Zenon DEF Init, Held
<1>7. 1 .. taken = {}
  BY DEF Init
<1>8. Placed
  BY <1>1, <1>2, <1>6, <1>7, Zenon DEF Init, Placed
<1>9. QED
  BY <1>3, <1>4, <1>5, <1>6, <1>8, Zenon DEF IInv, Labelled, LabelRight, Init

\* The invariant is inductive.
LEMMA NextIInv == IInv /\ [Next]_vars => IInv'
<1>1. ASSUME IInv, Next
      PROVE  IInv'
  BY <1>1, TypeStep, CommandsStep, LabelledStep, LabelRightStep, PlacedStep, Zenon DEF IInv
<1>2. ASSUME IInv, UNCHANGED vars
      PROVE  IInv'
  <2>1. UNCHANGED <<settings, measuring, version, samples, run, output, outcome, taken,
                    disturbed, lost, relabelled>>
    BY <1>2, Zenon DEF vars, device, hist
  <2>2. TypeInv'
    BY <1>2, <2>1, Zenon DEF IInv, TypeInv
  <2>3. Running'
    BY <1>2, <2>1, Zenon DEF IInv, Running, Shape
  <2>4. Undisturbed'
    <3>1. ASSUME NEW p \in Operators \ disturbed'
          PROVE  Knows(run[p])'
      BY <1>2, <2>1, KnowsFrame, Zenon DEF IInv, Undisturbed
    <3>2. QED
      BY <3>1, Zenon DEF Undisturbed
  <2>5. Labelled' /\ LabelRight'
    BY <1>2, <2>1, Zenon DEF IInv, Labelled, LabelRight, Held, Label
  <2>6. Placed'
    BY <1>2, <2>1, PlacedFrame, Zenon DEF IInv
  <2>7. QED
    BY <2>2, <2>3, <2>4, <2>5, <2>6, Zenon DEF IInv
<1>3. QED
  BY <1>1, <1>2, Zenon

\* The inductive invariant holds in every state that can be reached.
THEOREM Invariance == Spec => []IInv
  BY InitIInv, NextIInv, PTL DEF Spec

\* What the invariant says of commands nobody disturbed.
LEMMA IInvNeeded == IInv => OnlyWhatIsNeeded
<1> SUFFICES ASSUME IInv, NEW o \in Operators \ disturbed
             PROVE  /\ run[o].pc = "push" => ~measuring
                    /\ (run[o].cmd.name = "config" /\ run[o].pc \in {"stop", "push"}) =>
                         ~Agrees(settings, run[o].cmd.cc)
                    /\ run[o].pc = "start" => ~measuring /\ Agrees(settings, run[o].cmd.cc)
  BY Zenon DEF OnlyWhatIsNeeded
<1>1. Knows(run[o])
  BY Zenon DEF IInv, Undisturbed
<1>2. ASSUME run[o].cmd.name = "config", run[o].pc \in {"stop", "push"}
      PROVE  ~Agrees(settings, run[o].cmd.cc)
  <2>1. run[o].cmd.cc \in Configs
    BY <1>2, Zenon DEF IInv, Running, Shape
  <2>2. run[o].f = SetAll(settings, Wanted(run[o].cmd.cc)) /\ run[o].f # settings
    BY <1>1, <1>2, Zenon DEF Knows
  <2>3. settings \in Settings
    BY Zenon DEF IInv, TypeInv
  <2>4. QED
    BY <2>1, <2>2, <2>3, SetAllAgrees, Zenon
<1>3. QED
  BY <1>1, <1>2, Zenon DEF Knows

\* Whatever commands failed halfway, were killed or run at the same time: one
\* that no other disturbed writes settings or firmware only while the device is
\* not measuring, stops or restarts a measurement only if the settings are not
\* yet those asked for, and starts one only after they are.
THEOREM NeededOnly == Spec => []OnlyWhatIsNeeded
  BY Invariance, IInvNeeded, PTL

\* Every line export prints is labelled with the probe and the server the sample
\* was measured with, unless the channel was set up anew or the export was
\* disturbed.
THEOREM LabelsRight == Spec => []LabelRight
<1>1. IInv => LabelRight
  BY Zenon DEF IInv
<1>2. QED
  BY <1>1, Invariance, PTL

\* The places of a sample are one or, when it is lost, none.
LEMMA IInvOnce == IInv => SampleOnce
<1> SUFFICES ASSUME IInv, NEW n \in 1 .. taken
             PROVE  Cardinality({s \in samples : s.n = n}
                                  \cup {o \in Operators : \E s \in run[o].csv : s.n = n}
                                  \cup {l \in output : l.sample.n = n})
                      = IF n \in lost THEN 0 ELSE 1
  BY Zenon DEF SampleOnce
<1> DEFINE S == {s \in samples : s.n = n}
           W == {o \in Operators : \E s \in run[o].csv : s.n = n}
           L == {l \in output : l.sample.n = n}
<1>1. /\ OnDevice(n) <=> S # {}
      /\ Printed(n) <=> L # {}
      /\ \A o \in Operators : With(o, n) <=> o \in W
  BY Zenon DEF OnDevice, Printed, With
<1>2. /\ \A s, t \in S : s = t
      /\ \A l, m \in L : l = m
  BY Zenon DEF IInv, Placed
<1>3. W \subseteq Operators
  BY Zenon
<1>4. /\ S # {} \/ W # {} \/ L # {} \/ n \in lost
      /\ S # {} => L = {} /\ n \notin lost
      /\ L # {} => n \notin lost
      /\ W # {} => S = {} /\ L = {} /\ n \notin lost
      /\ \A o, p \in W : o = p
  <2>1. /\ OnDevice(n) \/ (\E o \in Operators : With(o, n)) \/ Printed(n) \/ n \in lost
        /\ OnDevice(n) => ~Printed(n) /\ n \notin lost
        /\ Printed(n) => n \notin lost
        /\ \A o \in Operators : With(o, n) =>
             /\ ~OnDevice(n) /\ ~Printed(n) /\ n \notin lost
             /\ \A p \in Operators : With(p, n) => p = o
    BY Zenon DEF IInv, Placed
  <2> HIDE DEF S, W, L
  <2>2. QED
    BY <1>1, <1>3, <2>1, Zenon
<1> HIDE DEF S, W, L
<1>5. CASE n \in lost
  <2>1. S \cup W \cup L = {}
    BY <1>4, <1>5, Zenon
  <2>2. QED
    BY <1>5, <2>1, FS_EmptySet, Zenon DEF S, W, L
<1>6. CASE n \notin lost
  <2>1. PICK x : S \cup W \cup L = {x}
    <3>1. CASE S # {}
      BY <1>2, <1>4, <3>1
    <3>2. CASE W # {}
      BY <1>4, <3>2
    <3>3. CASE L # {} /\ S = {} /\ W = {}
      BY <1>2, <3>3
    <3>4. QED
      BY <1>4, <1>6, <3>1, <3>2, <3>3, Zenon
  <2>2. Cardinality(S \cup W \cup L) = 1
    BY <2>1, FS_Singleton, Zenon
  <2>3. QED
    BY <1>6, <2>2, Zenon DEF S, W, L
<1>7. QED
  BY <1>5, <1>6, Zenon

\* However calls fail and exports are killed or run at the same time, every
\* sample taken is on the device, with one export, in one printed line or lost,
\* and in one of them only.
THEOREM EverySampleOnce == Spec => []SampleOnce
  BY Invariance, IInvOnce, PTL

\* The steps that change the version.
LEMMA VersionStep ==
  ASSUME IInv, Next, version' < version
  PROVE  \E o \in disturbed : At(o, "firmware", "push")
<1>1. version \in Nat
  BY Zenon DEF IInv, TypeInv
<1>2. version' # version
  BY <1>1
<1>3. PICK o \in Operators : FirmwarePush(o)
  BY <1>2, ZenonT(30) DEF Next, Step, Start, ConfigFetch, ConfigStatus, StopMeasure,
     ConfigPush, ConfigStart, FirmwareVersion, FirmwareStatus, ExportChannels, ExportProbe,
     ExportTarget, FetchCsv, ExportPrint, Reboot, ClearDevice, Report, Kill, Measure, device
<1>4. At(o, "firmware", "push") /\ version' = run[o].cmd.v
  BY <1>2, <1>3, Zenon DEF FirmwarePush, PushVersion
<1>5. run[o].cmd.v \in Nat
  BY Zenon DEF IInv, TypeInv, RunState, AnyCommand
<1>6. o \notin disturbed => version < run[o].cmd.v
  <2>1. o \notin disturbed => Knows(run[o])
    BY Zenon DEF IInv, Undisturbed
  <2>2. QED
    BY <1>4, <2>1, Zenon DEF Knows, At
<1>7. QED
  BY <1>1, <1>4, <1>5, <1>6

\* Firmware goes back to an earlier version only by the hand of a command
\* another one disturbed between its comparison and its upload.
THEOREM Downgrades == Spec => NeverDowngraded
<1>1. ASSUME IInv, [Next]_vars
      PROVE  [version' < version => \E o \in disturbed : At(o, "firmware", "push")]_vars
  <2>1. CASE Next
    BY <1>1, <2>1, VersionStep, Zenon
  <2>2. CASE UNCHANGED vars
    BY <2>2, Zenon
  <2>3. QED
    BY <1>1, <2>1, <2>2, Zenon
<1>2. QED
  BY <1>1, Invariance, PTL DEF Spec, NeverDowngraded

\* How config can end well.
LEMMA EffectiveStep ==
  ASSUME IInv, Next, NEW o \in Operators,
         run[o].cmd.name = "config", run[o].cmd.apply, run'[o].pc = "idle",
         outcome'[o] = "ok", o \notin disturbed
  PROVE  measuring' /\ Agrees(settings', run[o].cmd.cc)
<1>1. run[o].pc # "idle" /\ outcome[o] = "none" /\ run[o].cmd.cc \in Configs
  <2>1. NoRun.cmd.name = "none"
    BY Zenon DEF NoRun, Command
  <2>2. QED
    BY <2>1, Zenon DEF IInv, Running, Shape
<1>2. Step(o)
  <2>1. ASSUME NEW p \in Operators, Step(p), p # o
        PROVE  FALSE
    BY <1>1, <2>1, StepKept, Zenon DEF Kept
  <2>2. ASSUME NEW ch \in Channels, Measure(ch)
        PROVE  FALSE
    BY <1>1, <2>2, Zenon DEF Measure
  <2>3. QED
    BY <2>1, <2>2, Zenon DEF Next
<1>3. Knows(run[o]) /\ settings \in Settings
  BY Zenon DEF IInv, Undisturbed, TypeInv
<1>4. outcome'[o] # "error" /\ outcome'[o] # "none" /\ "ok" # "error"
  BY <1>1, Zenon
<1>5. outcome \in [Operators -> {"none", "ok", "error"}] /\ run \in [Operators -> RunState]
  BY Zenon DEF IInv, TypeInv
<1>6. ~Finish(o, "error") /\ ~(UNCHANGED outcome)
  BY <1>1, <1>4, <1>5, Zenon DEF Finish
<1>7. ConfigStatus(o) \/ ConfigStart(o)
  <2>1. ~(\E c \in Commands : Start(o, c))
    BY <1>1, Zenon DEF Start
  <2>2. ~ConfigFetch(o)
    BY <1>6, Zenon DEF ConfigFetch
  <2>3. ~ConfigPush(o) /\ ~StopMeasure(o)
    BY <1>6, Zenon DEF ConfigPush, StopMeasure, Then, Goto
  <2>4. ~Kill(o)
    BY <1>6, Zenon DEF Kill
  <2>5. run[o].cmd.name # "firmware" /\ run[o].cmd.name # "export"
        /\ run[o].cmd.name # "reboot" /\ run[o].cmd.name # "clear"
        /\ run[o].cmd.name # "report"
    BY Zenon
  <2>6. QED
    BY <1>2, <2>1, <2>2, <2>3, <2>4, <2>5, Zenon DEF Step, FirmwareVersion, FirmwareStatus,
       FirmwarePush, ExportChannels, ExportProbe, ExportTarget, FetchCsv, ExportPrint,
       Reboot, ClearDevice, Report, At
<1>8. CASE ConfigStart(o)
  <2>1. Agrees(settings, run[o].cmd.cc)
    BY <1>3, <1>8, Zenon DEF ConfigStart, At, Knows
  <2>2. settings' = settings
    BY <1>8, Zenon DEF ConfigStart
  <2>3. PICK a \in Answers : /\ measuring' = (measuring \/ a # "failed")
                             /\ Finish(o, IF a = "ok" THEN "ok" ELSE "error")
    BY <1>8, Zenon DEF ConfigStart
  <2>4. a = "ok"
    BY <1>6, <2>3, Zenon
  <2>5. QED
    BY <2>1, <2>2, <2>3, <2>4, Zenon
<1>9. CASE ConfigStatus(o)
  <2>1. PICK a \in Answers : IF a = "ok" /\ AfterStatus(o) = "done" THEN Finish(o, "ok")
                             ELSE Then(o, a, AfterStatus(o))
    BY <1>9, Zenon DEF ConfigStatus
  <2>2. AfterStatus(o) = "done"
    BY <1>6, <2>1, Zenon DEF Then, Goto
  <2>3. ~run[o].changed /\ measuring
    BY <2>2, Zenon DEF AfterStatus, FetchStatus
  <2>4. run[o].f = SetAll(settings, Wanted(run[o].cmd.cc)) /\ run[o].f = settings
    <3>1. /\ run[o].f = SetAll(settings, Wanted(run[o].cmd.cc))
          /\ run[o].changed = (run[o].f # settings)
      BY <1>3, <1>9, Zenon DEF ConfigStatus, At, Knows
    <3>2. QED
      BY <2>3, <3>1, Zenon
  <2>5. Agrees(settings, run[o].cmd.cc)
    BY <1>1, <1>3, <2>4, SetAllAgrees, Zenon
  <2>6. UNCHANGED <<settings, measuring>>
    BY <1>9, Zenon DEF ConfigStatus, device
  <2>7. QED
    BY <2>3, <2>5, <2>6, Zenon
<1>10. QED
  BY <1>7, <1>8, <1>9, Zenon

\* Whatever earlier or concurrent commands left behind: a config --apply that
\* ends without an error and undisturbed leaves the device set up as asked and
\* measuring.
THEOREM Effective == Spec => ConfigEffective
<1>1. ASSUME IInv, [Next]_vars
      PROVE  [\A o \in Operators :
                (/\ run[o].cmd.name = "config" /\ run[o].cmd.apply
                 /\ run'[o].pc = "idle" /\ outcome'[o] = "ok" /\ o \notin disturbed) =>
                  measuring' /\ Agrees(settings', run[o].cmd.cc)]_vars
  <2>1. CASE Next
    BY <1>1, <2>1, EffectiveStep, Zenon
  <2>2. CASE UNCHANGED vars
    BY <2>2, Zenon
  <2>3. QED
    BY <1>1, <2>1, <2>2, Zenon
<1>2. QED
  BY <1>1, Invariance, PTL DEF Spec, ConfigEffective

=============================================================================
