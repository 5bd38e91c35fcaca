------------------------------- MODULE Calnex -------------------------------
(***************************************************************************)
(* src/calnex: the commands of the calnex tool (config, firmware, export,  *)
(* reboot, clear, report), each a sequence of HTTP calls to one measuring  *)
(* device.  Several operators may run them at the same time, a call may    *)
(* fail before or after the device has carried it out, and a command may   *)
(* be killed between two calls.  Nothing on the device ties the calls of a *)
(* command together: Config reads the settings, edits its copy and writes  *)
(* all of it back.                                                         *)
(*                                                                         *)
(* The device is external.                                                 *)
(***************************************************************************)
EXTENDS Integers, FiniteSets

CONSTANTS
  Operators, Channels, Targets,
  Configs,       \* CalnexConfig values: functions from channels to [probe, target]
  Versions,      \* firmware versions
  MaxRuns,       \* bound: commands started
  MaxSamples,    \* bound: samples taken
  MaxFaults      \* bound: failed calls and killed commands

Probes == {"ptp", "ntp"}

ASSUME CalnexAssumption ==
  /\ Configs \subseteq UNION {[chs -> [probe : Probes, target : Targets]] :
                                 chs \in SUBSET Channels}
  /\ Versions \subseteq Nat /\ Versions # {}
  /\ MaxRuns \in Nat /\ MaxSamples \in Nat /\ MaxFaults \in Nat

Keys == {<<"all", "base">>}
          \cup (Channels \X ({"probe", "used"} \cup Probes))

Command(n, cc, v, chs, apply) ==
  [name |-> n, cc |-> cc, v |-> v, chs |-> chs, apply |-> apply]

\* The command lines: with --apply or without, all used channels or some.
ConfigCommands ==
  {Command("config", cc, 0, {}, a) : cc \in Configs, a \in BOOLEAN}
FirmwareCommands ==
  {Command("firmware", <<>>, v, {}, a) : v \in Versions, a \in BOOLEAN}
ExportCommands ==
  {Command("export", <<>>, 0, chs, FALSE) : chs \in {{}, Channels}}
Commands ==
  ConfigCommands \cup FirmwareCommands \cup ExportCommands
  \cup {Command(n, <<>>, 0, {}, FALSE) : n \in {"reboot", "clear", "report"}}

VARIABLES
  \* the device
  settings, measuring, version, samples,
  \* one record per operator: the command running there and its local state
  run,
  output,        \* lines export has printed
  outcome,       \* of each operator's last command
  runs, taken, faults,
  \* history
  disturbed,     \* operators during whose command another one changed the device
  lost,          \* numbers of the samples that were lost
  relabelled     \* numbers of the samples whose channel was set up anew since

device == <<settings, measuring, version, samples>>
hist == <<disturbed, lost, relabelled>>
vars == <<device, run, output, outcome, runs, taken, faults, hist>>

NoRun == [cmd |-> Command("none", <<>>, 0, {}, FALSE), pc |-> "idle", f |-> <<>>,
          changed |-> FALSE, todo |-> {}, ch |-> {}, probe |-> "none",
          target |-> "none", csv |-> {}, success |-> FALSE]

\* A device fresh from the factory: nothing set up, nothing used.
Factory == [k \in Keys |-> IF k[2] = "used" THEN "No" ELSE "none"]

Init ==
  /\ settings = Factory /\ measuring = FALSE
  /\ version \in Versions /\ samples = {}
  /\ run = [o \in Operators |-> NoRun]
  /\ output = {} /\ outcome = [o \in Operators |-> "none"]
  /\ runs = 0 /\ taken = 0 /\ faults = 0
  /\ disturbed = {} /\ lost = {} /\ relabelled = {}

At(o, name, pc) == run[o].cmd.name = name /\ run[o].pc = pc

\* How a call can end: answered; failed with nothing done; done, but the
\* answer was lost or said otherwise.
Answers == {"ok"} \cup (IF faults < MaxFaults THEN {"failed", "lost"} ELSE {})
Count(a) == faults' = IF a = "ok" THEN faults ELSE faults + 1

\* The calls of the API that read the device, and those that write to it.
FetchSettings == settings
FetchStatus == measuring
FetchVersion == version
PushSettings(f, a) == settings' = IF a = "failed" THEN settings ELSE f
PushVersion(v, a) ==
  /\ version' = IF a = "failed" THEN version ELSE v
  /\ measuring' = (measuring /\ a = "failed")   \* the device restarts

Goto(o, pc) == run' = [run EXCEPT ![o].pc = pc] /\ UNCHANGED outcome

\* The process exits and with it goes what it had fetched and not printed.
Finish(o, out) ==
  /\ run' = [run EXCEPT ![o] = NoRun]
  /\ outcome' = [outcome EXCEPT ![o] = out]

\* The next step of o, or its end after an error.
Then(o, a, pc) == IF a = "ok" THEN Goto(o, pc) ELSE Finish(o, "error")

Busy == {o \in Operators : run[o].pc # "idle"}

\* The device is changed under o's hands, not the others'.
Disturb(o) == disturbed' = disturbed \cup (Busy \ {o})

Start(o, c) ==
  /\ run[o].pc = "idle" /\ runs < MaxRuns
  /\ run' = [run EXCEPT ![o] = [NoRun EXCEPT !.cmd = c, !.pc = "fetch"]]
  /\ runs' = runs + 1
  /\ outcome' = [outcome EXCEPT ![o] = "none"]
  /\ disturbed' = disturbed \ {o}
  /\ UNCHANGED <<device, output, taken, faults, lost, relabelled>>

(***************************************************************************)
(* config.Config.                                                          *)
(***************************************************************************)
Label(s, ch) == <<s[<<ch, "probe">>], IF s[<<ch, "probe">>] \in Probes
                                      THEN s[<<ch, s[<<ch, "probe">>]>>] ELSE "none">>

\* baseConfig, nicConfig and measureConfig: the keys they set and the values.
WantedKeys(cc) ==
  {<<"all", "base">>} \cup (Channels \X {"used"})
    \cup {<<ch, "probe">> : ch \in DOMAIN cc}
    \cup {<<ch, cc[ch].probe>> : ch \in DOMAIN cc}

Wanted(cc) ==
  [k \in WantedKeys(cc) |->
     CASE k[2] = "base" -> "set"
       [] k[2] = "used" -> IF k[1] \in DOMAIN cc THEN "Yes" ELSE "No"
       [] k[2] = "probe" -> cc[k[1]].probe
       [] OTHER -> cc[k[1]].target]

\* config.set, for every key.
SetAll(s, w) == [k \in Keys |-> IF k \in DOMAIN w THEN w[k] ELSE s[k]]

\* Mutant of Changed: every set counts as a change.
ChangedAlways(f) == TRUE

\* config.set notes whether any value was another one before.
Changed(f) == f # FetchSettings

ConfigFetch(o) ==
  /\ At(o, "config", "fetch")
  /\ \E a \in Answers :
       LET f == SetAll(FetchSettings, Wanted(run[o].cmd.cc))
       IN  /\ Count(a)
           /\ IF a # "ok" THEN Finish(o, "error")
              ELSE IF ~run[o].cmd.apply THEN Finish(o, "ok")
              ELSE /\ run' = [run EXCEPT ![o].pc = "status", ![o].f = f,
                                         ![o].changed = Changed(f)]
                   /\ UNCHANGED outcome
  /\ UNCHANGED <<device, output, runs, taken, hist>>

\* Mutant of AfterStatus: a measurement that is active is left alone.
AfterStatusKeep(o) ==
  IF measuring THEN "done"
  ELSE IF run[o].changed THEN "push" ELSE "start"

AfterStatus(o) ==
  IF run[o].changed THEN (IF FetchStatus THEN "stop" ELSE "push")
  ELSE IF FetchStatus THEN "done" ELSE "start"

ConfigStatus(o) ==
  /\ At(o, "config", "status")
  /\ \E a \in Answers :
       /\ Count(a)
       /\ IF a = "ok" /\ AfterStatus(o) = "done" THEN Finish(o, "ok")
          ELSE Then(o, a, AfterStatus(o))
  /\ UNCHANGED <<device, output, runs, taken, hist>>

\* StopMeasure, of Config and of Firmware.
StopMeasure(o) ==
  /\ run[o].pc = "stop"
  /\ \E a \in Answers :
       /\ Count(a)
       /\ measuring' = (measuring /\ a = "failed")
       /\ Then(o, a, "push")
  /\ Disturb(o)
  /\ UNCHANGED <<settings, version, samples, output, runs, taken, lost, relabelled>>

Held == samples \cup UNION {run[o].csv : o \in Operators}

Relabel(old, new) ==
  relabelled' = relabelled \cup {s.n : s \in {s \in Held : Label(old, s.ch) # Label(new, s.ch)}}

ConfigPush(o) ==
  /\ At(o, "config", "push")
  /\ \E a \in Answers :
       /\ Count(a)
       /\ PushSettings(run[o].f, a)
       /\ Then(o, a, "start")
  /\ Relabel(settings, settings')
  /\ Disturb(o)
  /\ UNCHANGED <<measuring, version, samples, output, runs, taken, lost>>

ConfigStart(o) ==
  /\ At(o, "config", "start")
  /\ \E a \in Answers :
       /\ Count(a)
       /\ measuring' = (measuring \/ a # "failed")
       /\ Finish(o, IF a = "ok" THEN "ok" ELSE "error")
  /\ Disturb(o)
  /\ UNCHANGED <<settings, version, samples, output, runs, taken, lost, relabelled>>

(***************************************************************************)
(* firmware.Firmware.                                                      *)
(***************************************************************************)
\* Mutant of NeedsUpdate: any other version counts as newer.
NeedsUpdateAny(v) == FetchVersion # v

NeedsUpdate(v) == FetchVersion < v

FirmwareVersion(o) ==
  /\ At(o, "firmware", "fetch")
  /\ \E a \in Answers :
       /\ Count(a)
       /\ IF a # "ok" THEN Finish(o, "error")
          ELSE IF ~NeedsUpdate(run[o].cmd.v) \/ ~run[o].cmd.apply THEN Finish(o, "ok")
          ELSE Goto(o, "status")
  /\ UNCHANGED <<device, output, runs, taken, hist>>

FirmwareStatus(o) ==
  /\ At(o, "firmware", "status")
  /\ \E a \in Answers : Count(a) /\ Then(o, a, IF FetchStatus THEN "stop" ELSE "push")
  /\ UNCHANGED <<device, output, runs, taken, hist>>

\* The file is opened only now, with the measurement already stopped.
FirmwarePush(o) ==
  /\ At(o, "firmware", "push")
  /\ \E a \in Answers :
       /\ Count(a)
       /\ PushVersion(run[o].cmd.v, a)
       /\ Finish(o, IF a = "ok" THEN "ok" ELSE "error")
  /\ Disturb(o)
  /\ UNCHANGED <<settings, samples, output, runs, taken, lost, relabelled>>

(***************************************************************************)
(* export.Export.                                                          *)
(***************************************************************************)
FetchUsedChannels == {ch \in Channels : settings[<<ch, "used">>] = "Yes"}

\* The loop over the channels takes its next turn, or Export returns.
NextChannel(o, todo, ok) ==
  IF todo = {} THEN Finish(o, IF ok THEN "ok" ELSE "error")
  ELSE \E ch \in todo :
         /\ run' = [run EXCEPT ![o].pc = "probe", ![o].todo = todo \ {ch},
                               ![o].ch = {ch}, ![o].csv = {}, ![o].success = ok]
         /\ UNCHANGED outcome

ExportChannels(o) ==
  /\ At(o, "export", "fetch")
  /\ IF run[o].cmd.chs # {} THEN NextChannel(o, run[o].cmd.chs, FALSE) /\ UNCHANGED faults
     ELSE \E a \in Answers :
            /\ Count(a)
            /\ IF a = "ok" THEN NextChannel(o, FetchUsedChannels, FALSE)
               ELSE Finish(o, "error")
  /\ UNCHANGED <<device, output, runs, taken, hist>>

\* FetchChannelProbe, ProbeFromCalnex.
ExportProbe(o) ==
  /\ At(o, "export", "probe")
  /\ \E a \in Answers : \E ch \in run[o].ch :
       LET p == settings[<<ch, "probe">>]
       IN  /\ Count(a)
           /\ IF a # "ok" \/ p \notin Probes
                THEN NextChannel(o, run[o].todo, run[o].success)
                ELSE /\ run' = [run EXCEPT ![o].pc = "target", ![o].probe = p]
                     /\ UNCHANGED outcome
  /\ UNCHANGED <<device, output, runs, taken, hist>>

\* Mutant of TargetKey: always the master of PTP.
TargetKeyPTP(ch, p) == <<ch, "ptp">>

\* ServerType: the key under which the probe's server is kept.
TargetKey(ch, p) == <<ch, p>>

\* FetchChannelTargetName.
ExportTarget(o) ==
  /\ At(o, "export", "target")
  /\ \E a \in Answers : \E ch \in run[o].ch :
       /\ Count(a)
       /\ IF a # "ok" THEN NextChannel(o, run[o].todo, run[o].success)
          ELSE /\ run' = [run EXCEPT ![o].pc = "csv",
                                     ![o].target = settings[TargetKey(ch, run[o].probe)]]
               /\ UNCHANGED outcome
  /\ UNCHANGED <<device, output, runs, taken, hist>>

Of(ch) == {s \in samples : s.ch = ch}

\* Mutant of Reset: reading leaves the data on the device.
NoReset(ch) == samples

\* getdata?...&reset=true
Reset(ch) == samples \ Of(ch)

FetchCsv(o) ==
  /\ At(o, "export", "csv")
  /\ \E a \in Answers : \E ch \in run[o].ch :
       /\ Count(a)
       /\ samples' = IF a = "failed" THEN samples ELSE Reset(ch)
       /\ lost' = IF a = "lost" THEN lost \cup {s.n : s \in Of(ch)} ELSE lost
       /\ IF a = "ok"
            THEN run' = [run EXCEPT ![o].pc = "print", ![o].csv = Of(ch)]
                 /\ UNCHANGED outcome
            ELSE NextChannel(o, run[o].todo, run[o].success)
  /\ UNCHANGED <<settings, measuring, version, output, runs, taken, disturbed,
                 relabelled>>

Line(o, s) == [sample |-> s, label |-> <<run[o].probe, run[o].target>>, by |-> o,
               disturbed |-> o \in disturbed]

\* The first line that cannot be parsed, if any, ends the channel: it and what
\* follows are dropped.
ExportPrint(o) ==
  /\ At(o, "export", "print")
  /\ \E bad \in {0} \cup (IF faults < MaxFaults THEN {s.n : s \in run[o].csv} ELSE {}) :
       LET dropped == {s \in run[o].csv : bad # 0 /\ s.n >= bad}
       IN  /\ Count(IF bad = 0 THEN "ok" ELSE "failed")
           /\ output' = output \cup {Line(o, s) : s \in run[o].csv \ dropped}
           /\ lost' = lost \cup {s.n : s \in dropped}
           /\ NextChannel(o, run[o].todo, run[o].success \/ bad = 0)
  /\ UNCHANGED <<device, runs, taken, disturbed, relabelled>>

(***************************************************************************)
(* reboot, clear and report.                                               *)
(***************************************************************************)
Reboot(o) ==
  /\ At(o, "reboot", "fetch")
  /\ \E a \in Answers :
       /\ Count(a)
       /\ measuring' = (measuring /\ a = "failed")
       /\ Finish(o, IF a = "ok" THEN "ok" ELSE "error")
  /\ Disturb(o)
  /\ UNCHANGED <<settings, version, samples, output, runs, taken, lost, relabelled>>

ClearDevice(o) ==
  /\ At(o, "clear", "fetch")
  /\ \E a \in Answers :
       /\ Count(a)
       /\ IF a = "failed" THEN UNCHANGED <<settings, measuring, samples, lost>>
          ELSE /\ settings' = Factory /\ measuring' = FALSE /\ samples' = {}
               /\ lost' = lost \cup {s.n : s \in samples}
       /\ Finish(o, IF a = "ok" THEN "ok" ELSE "error")
  /\ Relabel(settings, settings')
  /\ Disturb(o)
  /\ UNCHANGED <<version, output, runs, taken>>

Report(o) ==
  /\ At(o, "report", "fetch")
  /\ \E a \in Answers : Count(a) /\ Finish(o, IF a = "ok" THEN "ok" ELSE "error")
  /\ UNCHANGED <<device, output, runs, taken, hist>>

(***************************************************************************)
(* Faults, and the device at work (external).                              *)
(***************************************************************************)
Kill(o) ==
  /\ run[o].pc # "idle" /\ faults < MaxFaults
  /\ faults' = faults + 1
  /\ Finish(o, "error")
  /\ lost' = lost \cup {s.n : s \in run[o].csv}
  /\ UNCHANGED <<device, output, runs, taken, disturbed, relabelled>>

Measure(ch) ==
  /\ measuring /\ settings[<<ch, "used">>] = "Yes" /\ taken < MaxSamples
  /\ taken' = taken + 1
  /\ samples' = samples \cup {[n |-> taken + 1, ch |-> ch, label |-> Label(settings, ch)]}
  /\ UNCHANGED <<settings, measuring, version, run, output, outcome, runs, faults, hist>>

Step(o) ==
  \/ \E c \in Commands : Start(o, c)
  \/ ConfigFetch(o) \/ ConfigStatus(o) \/ ConfigPush(o) \/ ConfigStart(o)
  \/ StopMeasure(o)
  \/ FirmwareVersion(o) \/ FirmwareStatus(o) \/ FirmwarePush(o)
  \/ ExportChannels(o) \/ ExportProbe(o) \/ ExportTarget(o) \/ FetchCsv(o)
  \/ ExportPrint(o)
  \/ Reboot(o) \/ ClearDevice(o) \/ Report(o)
  \/ Kill(o)

Next == (\E o \in Operators : Step(o)) \/ (\E ch \in Channels : Measure(ch))

Spec == Init /\ [][Next]_vars

(***************************************************************************)
(* Properties.                                                             *)
(***************************************************************************)
Agrees(s, cc) == \A k \in DOMAIN Wanted(cc) : s[k] = Wanted(cc)[k]

\* Whatever earlier commands have left behind, failed halfway or were killed
\* at, a config --apply that returns no error leaves the device set up as
\* asked and measuring, if no other command changed the device meanwhile.
ConfigEffective ==
  [][\A o \in Operators :
       (/\ run[o].cmd.name = "config" /\ run[o].cmd.apply
        /\ run'[o].pc = "idle" /\ outcome'[o] = "ok" /\ o \notin disturbed) =>
         measuring' /\ Agrees(settings', run[o].cmd.cc)]_vars

\* Undisturbed, a command writes settings or firmware only while nothing is
\* measured, and config interrupts or restarts a measurement only if the
\* device is not yet as asked: a second run of it does nothing.
OnlyWhatIsNeeded ==
  \A o \in Operators \ disturbed :
    /\ run[o].pc = "push" => ~measuring
    /\ (run[o].cmd.name = "config" /\ run[o].pc \in {"stop", "push"}) =>
         ~Agrees(settings, run[o].cmd.cc)
    /\ run[o].pc = "start" => ~measuring /\ Agrees(settings, run[o].cmd.cc)

\* Firmware goes back to an earlier version only if another command came
\* between the comparison and the upload.
NeverDowngraded ==
  [][version' < version => \E o \in disturbed : At(o, "firmware", "push")]_vars

\* A sample is in exactly one place: on the device, with one export, in one
\* printed line, or lost.  In particular no two exports print it.
SampleOnce ==
  \A n \in 1 .. taken :
    LET places == {s \in samples : s.n = n}
                    \cup {o \in Operators : \E s \in run[o].csv : s.n = n}
                    \cup {l \in output : l.sample.n = n}
    IN  Cardinality(places) = IF n \in lost THEN 0 ELSE 1

\* A printed line names the probe and the server the sample was measured
\* with, although they are asked for one by one and before the data, unless
\* the channel was set up anew after the sample was taken or another command
\* changed the device during the export.
LabelRight ==
  \A l \in output : \/ l.label = l.sample.label
                    \/ l.sample.n \in relabelled \/ l.disturbed

=============================================================================
