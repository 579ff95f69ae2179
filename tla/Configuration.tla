--------------------------- MODULE Configuration ---------------------------
(***************************************************************************)
(* Foundation's configuration file: the parser, the serialiser and the     *)
(* loader, with somebody else editing the file while it is loaded.         *)
(*                                                                         *)
(* A document is a sequence of lines, a line a record of the two trimmed   *)
(* sides of its first '='.  The values that are texts in the code are      *)
(* texts here; Trimmed and Numbers say what Trim and from_chars make of    *)
(* those a document may contain.  The file is opened in text mode of a     *)
(* Windows C++ library, where the byte 0x1A ends the text.                 *)
(***************************************************************************)
EXTENDS Integers, Sequences

CONSTANTS
  Lines,     \* the lines a document may have
  Trimmed,   \* the texts with white space around them |-> without it
  Numbers,   \* the texts from_chars reads as a uint32 |-> that number
  Beginnings, \* a line |-> what it may read as if the reading ends inside it
  ControlZ,  \* the lines that hold the byte 0x1A |-> the line before it
  SizeLimit, \* kMaximumConfigurationFileBytes, in lines
  MaxLines,  \* bound: lines in a file
  MaxEdits   \* bound: changes made to the file while it is loaded

ASSUME ConfigurationAssumption ==
  /\ \A l \in Lines : DOMAIN l = {"key", "value"}
  /\ \A v \in DOMAIN Numbers : Numbers[v] \in Nat
  /\ Beginnings \in [Lines -> SUBSET Lines] /\ \A l \in Lines : l \notin Beginnings[l]
  /\ DOMAIN ControlZ \subseteq Lines /\ \A l \in DOMAIN ControlZ : ControlZ[l] \in Lines
  /\ SizeLimit \in Nat /\ MaxLines \in Nat /\ MaxEdits \in Nat

VARIABLES
  file,    \* the document on disk
  load,    \* the loader: "idle", "sized", "reading", "parsing" or "done"
  text,    \* what it has read
  result,  \* ConfigurationLoadResult
  edits,   \* bound: how often the file was changed
  version,   \* history: the file when the reading of it ended
  disturbed  \* history: a read failed, or a line that was there was changed

vars == <<file, load, text, result, edits, version, disturbed>>

-----------------------------------------------------------------------------
(* ParseConfiguration *)

Skipped == "#"     \* the key of a blank line or a comment
NoEquals == "text" \* the key of a line without '='

BoolKeys == {"start_minimized", "telemetry_enabled"}
TextKeys == {"preferred_render_endpoint_id", "log_directory"}
Severities == {"trace", "debug", "info", "warning", "error", "critical"}
kConfigurationSchemaVersion == 1

DefaultConfiguration ==
  [schema_version |-> kConfigurationSchemaVersion,
   start_minimized |-> FALSE, telemetry_enabled |-> FALSE,
   preferred_render_endpoint_id |-> "", log_directory |-> "logs",
   minimum_log_severity |-> "info"]

Trim(v) == IF v \in DOMAIN Trimmed THEN Trimmed[v] ELSE v

\* What has no white space around it stays: what Trim returns, the words of
\* the format, and numbers, of which from_chars reads every character.
ASSUME TrimAssumption ==
  /\ \A v \in DOMAIN Trimmed : Trimmed[v] \notin DOMAIN Trimmed
  /\ DOMAIN Trimmed \cap
       ({"", "logs", "true", "false"} \cup Severities \cup DOMAIN Numbers) = {}

ParsesBool(v) == v \in {"true", "1", "false", "0"}
BoolOf(v) == v \in {"true", "1"}

\* Faulty variant: a severity is not looked up.
Accepts_AnySeverity(key, v) ==
  \/ key = "schema_version" /\ v \in DOMAIN Numbers
     /\ Numbers[v] = kConfigurationSchemaVersion
  \/ key \in BoolKeys /\ ParsesBool(v)
  \/ key = "minimum_log_severity" \/ key \in TextKeys

\* What a key demands of its value; no other key is known.
Accepts(key, v) ==
  \/ key = "schema_version" /\ v \in DOMAIN Numbers
     /\ Numbers[v] = kConfigurationSchemaVersion
  \/ key \in BoolKeys /\ ParsesBool(v)
  \/ key = "minimum_log_severity" /\ v \in Severities
  \/ key \in TextKeys

ValueOf(key, v) ==
  IF key = "schema_version" THEN Numbers[v]
  ELSE IF key \in BoolKeys THEN BoolOf(v) ELSE v

\* Faulty variant: a key is only accepted once.
Assign_First(config, key, v) ==
  IF config[key] = DefaultConfiguration[key]
  THEN [config EXCEPT ![key] = ValueOf(key, v)] ELSE config
\* An assignment that comes later in the document wins.
Assign(config, key, v) == [config EXCEPT ![key] = ValueOf(key, v)]

Error(line) == [configuration |-> <<>>, error_line |-> line]
Success(config) == [configuration |-> <<config>>, error_line |-> 0]

\* What the parser knows before the first line.
Unread == [config |-> DefaultConfiguration, schema_seen |-> FALSE, error |-> 0]

\* The n-th line: the first one that is wrong ends the parsing.
ParseLine(before, n, l) ==
  IF before.error # 0 \/ l.key = Skipped THEN before
  ELSE IF ~Accepts(l.key, Trim(l.value)) THEN [before EXCEPT !.error = n]
  ELSE [config |-> Assign(before.config, l.key, Trim(l.value)),
        schema_seen |-> before.schema_seen \/ l.key = "schema_version",
        error |-> 0]

\* What the parser knows after the first n lines.
Parsed(lines) ==
  LET step[n \in 0..Len(lines)] ==
        IF n = 0 THEN Unread ELSE ParseLine(step[n - 1], n, lines[n])
  IN step

Parse(lines) ==
  LET end == Parsed(lines)[Len(lines)]
  IN IF end.error # 0 THEN Error(end.error)
     ELSE IF ~end.schema_seen THEN Error(0) ELSE Success(end.config)

-----------------------------------------------------------------------------
(* SerializeConfiguration and ValidateConfiguration *)

Entry(key, v) == [key |-> key, value |-> v]

BoolText(b) == IF b THEN "true" ELSE "false"

NumberText(n) == CHOOSE v \in DOMAIN Numbers : Numbers[v] = n

\* Faulty variant: the key added last was forgotten.
SerializeConfiguration_Incomplete(c) ==
  <<Entry("schema_version", NumberText(c.schema_version)),
    Entry("start_minimized", BoolText(c.start_minimized)),
    Entry("telemetry_enabled", BoolText(c.telemetry_enabled)),
    Entry("preferred_render_endpoint_id", c.preferred_render_endpoint_id),
    Entry("log_directory", c.log_directory)>>

SerializeConfiguration(c) ==
  <<Entry("schema_version", NumberText(c.schema_version)),
    Entry("start_minimized", BoolText(c.start_minimized)),
    Entry("telemetry_enabled", BoolText(c.telemetry_enabled)),
    Entry("preferred_render_endpoint_id", c.preferred_render_endpoint_id),
    Entry("log_directory", c.log_directory),
    Entry("minimum_log_severity", c.minimum_log_severity)>>

ValidateConfiguration(c) ==
  /\ c.schema_version = kConfigurationSchemaVersion
  /\ c.log_directory # ""

-----------------------------------------------------------------------------
(* LoadConfigurationFromFile *)

Documents == UNION {[1..n -> Lines] : n \in 0..MaxLines}

Init ==
  /\ file \in Documents /\ edits = 0
  /\ load = "idle" /\ text = <<>> /\ result = Error(0)
  /\ version = <<>> /\ disturbed = FALSE

\* Faulty variant: the size of the file is not looked at.
WithinLimit_Any == TRUE
WithinLimit == Len(file) <= SizeLimit

CheckSize ==
  /\ load = "idle"
  /\ load' = IF WithinLimit THEN "sized" ELSE "done"
  /\ UNCHANGED <<file, text, result, edits, version, disturbed>>

Open ==
  /\ load = "sized"
  /\ load' = "reading"
  /\ UNCHANGED <<file, text, result, edits, version, disturbed>>

\* A line in text mode, and what it does to the reading.
AsRead(l) == IF l \in DOMAIN ControlZ THEN ControlZ[l] ELSE l
GoesOn(l) == IF l \in DOMAIN ControlZ THEN load' = "parsing" /\ version' = file
                                      ELSE UNCHANGED <<load, version>>

\* The last line that was read has become longer in the file.
HasRest ==
  /\ text # <<>> /\ Len(text) <= Len(file)
  /\ text[Len(text)] \in Beginnings[file[Len(text)]]

\* Streaming rdbuf(): line after line from what the file is by then.
ReadLine ==
  /\ load = "reading" /\ Len(text) < Len(file) /\ ~HasRest
  /\ text' = Append(text, AsRead(file[Len(text) + 1]))
  /\ GoesOn(file[Len(text) + 1])
  /\ UNCHANGED <<file, result, edits, disturbed>>

ReadRest ==
  /\ load = "reading" /\ HasRest
  /\ text' = [text EXCEPT ![Len(text)] = AsRead(file[Len(text)])]
  /\ GoesOn(file[Len(text)])
  /\ UNCHANGED <<file, result, edits, disturbed>>

\* The end of the file, or a read that fails between two lines or inside one,
\* or a buffer that cannot grow: neither fails the stream that is tested
\* afterwards, so neither fails the load.
EndRead ==
  /\ load = "reading"
  /\ load' = "parsing"
  /\ \/ UNCHANGED text
     \/ /\ Len(text) < Len(file)
        /\ \E l \in Beginnings[file[Len(text) + 1]] : text' = Append(text, l)
  /\ version' = file
  /\ disturbed' = (disturbed \/ Len(text) < Len(file))
  /\ UNCHANGED <<file, result, edits>>

ParseText ==
  /\ load = "parsing"
  /\ result' = Parse(text)
  /\ load' = "done"
  /\ UNCHANGED <<file, text, edits, version, disturbed>>

\* No such file, no access, no memory: every step may end in an exception,
\* which is caught and reported.
Fail ==
  /\ load \in {"idle", "sized", "reading", "parsing"}
  /\ load' = "done"
  /\ UNCHANGED <<file, text, result, edits, version, disturbed>>

LoadConfigurationFromFile ==
  CheckSize \/ Open \/ ReadLine \/ ReadRest \/ EndRead \/ ParseText \/ Fail

AddLine == Len(file) < MaxLines /\ \E l \in Lines : file' = Append(file, l)

\* The last line is removed, cut or completed.
ChangeLine ==
  /\ file # <<>>
  /\ LET last == Len(file)
     IN \/ file' = SubSeq(file, 1, last - 1)
        \/ \E l \in Lines : /\ l \in Beginnings[file[last]] \/ file[last] \in Beginnings[l]
                            /\ file' = [file EXCEPT ![last] = l]

\* Somebody changes the file between two steps of the load.
Edit ==
  /\ load \notin {"idle", "done"} /\ edits < MaxEdits
  /\ \/ AddLine /\ UNCHANGED disturbed
     \/ ChangeLine /\ disturbed' = TRUE
  /\ edits' = edits + 1
  /\ UNCHANGED <<load, text, result, version>>

Next == LoadConfigurationFromFile \/ Edit

Spec == Init /\ [][Next]_vars

-----------------------------------------------------------------------------
(* Properties. *)

Results == {Error(n) : n \in 0..MaxLines} \cup
  {Success(c) : c \in
     [schema_version : {kConfigurationSchemaVersion}, start_minimized : BOOLEAN,
      telemetry_enabled : BOOLEAN,
      preferred_render_endpoint_id : {Trim(l.value) : l \in Lines} \cup {""},
      log_directory : {Trim(l.value) : l \in Lines} \cup {"logs"},
      minimum_log_severity : Severities]}

\* Every variable keeps its type: a configuration has only values of its
\* fields' types, of a supported schema.
TypeOK ==
  /\ file \in Documents /\ text \in Documents /\ version \in Documents
  /\ load \in {"idle", "sized", "reading", "parsing", "done"}
  /\ result \in Results
  /\ edits \in 0..MaxEdits /\ disturbed \in BOOLEAN

Wrong(l) == l.key # Skipped /\ ~Accepts(l.key, Trim(l.value))

\* The lines that assign to a key.
Assigning(lines, key) == {n \in DOMAIN lines : lines[n].key = key}
LastOf(S) == CHOOSE n \in S : \A m \in S : m <= n
FirstOf(S) == CHOOSE n \in S : \A m \in S : n <= m

\* What a document means, without running through it: the first wrong line
\* is the error, a document without a schema is one, and otherwise each
\* field has what the last line of its key assigns, or its default.
Meaning(lines) ==
  LET wrong == {n \in DOMAIN lines : Wrong(lines[n])}
      Field(key) ==
        IF Assigning(lines, key) = {} THEN DefaultConfiguration[key]
        ELSE ValueOf(key, Trim(lines[LastOf(Assigning(lines, key))].value))
  IN IF wrong # {} THEN Error(FirstOf(wrong))
     ELSE IF Assigning(lines, "schema_version") = {} THEN Error(0)
     ELSE Success([key \in DOMAIN DefaultConfiguration |-> Field(key)])

\* The parser runs through the text once and stops at the first wrong line:
\* what it answers is the meaning of the whole text it was given.
ParsesToMeaning == load = "parsing" => Parse(text) = Meaning(text)

\* The text of a document: its lines, up to the byte that ends it.
TextEnd(lines) ==
  LET ends == {n \in DOMAIN lines : lines[n] \in DOMAIN ControlZ}
  IN IF ends = {} THEN Len(lines) ELSE FirstOf(ends)
WholeText(lines) == [n \in 1..TextEnd(lines) |-> AsRead(lines[n])]

\* While lines are added to the file, and no read fails, a load that succeeds
\* gives the meaning of the whole text of one version of the file, the one at
\* the end of the reading, and what is parsed exceeds the limit by no more
\* lines than were added after the check.
LoadsWholeFile ==
  load = "done" /\ ~disturbed /\ result.configuration # <<>> =>
    result = Meaning(WholeText(version)) /\ Len(text) <= SizeLimit + edits

\* "A configuration update is all-or-nothing ... never partially parsed
\* data" (ENGINEERING.md): where nobody changes the file, a load that succeeds
\* gives the meaning of all of it.
AllOrNothing ==
  load = "done" /\ edits = 0 /\ result.configuration # <<>> =>
    result = Meaning(file)

\* A configuration that was accepted survives being saved and loaded, and
\* the validator has nothing against it but an empty log directory.
RoundTrip ==
  load = "done" /\ result.configuration # <<>> =>
    LET c == result.configuration[1]
    IN /\ Parse(SerializeConfiguration(c)) = result
       /\ ValidateConfiguration(c) <=> c.log_directory # ""
============================================================================
