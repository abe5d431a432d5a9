------------------------------- MODULE Config -------------------------------
(***************************************************************************)
(* Configuration (util/cfgfile.c) and the way the two daemons use it       *)
(* (radarcape/main.c, dump1090/dump1090.c): sections are registered,       *)
(* defaults loaded, files parsed, the result fixed and checked and, at the *)
(* end, saved: the whole configuration (--save) or the serial number that  *)
(* the server issued.  A process may crash and start again.                *)
(*                                                                         *)
(* A file is a sequence of characters, of which the parser distinguishes   *)
(* those below; a name is one character, and a number has at most two      *)
(* digits.  The parser searches the rest of the file (memchr()) where it   *)
(* means the line, so a file is also kept as its lines: properties compare *)
(* what the parser does with what each line says.                          *)
(***************************************************************************)
EXTENDS Naturals, Sequences, SequencesExt, FiniteSets

CONSTANTS
    Orders,      \* orders in which components register their sections
    Confs,       \* configuration files of the operator: [lines, crlf]
    Words,       \* names, digits and whatever else the parser does not look for
    PortMax,     \* largest port, 65535
    HostSize,    \* sizeof(cfgHost), with the NUL
    MaxRestarts, \* bound: how often the process is started again
    MaxRequests  \* bound: how many serial numbers are requested

Digits == <<"0", "1", "2", "3", "4", "5", "6", "7", "8", "9">>
DigitSet == ToSet(Digits)
DigitValue(c) == (CHOOSE i \in 1..Len(Digits) : Digits[i] = c) - 1

(* The descriptors: two of the sections have the same name.                *)
Options == {"backlog", "history", "gc", "host", "port", "timeout", "serial"}
SectionOptions ==
    [buffer |-> <<"backlog", "history", "gc">>, network |-> <<"host", "port">>,
     relay |-> <<"timeout">>, device |-> <<"serial">>]
SectionName ==
    [buffer |-> "BUFFER", network |-> "NETWORK", relay |-> "NETWORK",
     device |-> "DEVICE"]
Type ==
    [backlog |-> "int", history |-> "bool", gc |-> "bool",
     host |-> "string", port |-> "port", timeout |-> "int", serial |-> "int"]
Default ==
    [backlog |-> 3, history |-> FALSE, gc |-> FALSE, host |-> <<"1">>,
     port |-> 1, timeout |-> 2, serial |-> 0]

-----------------------------------------------------------------------------
(* Characters the parser looks for.                                        *)
Special == {"[", "]", "=", "#", "SP", "CR", "LF"}
Char == Words \cup Special

(* A line of a file.  Names and keys are words, and what is called value   *)
(* is on this line and without the white space in front of it.             *)
WellFormed(line) ==
    /\ line.kind \in {"section", "open", "trailing", "option", "key", "comment",
                      "empty"}
    /\ line.kind \in {"section", "open", "trailing"} => line.name \in Words
    /\ line.kind \in {"option", "key"} => line.key \in Words
    /\ line.kind = "option" =>
          /\ line.spaces \in BOOLEAN
          /\ line.value \in Seq(Char \ {"CR", "LF"})
          /\ line.value # <<>> => line.value[1] # "SP"

IsFile(file) ==
    /\ file.crlf \in BOOLEAN
    /\ Len(file.lines) \in Nat
    /\ \A i \in 1..Len(file.lines) : WellFormed(file.lines[i])

(* Every section is registered once, the files consist of such lines, the  *)
(* defaults are valid, and a serial number has two digits.                 *)
ASSUME ConfigAssumption ==
    /\ \A o \in Orders : /\ o \in Seq({"buffer", "network", "relay", "device"})
                         /\ ToSet(o) = {"buffer", "network", "relay", "device"}
                         /\ Len(o) = 4
    /\ Words \cap Special = {}
    /\ DigitSet \cup Options \cup {"BUFFER", "NETWORK", "DEVICE", "true", "false"}
          \subseteq Words
    /\ \A file \in Confs : IsFile(file)
    /\ PortMax \in Nat /\ PortMax >= 1
    /\ HostSize \in Nat /\ HostSize >= 2
    /\ MaxRestarts \in Nat
    /\ MaxRequests \in 0..99

-----------------------------------------------------------------------------
VARIABLES
    program,      \* "radarcape" or "dump1090"
    order,        \* sections still to be registered
    sections,     \* list of registered sections
    val,          \* value of each option
    hasSerial,    \* *opt->given of the serial number
    conf,         \* the operator's file
    disk,         \* the file the program writes
    files,        \* files still to be read, as sequences of lines
    input,        \* bufferInput: what is left of the file, bufferSize long
    bufferLine,
    sectionState,
    sectionName,
    pc,           \* where the main program is
    success,      \* result of the last readCfg()
    opened,       \* the file being parsed and the options when it was opened
    saved,        \* options when the file on disk was written completely
    issued,       \* serial numbers the server has issued
    pending,      \* requests of this process that may still be answered
    used,         \* serial numbers this process has logged in with
    restarts

parser == <<input, bufferLine, sectionState, sectionName>>
server == <<issued, pending, used>>
environment == <<program, order, conf, disk, saved, server, restarts>>
vars == <<program, order, sections, val, hasSerial, conf, disk, files, input,
          bufferLine, sectionState, sectionName, pc, success, opened, saved,
          issued, pending, used, restarts>>

Current == [val |-> val, hasSerial |-> hasSerial]
NoFile == [lines |-> <<>>, crlf |-> FALSE]
None == [val |-> Default, hasSerial |-> FALSE, exists |-> FALSE, at |-> 0]

-----------------------------------------------------------------------------
(* What a line looks like.                                                 *)

Blank(line) == IF line.spaces THEN <<"SP">> ELSE <<>>

Characters(line) ==
    CASE line.kind = "section" -> <<"[", line.name, "]">>
      [] line.kind = "open"    -> <<"[", line.name>>
      [] line.kind = "trailing" -> <<"[", line.name, "]", "0">>
      [] line.kind = "option"  -> <<line.key>> \o Blank(line) \o <<"=">>
                                  \o Blank(line) \o line.value
      [] line.kind = "key"     -> <<line.key>>
      [] line.kind = "comment" -> <<"#", "]", "=">>
      [] line.kind = "empty"   -> <<>>

EndOfLine(file) == IF file.crlf THEN <<"CR", "LF">> ELSE <<"LF">>

(* The text of a file, and what is left of it from each line on.           *)
TextFrom(file) ==
    LET n == Len(file.lines)
        From[i \in 1..(n + 1)] ==
            IF i = n + 1 THEN <<>>
            ELSE Characters(file.lines[i]) \o EndOfLine(file) \o From[i + 1]
    IN  From

Encode(file) == TextFrom(file)[1]

IsSpace(c) == c \in {"SP", "CR", "LF"}

(* memchr(): position of the next c, 0 if there is none.                   *)
Memchr(text, c) == SelectInSeq(text, LAMBDA x : x = c)

-----------------------------------------------------------------------------
Init ==
    /\ program \in {"radarcape", "dump1090"}
    /\ order \in Orders
    /\ conf \in Confs
    /\ disk = NoFile
    /\ sections = <<>>
    /\ val = Default /\ hasSerial = FALSE
    /\ files = <<>>
    /\ input = <<>> /\ bufferLine = 1
    /\ sectionState = "UNKNOWN" /\ sectionName = "none"
    /\ pc = "register" /\ success = FALSE
    /\ opened = [file |-> NoFile, before |-> Current]
    /\ saved = None /\ issued = 0 /\ pending = 0 /\ used = {} /\ restarts = 0

Registered(name) == \E i \in 1..Len(sections) : SectionName[sections[i]] = name

CFG_registerSection ==
    /\ pc = "register"
    /\ Len(sections) < Len(order)
    /\ sections' = Append(sections, order[Len(sections) + 1])
    /\ UNCHANGED <<program, order, val, hasSerial, conf, disk, files, parser,
                   pc, success, opened, saved, server, restarts>>

(* CFG_readDirectory(): dump1090 reads the directories var/conf.d, where   *)
(* the serial number is saved, and etc/conf.d, file by file whether or not *)
(* one fails.  Radarcape reads one file.                                   *)
FilesToRead ==
    IF program = "radarcape" THEN <<conf>> ELSE <<disk, conf>>

CFG_loadDefaults ==
    /\ pc = "register" /\ Len(sections) = Len(order)
    /\ val' = Default /\ hasSerial' = FALSE
    /\ files' = FilesToRead
    /\ pc' = "read"
    /\ UNCHANGED <<environment, sections, parser, success, opened>>

onErrorUseDefault == program = "dump1090"

(* An empty file cannot be mapped and a missing one not be opened.         *)
MMAP_open(file) == file.lines # <<>>

CFG_readFile ==
    /\ pc = "read" /\ files # <<>>
    /\ files' = Tail(files)
    /\ IF MMAP_open(Head(files))
       THEN /\ input' = Encode(Head(files)) /\ bufferLine' = 1
            /\ sectionState' = "UNKNOWN" /\ UNCHANGED sectionName
            /\ pc' = "parse"
            /\ opened' = [file |-> Head(files), before |-> Current]
            /\ UNCHANGED success
       ELSE success' = FALSE /\ UNCHANGED <<parser, pc, opened>>
    /\ UNCHANGED <<environment, sections, val, hasSerial>>

-----------------------------------------------------------------------------
(* The parser: one step per iteration of readCfg().                        *)

(* End of the line: the next newline, or the last character of the file.   *)
LineEnd == IF Memchr(input, "LF") = 0 THEN Len(input) ELSE Memchr(input, "LF")
Advance(n) == input' = SubSeq(input, n + 1, Len(input))
Parsing == pc = "parse" /\ input # <<>>

parseSection ==
    LET c == Memchr(input, "]")
        n == LineEnd
        valid == /\ c # 0 /\ n >= c
                 /\ c = n - 1 \/ (c = n - 2 /\ input[n - 1] = "CR")
    IN  /\ Parsing /\ input[1] = "["
        /\ IF valid
           THEN /\ Advance(n) /\ bufferLine' = bufferLine + 1
                /\ sectionState' = IF Registered(input[2]) THEN "VALID"
                                                           ELSE "UNKNOWN"
                /\ sectionName' = IF Registered(input[2]) THEN input[2]
                                                          ELSE sectionName
                /\ UNCHANGED <<pc, success>>
           ELSE /\ sectionState' = "UNRECOVERABLE"
                /\ pc' = "closed" /\ success' = FALSE
                /\ UNCHANGED <<input, bufferLine, sectionName>>
        /\ UNCHANGED <<environment, sections, val, hasSerial, files, opened>>

skipComment ==
    /\ Parsing /\ input[1] = "#"
    /\ Advance(LineEnd) /\ bufferLine' = bufferLine + 1
    /\ UNCHANGED <<environment, sections, val, hasSerial, files, sectionState,
                   sectionName, pc, success, opened>>

skipNewline ==
    /\ Parsing /\ input[1] \in {"CR", "LF"}
    /\ Advance(1)
    /\ bufferLine' = bufferLine + (IF input[1] = "LF" THEN 1 ELSE 0)
    /\ UNCHANGED <<environment, sections, val, hasSerial, files, sectionState,
                   sectionName, pc, success, opened>>

(* The conversions.  strtoul() and strtod() read the leading digits and    *)
(* ignore the rest; no digit makes 0.                                      *)
strtoul(v) ==
    IF v[1] \notin DigitSet THEN 0
    ELSE IF Len(v) = 1 \/ v[2] \notin DigitSet THEN DigitValue(v[1])
    ELSE 10 * DigitValue(v[1]) + DigitValue(v[2])

Parses(type, v) ==
    CASE type = "int"    -> TRUE
      [] type = "port"   -> strtoul(v) <= PortMax
      [] type = "bool"   -> v \in {<<"true">>, <<"false">>, <<"0">>, <<"1">>}
      [] type = "string" -> Len(v) <= HostSize - 1

Parsed(type, v) ==
    CASE type \in {"int", "port"} -> strtoul(v)
      [] type = "bool"   -> v \in {<<"true">>, <<"1">>}
      [] type = "string" -> v

(* getOption(): the option with that key in a section with that name.      *)
HasOption(name, key) ==
    \E i \in 1..Len(sections) : /\ SectionName[sections[i]] = name
                                /\ key \in ToSet(SectionOptions[sections[i]])

(* Values given and the flag after an assignment: from a string, from the  *)
(* default if it is empty or does not parse, or not at all.                *)
Assigned_notGiven(opts, opt, v, useDefault) == \* mutant: *given is not set
    IF v # <<>> /\ Parses(Type[opt], v)
    THEN [opts EXCEPT !.val[opt] = Parsed(Type[opt], v)]
    ELSE IF v = <<>> \/ useDefault
    THEN [val |-> [opts.val EXCEPT ![opt] = Default[opt]],
          hasSerial |-> opts.hasSerial /\ opt # "serial"]
    ELSE opts

Assigned(opts, opt, v, useDefault) ==
    IF v # <<>> /\ Parses(Type[opt], v)
    THEN [val |-> [opts.val EXCEPT ![opt] = Parsed(Type[opt], v)],
          hasSerial |-> opts.hasSerial \/ opt = "serial"]
    ELSE IF v = <<>> \/ useDefault
    THEN [val |-> [opts.val EXCEPT ![opt] = Default[opt]],
          hasSerial |-> opts.hasSerial /\ opt # "serial"]
    ELSE opts

Assign(opts) == val' = opts.val /\ hasSerial' = opts.hasSerial

(* '=' expected before end of line.  A null pointer is not behind it.      *)
EqualsMissing(e, n) == n < e

(* White space in front of the value is skipped and a '\r' at its end is   *)
(* stripped, which has been skipped already if the value is empty: then    *)
(* valLen wraps around.                                                    *)
Text(e, n) ==
    LET rest == SubSeq(input, e + 1, n - 1)
        i == SelectInSeq(rest, LAMBDA c : ~IsSpace(c))
    IN  IF i = 0 THEN <<>> ELSE SubSeq(rest, i, Len(rest))
Value_keepsCr(text) == text \* mutant: '\r' is not stripped
Value(text) ==
    IF text # <<>> /\ Last(text) = "CR" THEN Front(text) ELSE text
Wraps(e, n) == Text(e, n) = <<>> /\ n > e + 1 /\ input[n - 1] = "CR"

(* With a null pointer the search for the end of the key leaves the        *)
(* address space; a number of that length is copied, other types refuse it.*)
parseOption ==
    LET e == Memchr(input, "=")
        n == LineEnd
        key == input[1]
        known == sectionState = "VALID" /\ HasOption(sectionName, key)
        value == Value(Text(e, n))
        refused == Wraps(e, n) \/ (value # <<>> /\ ~Parses(Type[key], value))
        crash == \/ sectionState = "VALID" /\ e = 0
                 \/ known /\ Wraps(e, n) /\ Type[key] \in {"int", "port"}
    IN  /\ Parsing /\ input[1] \notin {"[", "CR", "LF", "#"}
        /\ Advance(n)
        /\ \/ /\ EqualsMissing(e, n) \/ (~crash /\ ~known)
              /\ bufferLine' = bufferLine + 1
              /\ UNCHANGED <<val, hasSerial, pc>>
           \/ /\ ~EqualsMissing(e, n) /\ crash
              /\ pc' = "crashed" /\ UNCHANGED <<bufferLine, val, hasSerial>>
           \/ /\ ~EqualsMissing(e, n) /\ ~crash /\ known
              /\ IF refused /\ ~onErrorUseDefault
                 THEN UNCHANGED <<val, hasSerial, bufferLine>>
                 ELSE /\ Assign(Assigned(Current, key, value, TRUE))
                      /\ bufferLine' = bufferLine + 1
              /\ UNCHANGED pc
        /\ UNCHANGED <<environment, sections, files, sectionState,
                       sectionName, success, opened>>

parsed ==
    /\ pc = "parse" /\ input = <<>>
    /\ pc' = "closed" /\ success' = TRUE
    /\ UNCHANGED <<environment, sections, val, hasSerial, files, parser, opened>>

-----------------------------------------------------------------------------
(* BUF's cfgFix(), called by fix() if the file could be read.              *)
cfgFix_once(v) == \* mutant: GC without history is not switched off
    [v EXCEPT !.backlog = IF @ < 2 THEN 2 ELSE @]

cfgFix(v) ==
    [v EXCEPT !.backlog = IF @ < 2 THEN 2 ELSE @,
              !.gc = @ /\ v.history]

fix ==
    /\ pc = "closed"
    /\ val' = IF success THEN cfgFix(val) ELSE val
    /\ pc' = "read"
    /\ UNCHANGED <<environment, sections, hasSerial, files, parser, success,
                   opened>>

(* NET's checkCfg(); a failed check is an emergency.                       *)
checkCfg(v) == v.host # <<>> /\ v.port # 0

CFG_check ==
    /\ pc = "read" /\ files = <<>>
    /\ pc' = IF checkCfg(val) THEN "ready" ELSE "exit"
    /\ UNCHANGED <<environment, sections, val, hasSerial, files, parser,
                   success, opened>>

-----------------------------------------------------------------------------
(* Writing.  Only the serial number has a flag; in radarcape it has no     *)
(* default and is commented out if it is not given.                        *)

Number(n) == IF n < 10 THEN <<Digits[n + 1]>>
             ELSE <<Digits[(n \div 10) + 1], Digits[(n % 10) + 1]>>

Printed(type, v) ==
    CASE type \in {"int", "port"} -> Number(v)
      [] type = "bool" -> IF v THEN <<"true">> ELSE <<"false">>
      [] type = "string" -> v

WrittenLine(opt) ==
    IF opt = "serial" /\ ~hasSerial /\ program = "radarcape"
    THEN [kind |-> "comment"]
    ELSE [kind |-> "option", key |-> opt, spaces |-> TRUE,
          value |-> Printed(Type[opt], val[opt])]

writeOptions(s) ==
    [i \in 1..Len(SectionOptions[s]) |-> WrittenLine(SectionOptions[s][i])]

Heading(s) == <<[kind |-> "section", name |-> SectionName[s]]>>
Separator(i) ==
    IF i = 1 THEN <<>> ELSE <<[kind |-> "empty"], [kind |-> "empty"]>>

(* A section is written with all that have its name, at its first place.   *)
SameName(i, j) == SectionName[sections[i]] = SectionName[sections[j]]
First(i) == \A j \in 1..(i - 1) : ~SameName(i, j)

Parts_alone(i) == \* mutant: other sections of that name are lost
    writeOptions(sections[i])

Parts(i) ==
    FlattenSeq([j \in 1..Len(sections) |->
                   IF j >= i /\ SameName(i, j) THEN writeOptions(sections[j])
                                               ELSE <<>>])

writeSections ==
    FlattenSeq([i \in 1..Len(sections) |->
                   IF First(i)
                   THEN Separator(i) \o Heading(sections[i]) \o Parts(i)
                   ELSE <<>>])

Snapshot ==
    [val |-> val, hasSerial |-> hasSerial, exists |-> TRUE, at |-> restarts]

(* openskyd --save <file>: the configuration is written and the program    *)
(* ends.                                                                   *)
CFG_write ==
    /\ pc = "ready" /\ program = "radarcape"
    /\ disk' = [lines |-> writeSections, crlf |-> FALSE]
    /\ saved' = Snapshot
    /\ pc' = "exit" /\ sections' = <<>>
    /\ UNCHANGED <<program, order, val, hasSerial, conf, files, parser,
                   success, opened, server, restarts>>

Start ==
    /\ pc = "ready" /\ pc' = "run"
    /\ UNCHANGED <<environment, sections, val, hasSerial, files, parser,
                   success, opened>>

(* SERIAL_getSerial() in RELAY's thread, at every login.  Without a number *)
(* it requests one and waits; requests are counted only, and the server    *)
(* answers some of them, late perhaps.                                     *)
SERIAL_getSerial ==
    /\ pc = "run" /\ program = "dump1090" /\ ~hasSerial
    /\ issued + pending < MaxRequests
    /\ pending' = pending + 1
    /\ pc' = "wait"
    /\ UNCHANGED <<program, order, sections, val, hasSerial, conf, disk, files,
                   parser, success, opened, saved, issued, used, restarts>>

(* A number that is known is used as it is.                                *)
SerialKnown ==
    /\ pc = "run" /\ program = "dump1090" /\ hasSerial
    /\ used' = used \cup {val["serial"]}
    /\ UNCHANGED <<program, order, sections, val, hasSerial, conf, disk, files,
                   parser, pc, success, opened, saved, issued, pending,
                   restarts>>

(* TB's thread: an answer replaces the number, whatever it was.  The mutex *)
(* is free while RELAY waits and between its logins.                       *)
serialResponse ==
    /\ pc \in {"run", "wait"} /\ pending > 0
    /\ issued' = issued + 1 /\ pending' = pending - 1
    /\ val' = [val EXCEPT !["serial"] = issued + 1]
    /\ hasSerial' = TRUE
    /\ UNCHANGED <<program, order, sections, conf, disk, files, parser, pc,
                   success, opened, saved, used, restarts>>

(* The wait times out, the connection having been lost or for the 30th     *)
(* time, although an answer may just be received: login fails.             *)
SerialGivesUp ==
    /\ pc = "wait" /\ pc' = "run"
    /\ UNCHANGED <<environment, sections, val, hasSerial, files, parser,
                   success, opened>>

(* The number is there: CFG_writeSection() saves it.  fopen() empties the  *)
(* file; the lines reach it at fclose().                                   *)
SerialReceived ==
    /\ pc = "wait" /\ hasSerial
    /\ disk' = NoFile /\ pc' = "write"
    /\ UNCHANGED <<program, order, sections, val, hasSerial, conf, files,
                   parser, success, opened, saved, server, restarts>>

CFG_writeSection ==
    /\ pc = "write"
    /\ disk' = [lines |-> Heading("device") \o writeOptions("device"),
                crlf |-> FALSE]
    /\ saved' = Snapshot
    /\ used' = used \cup {val["serial"]}
    /\ pc' = "run"
    /\ UNCHANGED <<program, order, sections, val, hasSerial, conf, files,
                   parser, success, opened, issued, pending, restarts>>

(* The process ends or crashes and is started again, in radarcape perhaps  *)
(* with the saved configuration.  Its memory starts from scratch.          *)
Restart ==
    /\ pc \in {"exit", "run", "wait", "write", "crashed"}
    /\ restarts < MaxRestarts
    /\ restarts' = restarts + 1
    /\ conf' \in IF program = "radarcape" /\ saved.exists THEN {conf, disk}
                                                          ELSE {conf}
    /\ sections' = <<>> /\ val' = Default /\ hasSerial' = FALSE
    /\ files' = <<>> /\ input' = <<>> /\ bufferLine' = 1
    /\ sectionState' = "UNKNOWN" /\ sectionName' = "none"
    /\ pc' = "register" /\ success' = FALSE
    /\ opened' = [file |-> NoFile, before |-> Current']
    /\ pending' = 0 /\ used' = {}
    /\ UNCHANGED <<program, order, disk, saved, issued>>

Stopped ==
    /\ pc \in {"exit", "run", "crashed"}
    /\ restarts = MaxRestarts \/ pc = "run"
    /\ pc = "run" => \/ hasSerial \/ program = "radarcape"
                     \/ issued + pending = MaxRequests
    /\ UNCHANGED vars

Next ==
    \/ CFG_registerSection \/ CFG_loadDefaults \/ CFG_readFile
    \/ parseSection \/ skipComment \/ skipNewline \/ parseOption \/ parsed
    \/ fix \/ CFG_check \/ CFG_write \/ Start
    \/ SERIAL_getSerial \/ SerialKnown \/ serialResponse \/ SerialGivesUp
    \/ SerialReceived \/ CFG_writeSection
    \/ Restart \/ Stopped

Spec == Init /\ [][Next]_vars

-----------------------------------------------------------------------------
(* The variables have their types; in particular every option has a value  *)
(* that its C variable can hold.                                           *)
TypeOK ==
    /\ pc \in {"register", "read", "parse", "closed", "crashed", "exit",
               "ready", "run", "wait", "write"}
    /\ sectionState \in {"UNKNOWN", "VALID", "UNRECOVERABLE"}
    /\ \A o \in Options :
          CASE Type[o] = "int"    -> val[o] \in 0..99
            [] Type[o] = "port"   -> val[o] \in 0..PortMax
            [] Type[o] = "bool"   -> val[o] \in BOOLEAN
            [] Type[o] = "string" -> Len(val[o]) <= HostSize - 1
    /\ hasSerial \in BOOLEAN
    /\ pending \in 0..MaxRequests /\ used \subseteq 0..99

(* What an option line says.                                               *)
LineAssigns(opts, line) ==
    Assigned(opts, line.key, line.value, onErrorUseDefault)

(* What line i of a file does, given the section it is in: s is the result *)
(* of the lines before it.  It is not always what the line says: a value   *)
(* that is refused is passed over, a key without '=' crashes the program   *)
(* if there is none in the rest of the file, and so does an empty number   *)
(* that ends with CR LF, where other empty values are refused.             *)
Meaning(file, s, i) ==
    LET line == file.lines[i]
        known == line.kind = "option" /\ HasOption(s.section, line.key)
        noEquals == \A k \in i..Len(file.lines) :
                        file.lines[k].kind \notin {"option", "comment"}
        emptyCr == known /\ line.value = <<>> /\ file.crlf
        crashes == \/ line.kind = "key" /\ s.section # "none" /\ noEquals
                   \/ emptyCr /\ Type[line.key] \in {"int", "port"}
    IN  IF s.status # "read" THEN s
        ELSE CASE line.kind \in {"open", "trailing"} ->
                    [s EXCEPT !.status = "failed"]
               [] line.kind = "section" ->
                    [s EXCEPT !.section =
                        IF Registered(line.name) THEN line.name ELSE "none"]
               [] crashes ->
                    [s EXCEPT !.status = "crashed"]
               [] known /\ ~crashes /\ (emptyCr => onErrorUseDefault) ->
                    [s EXCEPT !.opts = LineAssigns(s.opts, line)]
               [] OTHER -> s

(* The result of the first lines of a file, and that of all.               *)
Readings(file, opts) ==
    LET Upto[i \in 0..Len(file.lines)] ==
            IF i = 0 THEN [opts |-> opts, section |-> "none", status |-> "read"]
                     ELSE Meaning(file, Upto[i - 1], i)
    IN  Upto

Reading(file, opts) == Readings(file, opts)[Len(file.lines)]

(* Parsing a file has the effect of its lines, one by one and each in the  *)
(* section it is in, although '=' and ']' are searched in the rest of the  *)
(* file: nothing leaks from a line, a section or a file into another.      *)
(* What a line does is Meaning(), with its surprises.  It is not claimed   *)
(* that LF and CR LF are alike (LineEndsAlike, which fails), nor that a    *)
(* refused value makes reading fail, as documented in cfgfile.c:122-123:   *)
(* readCfg() passes over it.                                               *)
ReadsLines ==
    pc \in {"closed", "crashed"} =>
        LET r == Reading(opened.file, opened.before)
        IN  /\ r.opts = Current
            /\ r.status = IF pc = "crashed" THEN "crashed"
                          ELSE IF success THEN "read" ELSE "failed"

(* "eliminate \r at the end of the value" in parseOption(): a file that    *)
(* ends its lines with CR LF is read like the same file with LF.           *)
LineEndsAlike ==
    pc \in {"closed", "crashed"} =>
        LET r == Reading([opened.file EXCEPT !.crlf = FALSE], opened.before)
        IN  /\ r.opts = Current
            /\ r.status = IF pc = "crashed" THEN "crashed"
                          ELSE IF success THEN "read" ELSE "failed"

(* A daemon that is started with the configuration it saved has all the    *)
(* options it had when it saved them, fixed if they had not been.          *)
SavedIsRestored ==
    pc = "ready" /\ program = "radarcape" /\ saved.exists /\ conf = disk =>
        /\ val = cfgFix(saved.val)
        /\ hasSerial = saved.hasSerial

(* No serial number in the operator's file.                                *)
Unset ==
    \A i \in 1..Len(conf.lines) :
        conf.lines[i].kind = "option" => conf.lines[i].key # "serial"

(* Once a process has written the serial number, the processes after it    *)
(* know it when they run, log in with no other and request none, however   *)
(* often and wherever they crash, unless the operator sets one.  The       *)
(* process that writes it may yet receive another, see UsedIsSaved.        *)
SerialSurvives ==
    /\ program = "dump1090" /\ pc \in {"run", "wait", "write"}
    /\ saved.exists /\ saved.at < restarts /\ Unset
    => /\ pc = "run" /\ pending = 0
       /\ hasSerial /\ val["serial"] = saved.val["serial"]
       /\ used \subseteq {saved.val["serial"]}

(* "got a new serial number -> save it" in SERIAL_getSerial(), which would *)
(* rather refuse to work: a sensor logs in with a number of the server     *)
(* only if it is the one that was saved.                                   *)
UsedIsSaved ==
    program = "dump1090" /\ Unset =>
        \A n \in used : saved.exists /\ saved.val["serial"] = n

(* Whatever the files contain, no option ever has a value that its C       *)
(* variable cannot hold, and a daemon runs with a configuration that its   *)
(* components can use, provided that the last file could be read.          *)
UsableConfiguration ==
    /\ TypeOK
    /\ pc = "run" => /\ checkCfg(val)
                     /\ success => val.backlog >= 2 /\ (val.gc => val.history)

(* assert(cfg.statBacklog >= 2) of BUF's construct(), which is called when *)
(* the daemon starts its components.                                       *)
BacklogAsserted == pc = "run" => val.backlog >= 2
=============================================================================
