---------------------------- MODULE ConfigProofs ----------------------------
(***************************************************************************)
(* Proofs about the configuration, whatever the files contain: the options *)
(* keep the types of their C variables, and a daemon runs only with a      *)
(* configuration that its components can use; a file has the effect of its *)
(* lines, one by one; what was saved is read again.                        *)
(*                                                                         *)
(* The parser works on the rest of the file, so the proof relates that to  *)
(* the lines: where memchr() finds a character in the text of the lines    *)
(* from the i-th on, and what follows for the step of the parser.  Written *)
(* files are blocks of lines, which are put together as writeSections()    *)
(* does.  Positions are compared by least counterexample.                  *)
(***************************************************************************)
EXTENDS Config, SequenceTheorems, WellFoundedInduction, TLAPS

Sections == {"buffer", "network", "relay", "device"}

(* Every option has a value that its C variable can hold.                  *)
Numbers(v) == /\ v["backlog"] \in 0..99 /\ v["timeout"] \in 0..99
              /\ v["serial"] \in 0..99 /\ v["port"] \in 0..PortMax
              /\ Len(v["host"]) <= HostSize - 1
Flags(v) == v["history"] \in BOOLEAN /\ v["gc"] \in BOOLEAN
Valid(v) == DOMAIN v = Options /\ v = [o \in Options |-> v[o]] /\ Numbers(v) /\ Flags(v)

(* Serial numbers have two digits.                                         *)
Counted == /\ issued \in Nat /\ pending \in Nat /\ issued + pending <= MaxRequests
           /\ used \subseteq 0..99

(* What cfgFix() of BUF establishes.                                       *)
Fixed(v) == v["backlog"] >= 2 /\ (v["gc"] => v["history"])

ConfigInv ==
    /\ pc \in {"register", "read", "parse", "closed", "crashed", "exit",
               "ready", "run", "wait", "write"}
    /\ sectionState \in {"UNKNOWN", "VALID", "UNRECOVERABLE"}
    /\ Valid(val) /\ hasSerial \in BOOLEAN
    /\ order \in Seq(Sections) /\ sections \in Seq(Sections)
    /\ restarts \in 0..MaxRestarts
    /\ Counted
    /\ pc = "register" => ~success
    /\ pc \in {"read", "ready", "run", "wait", "write"} /\ success => Fixed(val)
    /\ pc \in {"ready", "run", "wait", "write"} => checkCfg(val)

-----------------------------------------------------------------------------
(* The options.                                                            *)

LEMMA TypesOfOptions ==
    ASSUME Valid(val), hasSerial \in BOOLEAN,
           pc \in {"register", "read", "parse", "closed", "crashed", "exit",
                   "ready", "run", "wait", "write"},
           sectionState \in {"UNKNOWN", "VALID", "UNRECOVERABLE"},
           Counted
    PROVE  TypeOK
<1>1. ASSUME NEW o \in Options
      PROVE  CASE Type[o] = "int"    -> val[o] \in 0..99
               [] Type[o] = "port"   -> val[o] \in 0..PortMax
               [] Type[o] = "bool"   -> val[o] \in BOOLEAN
               [] Type[o] = "string" -> Len(val[o]) <= HostSize - 1
  <2>1. CASE o = "backlog"
    BY <2>1 DEF Type, Valid, Numbers
  <2>2. CASE o = "timeout"
    BY <2>2 DEF Type, Valid, Numbers
  <2>3. CASE o = "serial"
    BY <2>3 DEF Type, Valid, Numbers
  <2>4. CASE o = "port"
    BY <2>4 DEF Type, Valid, Numbers
  <2>5. CASE o = "host"
    BY <2>5 DEF Type, Valid, Numbers
  <2>6. CASE o = "history"
    BY <2>6 DEF Type, Valid, Flags
  <2>7. CASE o = "gc"
    BY <2>7 DEF Type, Valid, Flags
  <2> QED
    BY <2>1, <2>2, <2>3, <2>4, <2>5, <2>6, <2>7 DEF Options
<1>2. pending \in 0..MaxRequests /\ used \subseteq 0..99
  BY ConfigAssumption DEF Counted
<1> QED
  BY <1>1, <1>2 DEF TypeOK

LEMMA DefaultValid == Valid(Default) /\ checkCfg(Default) /\ Fixed(Default)
<1>1. DOMAIN Default = Options /\ Default = [o \in Options |-> Default[o]]
  BY DEF Default, Options
<1>2. Numbers(Default)
  BY ConfigAssumption DEF Default, Numbers
<1>3. Flags(Default)
  BY DEF Default, Flags
<1>4. checkCfg(Default) /\ Fixed(Default)
  BY DEF Default, checkCfg, Fixed
<1> QED
  BY <1>1, <1>2, <1>3, <1>4 DEF Valid

(* strtoul() of at most two digits.                                        *)
LEMMA NumberRange ==
    ASSUME NEW v PROVE strtoul(v) \in 0..99
<1>1. ASSUME NEW c \in DigitSet PROVE DigitValue(c) \in 0..9
  <2>1. Len(Digits) = 10 /\ \E i \in 1..10 : Digits[i] = c
    BY DEF DigitSet, Digits, ToSet
  <2> QED
    BY <2>1 DEF DigitValue
<1>2. strtoul(v) \in {0} \/ (v[1] \in DigitSet /\ strtoul(v) = DigitValue(v[1]))
      \/ (v[1] \in DigitSet /\ v[2] \in DigitSet
          /\ strtoul(v) = 10 * DigitValue(v[1]) + DigitValue(v[2]))
  BY DEF strtoul
<1> QED
  BY <1>1, <1>2

LEMMA OptionSet ==
    ASSUME sections \in Seq(Sections), NEW name, NEW key, HasOption(name, key)
    PROVE  key \in Options
<1>1. PICK i \in 1..Len(sections) : key \in ToSet(SectionOptions[sections[i]])
  BY DEF HasOption
<1>2. sections[i] \in Sections
  BY <1>1
<1>3. ASSUME NEW s \in Sections PROVE ToSet(SectionOptions[s]) \subseteq Options
  <2>1. CASE s = "buffer"
    BY <2>1 DEF SectionOptions, ToSet, Options
  <2>2. CASE s = "network"
    BY <2>2 DEF SectionOptions, ToSet, Options
  <2>3. CASE s = "relay"
    BY <2>3 DEF SectionOptions, ToSet, Options
  <2>4. CASE s = "device"
    BY <2>4 DEF SectionOptions, ToSet, Options
  <2> QED
    BY <2>1, <2>2, <2>3, <2>4 DEF Sections
<1> QED
  BY <1>1, <1>2, <1>3

(* Setting one option to a value of its type.                              *)
Fits(o, x) == /\ o \in {"backlog", "timeout", "serial"} => x \in 0..99
              /\ o = "port" => x \in 0..PortMax
              /\ o = "host" => Len(x) <= HostSize - 1
              /\ o \in {"history", "gc"} => x \in BOOLEAN

LEMMA SetOption ==
    ASSUME NEW v, Valid(v), NEW o \in Options, NEW x, Fits(o, x)
    PROVE  Valid([v EXCEPT ![o] = x])
<1> DEFINE w == [v EXCEPT ![o] = x]
<1>1. DOMAIN w = Options /\ \A p \in Options : w[p] = IF p = o THEN x ELSE v[p]
  BY DEF Valid
<1>2. w = [p \in Options |-> w[p]]
  BY DEF Valid
<1> HIDE DEF w
<1>3. Numbers(w)
  BY <1>1, SMTT(30) DEF Options, Valid, Numbers, Fits
<1>4. Flags(w)
  <2>1. "history" \in Options /\ "gc" \in Options
    BY DEF Options
  <2>2. /\ w["history"] = IF "history" = o THEN x ELSE v["history"]
        /\ w["gc"] = IF "gc" = o THEN x ELSE v["gc"]
    BY Zenon, <1>1, <2>1
  <2> QED
    BY Zenon, <2>2 DEF Valid, Flags, Fits
<1> QED
  BY <1>1, <1>2, <1>3, <1>4 DEF Valid, w

LEMMA ParsedFits ==
    ASSUME NEW o \in Options, NEW v, Parses(Type[o], v)
    PROVE  Fits(o, Parsed(Type[o], v))
<1>1. strtoul(v) \in 0..99
  BY NumberRange
<1>2. CASE o \in {"backlog", "timeout", "serial"}
  <2>1. Parsed(Type[o], v) = strtoul(v)
    BY <1>2 DEF Type, Parsed
  <2> QED
    BY <1>1, <1>2, <2>1 DEF Fits
<1>3. CASE o = "port"
  <2>1. Parsed(Type[o], v) = strtoul(v) /\ strtoul(v) <= PortMax
    BY <1>3 DEF Type, Parsed, Parses
  <2>2. strtoul(v) \in 0..PortMax
    <3>1. PortMax \in Nat /\ strtoul(v) <= PortMax
      BY <2>1, ConfigAssumption
    <3> QED
      BY <1>1, <3>1
  <2> QED
    BY <1>3, <2>1, <2>2 DEF Fits
<1>4. CASE o = "host"
  <2>1. Parsed(Type[o], v) = v /\ Len(v) <= HostSize - 1
    BY <1>4 DEF Type, Parsed, Parses
  <2> QED
    BY <1>4, <2>1 DEF Fits
<1>5. CASE o \in {"history", "gc"}
  <2>1. Type[o] = "bool"
    BY <1>5 DEF Type
  <2>2. Parsed("bool", v) = (v \in {<<"true">>, <<"1">>})
    BY DEF Parsed
  <2>3. Parsed(Type[o], v) \in BOOLEAN
    <3> DEFINE b == v \in {<<"true">>, <<"1">>}
    <3>1. b \in BOOLEAN
      OBVIOUS
    <3>2. Parsed(Type[o], v) = b
      BY Zenon, <2>1, <2>2
    <3> HIDE DEF b
    <3> QED
      BY <3>1, <3>2
  <2> QED
    BY <1>5, <2>3 DEF Fits
<1> QED
  BY <1>2, <1>3, <1>4, <1>5 DEF Options

LEMMA DefaultFits ==
    ASSUME NEW o \in Options PROVE Fits(o, Default[o])
  BY DefaultValid DEF Options, Fits, Valid, Numbers, Flags

LEMMA AssignedValid ==
    ASSUME Valid(val), hasSerial \in BOOLEAN, NEW o \in Options, NEW v,
           Assign(Assigned(Current, o, v, TRUE))
    PROVE  Valid(val') /\ hasSerial' \in BOOLEAN
<1>1. CASE v # <<>> /\ Parses(Type[o], v)
  <2> DEFINE x == Parsed(Type[o], v)
  <2>1. val' = [val EXCEPT ![o] = x] /\ hasSerial' = (hasSerial \/ o = "serial")
    BY Zenon, <1>1 DEF Assign, Assigned, Current
  <2>2. Fits(o, x)
    BY <1>1, ParsedFits
  <2> HIDE DEF x
  <2>3. Valid(val')
    BY <2>1, <2>2, SetOption
  <2>4. hasSerial' \in BOOLEAN
    BY Zenon, <2>1
  <2> QED
    BY <2>3, <2>4
<1>2. CASE ~(v # <<>> /\ Parses(Type[o], v))
  <2> DEFINE x == Default[o]
  <2>1. val' = [val EXCEPT ![o] = x] /\ hasSerial' = (hasSerial /\ o # "serial")
    BY Zenon, <1>2 DEF Assign, Assigned, Current
  <2>2. Fits(o, x)
    BY DefaultFits
  <2> HIDE DEF x
  <2>3. Valid(val')
    BY <2>1, <2>2, SetOption
  <2>4. hasSerial' \in BOOLEAN
    BY Zenon, <2>1
  <2> QED
    BY <2>3, <2>4
<1> QED
  BY <1>1, <1>2

LEMMA FixValid ==
    ASSUME NEW v, Valid(v)
    PROVE  Valid(cfgFix(v)) /\ Fixed(cfgFix(v))
<1> DEFINE n == IF v["backlog"] < 2 THEN 2 ELSE v["backlog"]
           b == v["gc"] /\ v["history"]
           w == [v EXCEPT !["backlog"] = n]
<1>1. cfgFix(v) = [w EXCEPT !["gc"] = b]
  BY Zenon DEF cfgFix
<1>2. n \in 0..99 /\ n >= 2
  <2>1. v["backlog"] \in 0..99
    BY DEF Valid, Numbers
  <2> QED
    BY <2>1
<1>3. b \in BOOLEAN /\ (b => v["history"])
  BY Zenon
<1> HIDE DEF n, b
<1>4. Valid(w)
  BY <1>2, SetOption DEF Fits, Options
<1>5. Valid([w EXCEPT !["gc"] = b])
  <2> HIDE DEF w
  <2>1. Fits("gc", b)
    BY <1>3 DEF Fits
  <2> QED
    BY <1>4, <2>1, SetOption DEF Options
<1>6. cfgFix(v)["backlog"] = n /\ cfgFix(v)["gc"] = b /\ cfgFix(v)["history"] = v["history"]
  BY <1>1 DEF Valid, Options
<1> QED
  BY <1>1, <1>2, <1>3, <1>5, <1>6 DEF Fixed

-----------------------------------------------------------------------------
(* The steps.                                                              *)

LEMMA ConfigInit == ASSUME Init PROVE ConfigInv
<1>1. order \in Seq(Sections) /\ <<>> \in Seq(Sections) /\ MaxRestarts \in Nat
  BY ConfigAssumption DEF Init, Sections
<1>2. /\ pc = "register" /\ sectionState = "UNKNOWN" /\ val = Default
      /\ hasSerial = FALSE /\ sections = <<>> /\ restarts = 0 /\ issued = 0
      /\ success = FALSE
  BY DEF Init
<1>3. sections \in Seq(Sections) /\ restarts \in 0..MaxRestarts /\ Counted
  <2>1. pending = 0 /\ used = {} /\ MaxRequests \in Nat
    BY ConfigAssumption DEF Init
  <2> QED
    BY <1>1, <1>2, <2>1 DEF Counted
<1> QED
  BY <1>1, <1>2, <1>3, DefaultValid DEF ConfigInv

LEMMA CountedStays == ASSUME server' = server PROVE Counted' = Counted
  BY DEF server, Counted

(* The options, the flags and the process's history stay.                  *)
LEMMA NothingAssigned ==
    ASSUME ConfigInv,
           UNCHANGED <<environment, sections, val, hasSerial>>,
           \/ pc \in {"parse", "closed"} /\ pc' \in {"parse", "closed"}
           \/ pc = "read" /\ pc' = "parse"
           \/ pc = "read" /\ pc' = "read" /\ (success' = success \/ success' = FALSE)
           \/ pc = "read" /\ success' = success /\ pc' \in {"ready", "exit"}
              /\ (pc' = "ready" => checkCfg(val))
           \/ pc = "ready" /\ pc' = "run" /\ success' = success
           \/ pc = "wait" /\ pc' = "run" /\ success' = success,
           sectionState' \in {"UNKNOWN", "VALID", "UNRECOVERABLE"}
    PROVE  ConfigInv'
<1>1. /\ val' = val /\ hasSerial' = hasSerial /\ order' = order /\ sections' = sections
      /\ restarts' = restarts /\ server' = server
  BY DEF environment
<1>2. Counted' = Counted
  BY <1>1, CountedStays
<1>3. pc' \in {"register", "read", "parse", "closed", "crashed", "exit",
               "ready", "run", "wait", "write"}
  BY DEF ConfigInv
<1>4. /\ pc' = "register" => ~success'
      /\ pc' \in {"read", "ready", "run", "wait", "write"} /\ success' => Fixed(val)
      /\ pc' \in {"ready", "run", "wait", "write"} => checkCfg(val)
  BY DEF ConfigInv
<1> QED
  BY <1>1, <1>2, <1>3, <1>4 DEF ConfigInv

LEMMA RegisterStep == ASSUME ConfigInv, CFG_registerSection PROVE ConfigInv'
<1>1. /\ pc = "register" /\ pc' = pc /\ success' = success /\ val' = val
      /\ hasSerial' = hasSerial /\ order' = order /\ sectionState' = sectionState
      /\ restarts' = restarts /\ server' = server
      /\ sections' = Append(sections, order[Len(sections) + 1])
      /\ Len(sections) < Len(order)
  BY DEF CFG_registerSection, parser
<1>2. order[Len(sections) + 1] \in Sections
  BY <1>1 DEF ConfigInv
<1>3. sections' \in Seq(Sections)
  BY <1>1, <1>2 DEF ConfigInv
<1>4. Counted' = Counted
  BY <1>1, CountedStays
<1> QED
  BY <1>1, <1>3, <1>4 DEF ConfigInv

LEMMA DefaultsStep == ASSUME ConfigInv, CFG_loadDefaults PROVE ConfigInv'
<1>1. /\ pc = "register" /\ pc' = "read" /\ val' = Default /\ hasSerial' = FALSE
      /\ success' = success /\ order' = order /\ sections' = sections
      /\ sectionState' = sectionState /\ restarts' = restarts /\ server' = server
  BY DEF CFG_loadDefaults, environment, parser
<1>2. Counted' = Counted
  BY <1>1, CountedStays
<1> QED
  BY <1>1, <1>2, DefaultValid DEF ConfigInv

LEMMA ReadFileStep == ASSUME ConfigInv, CFG_readFile PROVE ConfigInv'
<1>1. /\ pc = "read" /\ UNCHANGED <<environment, sections, val, hasSerial>>
      /\ \/ pc' = "parse" /\ sectionState' = "UNKNOWN"
         \/ pc' = pc /\ success' = FALSE /\ sectionState' = sectionState
  BY DEF CFG_readFile, parser
<1> QED
  BY <1>1, NothingAssigned DEF ConfigInv

LEMMA SectionStep == ASSUME ConfigInv, parseSection PROVE ConfigInv'
<1>1. /\ pc = "parse" /\ UNCHANGED <<environment, sections, val, hasSerial>>
      /\ pc' \in {"parse", "closed"}
      /\ sectionState' \in {"UNKNOWN", "VALID", "UNRECOVERABLE"}
  BY DEF parseSection, Parsing
<1> QED
  BY <1>1, NothingAssigned

LEMMA SkipStep == ASSUME ConfigInv, skipComment \/ skipNewline \/ parsed PROVE ConfigInv'
<1>1. /\ pc = "parse" /\ UNCHANGED <<environment, sections, val, hasSerial>>
      /\ pc' \in {"parse", "closed"} /\ sectionState' = sectionState
  BY DEF skipComment, skipNewline, parsed, Parsing, parser
<1> QED
  BY <1>1, NothingAssigned DEF ConfigInv

(* An option is assigned only if a registered section has it.              *)
LEMMA OptionStep == ASSUME ConfigInv, parseOption PROVE ConfigInv'
<1>1. /\ pc = "parse" /\ UNCHANGED <<environment, sections, sectionState, success>>
      /\ \/ val' = val /\ hasSerial' = hasSerial /\ pc' \in {"parse", "crashed"}
         \/ /\ pc' = "parse" /\ HasOption(sectionName, input[1])
            /\ \E v : Assign(Assigned(Current, input[1], v, TRUE))
  BY Zenon DEF parseOption, Parsing
<1>2. Valid(val') /\ hasSerial' \in BOOLEAN
  <2>1. CASE val' = val /\ hasSerial' = hasSerial
    BY <2>1 DEF ConfigInv
  <2>2. CASE HasOption(sectionName, input[1])
             /\ \E v : Assign(Assigned(Current, input[1], v, TRUE))
    <3>1. PICK v : Assign(Assigned(Current, input[1], v, TRUE))
      BY <2>2
    <3>2. input[1] \in Options
      BY <2>2, OptionSet DEF ConfigInv
    <3> QED
      BY <3>1, <3>2, AssignedValid DEF ConfigInv
  <2> QED
    BY <1>1, <2>1, <2>2
<1>3. /\ order' = order /\ sections' = sections /\ restarts' = restarts
      /\ Counted' = Counted /\ sectionState' = sectionState
      /\ pc' \in {"parse", "crashed"}
  BY <1>1, CountedStays DEF environment, ConfigInv
<1> QED
  BY <1>2, <1>3 DEF ConfigInv

LEMMA FixStep == ASSUME ConfigInv, fix PROVE ConfigInv'
<1>1. /\ pc = "closed" /\ pc' = "read" /\ success' = success
      /\ order' = order /\ sections' = sections /\ hasSerial' = hasSerial
      /\ sectionState' = sectionState /\ restarts' = restarts /\ Counted' = Counted
      /\ val' = IF success THEN cfgFix(val) ELSE val
  BY CountedStays DEF fix, environment, parser
<1>2. Valid(val') /\ (success => Fixed(val'))
  BY <1>1, FixValid DEF ConfigInv
<1> QED
  BY <1>1, <1>2 DEF ConfigInv

LEMMA CheckStep ==
    ASSUME ConfigInv, CFG_check \/ Start \/ SerialGivesUp PROVE ConfigInv'
<1>1. CASE CFG_check
  <2>1. /\ pc = "read" /\ UNCHANGED <<environment, sections, val, hasSerial>>
        /\ pc' \in {"ready", "exit"} /\ (pc' = "ready" => checkCfg(val))
        /\ success' = success /\ sectionState' = sectionState
    BY <1>1 DEF CFG_check, parser
  <2> QED
    BY <2>1, NothingAssigned DEF ConfigInv
<1>2. CASE Start
  <2>1. /\ pc = "ready" /\ UNCHANGED <<environment, sections, val, hasSerial>>
        /\ pc' = "run" /\ success' = success /\ sectionState' = sectionState
    BY <1>2 DEF Start, parser
  <2> QED
    BY <2>1, NothingAssigned DEF ConfigInv
<1>3. CASE SerialGivesUp
  <2>1. /\ pc = "wait" /\ UNCHANGED <<environment, sections, val, hasSerial>>
        /\ pc' = "run" /\ success' = success /\ sectionState' = sectionState
    BY <1>3 DEF SerialGivesUp, parser
  <2> QED
    BY <2>1, NothingAssigned DEF ConfigInv
<1> QED
  BY <1>1, <1>2, <1>3

LEMMA WriteStep == ASSUME ConfigInv, CFG_write \/ CFG_writeSection PROVE ConfigInv'
<1>1. /\ val' = val /\ hasSerial' = hasSerial /\ order' = order
      /\ sectionState' = sectionState /\ restarts' = restarts
      /\ issued' = issued /\ pending' = pending
      /\ used' \subseteq used \cup {val["serial"]}
      /\ success' = success
      /\ \/ pc = "ready" /\ pc' = "exit" /\ sections' = <<>>
         \/ pc = "write" /\ pc' = "run" /\ sections' = sections
  BY DEF CFG_write, CFG_writeSection, parser, server
<1>2. sections' \in Seq(Sections)
  <2>1. <<>> \in Seq(Sections) /\ sections \in Seq(Sections)
    BY DEF ConfigInv
  <2> QED
    BY <1>1, <2>1
<1>3. Counted'
  BY <1>1 DEF ConfigInv, Counted, Valid, Numbers
<1> QED
  BY <1>1, <1>2, <1>3 DEF ConfigInv

(* Steps of a login that assign no option.                                 *)
LEMMA LoginStep ==
    ASSUME ConfigInv, SERIAL_getSerial \/ SerialKnown \/ SerialReceived
    PROVE  ConfigInv'
<1>1. /\ val' = val /\ hasSerial' = hasSerial /\ order' = order /\ sections' = sections
      /\ sectionState' = sectionState /\ restarts' = restarts /\ success' = success
      /\ issued' = issued
      /\ pc \in {"run", "wait"} /\ pc' \in {"run", "wait", "write"}
      /\ \/ pending' = pending + 1 /\ issued + pending < MaxRequests
         \/ pending' = pending
      /\ used' \subseteq used \cup {val["serial"]}
  BY DEF SERIAL_getSerial, SerialKnown, SerialReceived, parser, server
<1>2. Counted'
  <2>1. val["serial"] \in 0..99
    BY DEF ConfigInv, Valid, Numbers
  <2>2. used' \subseteq 0..99
    BY <1>1, <2>1 DEF ConfigInv, Counted
  <2>3. MaxRequests \in Nat
    BY ConfigAssumption
  <2>4. issued' \in Nat /\ pending' \in Nat /\ issued' + pending' <= MaxRequests
    BY <1>1, <2>3 DEF ConfigInv, Counted
  <2> QED
    BY <2>2, <2>4 DEF Counted
<1> QED
  BY <1>1, <1>2 DEF ConfigInv

(* The server answers a request once.                                      *)
LEMMA SerialStep == ASSUME ConfigInv, serialResponse PROVE ConfigInv'
<1>1. /\ pc \in {"run", "wait"} /\ pc' = pc /\ pending > 0
      /\ issued' = issued + 1 /\ pending' = pending - 1 /\ hasSerial' = TRUE
      /\ val' = [val EXCEPT !["serial"] = issued + 1]
      /\ order' = order /\ sections' = sections /\ sectionState' = sectionState
      /\ restarts' = restarts /\ success' = success /\ used' = used
  BY DEF serialResponse, parser
<1>2. issued \in Nat /\ issued + 1 <= 99 /\ Counted'
  BY <1>1, ConfigAssumption DEF ConfigInv, Counted
<1>3. Valid(val')
  <2>1. Fits("serial", issued + 1)
    BY <1>2 DEF Fits
  <2> QED
    BY <1>1, <2>1, SetOption DEF ConfigInv, Options
<1>4. checkCfg(val') /\ (success => Fixed(val'))
  <2>1. /\ val'["host"] = val["host"] /\ val'["port"] = val["port"]
        /\ val'["backlog"] = val["backlog"] /\ val'["gc"] = val["gc"]
        /\ val'["history"] = val["history"]
    BY <1>1 DEF ConfigInv, Valid, Options
  <2>2. checkCfg(val) /\ (success => Fixed(val))
    BY <1>1 DEF ConfigInv
  <2> QED
    BY Zenon, <2>1, <2>2 DEF checkCfg, Fixed
<1> QED
  BY <1>1, <1>2, <1>3, <1>4 DEF ConfigInv

LEMMA RestartStep == ASSUME ConfigInv, Restart PROVE ConfigInv'
<1>1. /\ restarts < MaxRestarts /\ restarts' = restarts + 1
      /\ sections' = <<>> /\ val' = Default /\ hasSerial' = FALSE
      /\ sectionState' = "UNKNOWN" /\ pc' = "register" /\ success' = FALSE
      /\ order' = order /\ issued' = issued /\ pending' = 0 /\ used' = {}
  BY DEF Restart
<1>2. restarts' \in 0..MaxRestarts
  BY <1>1, ConfigAssumption DEF ConfigInv
<1>3. sections' \in Seq(Sections)
  <2>1. <<>> \in Seq(Sections)
    OBVIOUS
  <2> QED
    BY <1>1, <2>1
<1>4. Counted'
  BY <1>1, ConfigAssumption DEF ConfigInv, Counted
<1> QED
  BY <1>1, <1>2, <1>3, <1>4, DefaultValid DEF ConfigInv

LEMMA StayStep == ASSUME ConfigInv, UNCHANGED vars PROVE ConfigInv'
  BY DEF ConfigInv, Counted, vars

LEMMA ConfigKept == ASSUME ConfigInv, [Next]_vars PROVE ConfigInv'
  BY RegisterStep, DefaultsStep, ReadFileStep, SectionStep, SkipStep, OptionStep,
     FixStep, CheckStep, WriteStep, LoginStep, SerialStep, RestartStep, StayStep
     DEF Next, Stopped

LEMMA ConfigInvariant == Spec => []ConfigInv
<1>1. Init => ConfigInv
  BY ConfigInit
<1>2. ConfigInv /\ [Next]_vars => ConfigInv'
  BY ConfigKept
<1> QED
  BY <1>1, <1>2, PTL DEF Spec

(* Whatever the files contain and however often the process is started, no *)
(* option ever has a value that its C variable cannot hold, and a daemon   *)
(* runs only with a configuration that passed the check of NET and, if the *)
(* last file could be read, the corrections of BUF.                        *)
THEOREM ConfigurationUsable == Spec => []UsableConfiguration
<1>1. ConfigInv => UsableConfiguration
  <2> SUFFICES ASSUME ConfigInv PROVE UsableConfiguration
    OBVIOUS
  <2>1. TypeOK
    BY TypesOfOptions DEF ConfigInv
  <2>2. pc = "run" => checkCfg(val) /\ (success => Fixed(val))
    BY DEF ConfigInv
  <2> QED
    BY Zenon, <2>1, <2>2 DEF UsableConfiguration, Fixed
<1> QED
  BY <1>1, ConfigInvariant, PTL

-----------------------------------------------------------------------------
(* Sequences of characters.                                                *)

Str == Seq(Char)

Less == {ss \in Nat \X Nat : ss[1] < ss[2]}

LEMMA LeastElement ==
    ASSUME NEW T, T \subseteq Nat, T # {}
    PROVE  \E x \in T : \A y \in T : x <= y
<1>1. IsWellFoundedOn(Less, Nat)
  BY NatLessThanWellFounded DEF OpToRel, Less
<1>2. PICK x \in T : \A y \in T : ~(<<y, x>> \in Less)
  BY <1>1, WFMin
<1>3. ASSUME NEW y \in T, y < x PROVE FALSE
  BY <1>2, <1>3 DEF Less
<1>4. \A y \in T : x <= y
  BY <1>3
<1> QED
  BY <1>4

LEMMA LeastIndex ==
    ASSUME NEW T, T \subseteq Nat, T # {}
    PROVE  Min(T) \in T /\ \A y \in T : Min(T) <= y
  BY LeastElement DEF Min

(* memchr()                                                                *)
LEMMA FoundAt ==
    ASSUME NEW t \in Str, NEW c, NEW k \in 1..Len(t), t[k] = c,
           \A j \in 1..(k - 1) : t[j] # c
    PROVE  Memchr(t, c) = k
<1> DEFINE I == {i \in 1..Len(t) : t[i] = c}
<1>1. k \in I /\ I \subseteq Nat /\ \A y \in I : k <= y
  BY DEF Str
<1>2. Memchr(t, c) = IF I # {} THEN Min(I) ELSE 0
  BY DEF Memchr, SelectInSeq
<1> HIDE DEF I
<1>3. Min(I) \in I /\ \A y \in I : Min(I) <= y
  BY <1>1, LeastIndex
<1>4. Min(I) = k
  <2>1. Min(I) \in Nat /\ k \in Nat /\ Min(I) <= k /\ k <= Min(I)
    BY <1>1, <1>3
  <2> QED
    BY <2>1
<1> QED
  BY <1>1, <1>2, <1>4

LEMMA Finds ==
    ASSUME NEW t \in Str, NEW c
    PROVE  /\ Memchr(t, c) \in 0..Len(t)
           /\ Memchr(t, c) # 0 => t[Memchr(t, c)] = c
           /\ Memchr(t, c) = 0 => \A j \in 1..Len(t) : t[j] # c
<1> DEFINE I == {i \in 1..Len(t) : t[i] = c}
<1>1. I \subseteq 1..Len(t) /\ I \subseteq Nat /\ Len(t) \in Nat
  BY DEF Str
<1>2. Memchr(t, c) = IF I # {} THEN Min(I) ELSE 0
  BY DEF Memchr, SelectInSeq
<1>3. \A j \in I : t[j] = c
  OBVIOUS
<1>4. I = {} => \A j \in 1..Len(t) : t[j] # c
  OBVIOUS
<1> HIDE DEF I
<1>5. I # {} => Min(I) \in I
  BY <1>1, LeastIndex
<1>6. CASE I = {}
  BY <1>1, <1>2, <1>4, <1>6
<1>7. CASE I # {}
  <2>1. Memchr(t, c) \in I
    BY <1>2, <1>5, <1>7
  <2>2. Memchr(t, c) \in 1..Len(t) /\ t[Memchr(t, c)] = c
    BY <1>1, <1>3, <2>1, Zenon
  <2> QED
    BY <1>1, <2>2
<1> QED
  BY <1>6, <1>7

(* A line, its end and what follows.                                       *)
Joined(t, w, e, r) ==
    /\ t \in Str /\ Len(t) = Len(w) + Len(e) + Len(r)
    /\ \A j \in 1..Len(w) : t[j] = w[j]
    /\ \A j \in 1..Len(e) : t[Len(w) + j] = e[j]
    /\ \A j \in 1..Len(r) : t[Len(w) + Len(e) + j] = r[j]
    /\ SubSeq(t, Len(w) + Len(e) + 1, Len(t)) = r

LEMMA Joins ==
    ASSUME NEW w \in Str, NEW e \in Str, NEW r \in Str
    PROVE  Joined((w \o e) \o r, w, e, r)
<1> USE DEF Str
<1> DEFINE u == w \o e
           t == u \o r
<1>0. w \in Seq(Char) /\ e \in Seq(Char) /\ r \in Seq(Char)
  OBVIOUS
<1>1. /\ u \in Seq(Char) /\ Len(u) = Len(w) + Len(e)
      /\ \A j \in 1..Len(u) : u[j] = IF j <= Len(w) THEN w[j] ELSE e[j - Len(w)]
      /\ Len(w) \in Nat /\ Len(e) \in Nat /\ Len(r) \in Nat
  OBVIOUS
<1> HIDE DEF u
<1>2. /\ t \in Seq(Char) /\ Len(t) = Len(u) + Len(r)
      /\ \A j \in 1..Len(t) : t[j] = IF j <= Len(u) THEN u[j] ELSE r[j - Len(u)]
  <2>0. u \in Seq(Char)
    BY <1>1
  <2>1. t \in Seq(Char)
    BY <1>0, <2>0
  <2>2. Len(t) = Len(u) + Len(r)
    BY <1>0, <2>0
  <2>3. \A j \in 1..Len(t) : t[j] = IF j <= Len(u) THEN u[j] ELSE r[j - Len(u)]
    BY <1>0, <1>1
  <2> QED
    BY <2>1, <2>2, <2>3
<1> HIDE DEF t
<1>3. \A j \in 1..Len(w) : t[j] = w[j]
  BY <1>1, <1>2
<1>4. \A j \in 1..Len(e) : t[Len(w) + j] = e[j]
  BY <1>1, <1>2
<1>5. \A j \in 1..Len(r) : t[Len(w) + Len(e) + j] = r[j]
  <2> SUFFICES ASSUME NEW j \in 1..Len(r) PROVE t[Len(w) + Len(e) + j] = r[j]
    OBVIOUS
  <2> DEFINE i == Len(w) + Len(e) + j
  <2>1. i \in 1..Len(t) /\ ~(i <= Len(u)) /\ i - Len(u) = j
    BY <1>1, <1>2
  <2> HIDE DEF i
  <2>2. t[i] = r[i - Len(u)]
    BY <1>2, <2>1, Zenon
  <2> QED
    BY <2>1, <2>2, Zenon DEF i
<1>6. SubSeq(t, Len(w) + Len(e) + 1, Len(t)) = r
  <2> DEFINE s == SubSeq(t, Len(w) + Len(e) + 1, Len(t))
             m == Len(w) + Len(e)
  <2>1. m \in Nat /\ m <= Len(t) /\ Len(t) = m + Len(r)
    BY <1>1, <1>2
  <2>2. /\ s \in Seq(Char) /\ Len(s) = Len(t) - m
        /\ \A j \in 1..(Len(t) - m) : s[j] = t[m + j]
    BY <1>2, <2>1, SMTT(30)
  <2> HIDE DEF s
  <2>3. \A j \in 1..Len(r) : s[j] = r[j]
    BY <1>1, <1>5, <2>1, <2>2
  <2>4. Len(s) = Len(r)
    BY <2>1, <2>2, <1>1
  <2>5. s = r
    BY <2>2, <2>3, <2>4
  <2> QED
    BY <2>5 DEF s
<1>7. t \in Seq(Char) /\ Len(t) = Len(w) + Len(e) + Len(r)
  BY <1>1, <1>2
<1>8. Joined(t, w, e, r)
  BY <1>3, <1>4, <1>5, <1>6, <1>7, Zenon DEF Joined
<1> QED
  BY <1>8, Zenon DEF t, u

-----------------------------------------------------------------------------
(* The text of a file from each line on.                                   *)

Whole(file, i) == Characters(file.lines[i]) \o EndOfLine(file)

Texts(f, file, k) ==
    f = [i \in k..(Len(file.lines) + 1) |->
            IF i = Len(file.lines) + 1 THEN <<>> ELSE Whole(file, i) \o f[i + 1]]

LEMMA TextsExist ==
    ASSUME NEW file, Len(file.lines) \in Nat
    PROVE  \E f : Texts(f, file, 1)
<1> DEFINE n == Len(file.lines)
           T == {m \in 0..n : ~\E f : Texts(f, file, n + 1 - m)}
<1>0. n \in Nat
  OBVIOUS
<1>1. T = {} => n \notin T
  OBVIOUS
<1>2. n + 1 - n = 1
  BY <1>0
<1> SUFFICES ASSUME T # {} PROVE FALSE
  BY <1>0, <1>1, <1>2
<1>3. Min(T) \in T /\ \A y \in T : Min(T) <= y
  <2>1. T \subseteq Nat
    BY <1>0
  <2> HIDE DEF T
  <2> QED
    BY <2>1, LeastIndex
<1> DEFINE m == Min(T)
           k == n + 1 - m
<1> HIDE DEF m
<1>4. m \in 0..n /\ m \in T /\ \A y \in T : m <= y
  BY <1>3 DEF m
<1>5. m # 0
  <2> SUFFICES ASSUME m = 0 PROVE FALSE
    OBVIOUS
  <2>1. Texts([i \in (n + 1)..(n + 1) |-> <<>>], file, n + 1)
    BY <1>0 DEF Texts
  <2>2. n + 1 - m = n + 1
    BY <1>0
  <2> QED
    BY <1>4, <2>1, <2>2
<1>6. m - 1 \in 0..n /\ m - 1 \notin T /\ n + 1 - (m - 1) = k + 1
  BY <1>0, <1>4, <1>5
<1>7. PICK f : Texts(f, file, k + 1)
  BY <1>6
<1>8. k \in 1..n /\ k \in Nat
  BY <1>0, <1>4, <1>5
<1> HIDE DEF k
<1> DEFINE Entry(h, i) == IF i = n + 1 THEN <<>> ELSE Whole(file, i) \o h[i + 1]
           g == [i \in k..(n + 1) |-> IF i = k THEN Entry(f, k) ELSE f[i]]
<1>9. f = [i \in (k + 1)..(n + 1) |-> Entry(f, i)]
  BY <1>7 DEF Texts
<1>10. ASSUME NEW i \in k..(n + 1) PROVE g[i] = Entry(g, i)
  <2>1. i \in 1..(n + 1) /\ i \in Nat
    BY <1>0, <1>8
  <2>2. g[i] = Entry(f, i)
    <3>1. CASE i = k
      BY <3>1
    <3>2. CASE i # k
      <4>1. i \in (k + 1)..(n + 1)
        BY <1>0, <1>8, <3>2
      <4>2. f[i] = Entry(f, i)
        BY <1>9, <4>1
      <4> QED
        BY <3>2, <4>2
    <3> QED
      BY <3>1, <3>2
  <2>3. CASE i = n + 1
    BY <2>2, <2>3
  <2>4. CASE i # n + 1
    <3>1. i + 1 \in k..(n + 1) /\ i + 1 # k
      BY <1>0, <1>8, <2>1, <2>4
    <3>2. g[i + 1] = f[i + 1]
      BY <3>1
    <3> QED
      BY <2>2, <2>4, <3>2
  <2> QED
    BY <2>3, <2>4
<1>11. g = [i \in k..(n + 1) |-> Entry(g, i)]
  BY <1>10
<1>12. Texts(g, file, k)
  BY <1>11 DEF Texts
<1> QED
  BY <1>4, <1>12 DEF k

LEMMA TextOf ==
    ASSUME NEW file, Len(file.lines) \in Nat, NEW i \in 1..(Len(file.lines) + 1)
    PROVE  TextFrom(file)[i] = IF i = Len(file.lines) + 1 THEN <<>>
                               ELSE Whole(file, i) \o TextFrom(file)[i + 1]
<1> DEFINE c == CHOOSE f : Texts(f, file, 1)
<1>1. Texts(c, file, 1)
  BY TextsExist
<1>2. TextFrom(file) = c
  BY DEF TextFrom, Texts, Whole
<1> HIDE DEF c
<1>3. c[i] = IF i = Len(file.lines) + 1 THEN <<>> ELSE Whole(file, i) \o c[i + 1]
  BY <1>1, Zenon DEF Texts
<1> QED
  BY <1>2, <1>3, Zenon

-----------------------------------------------------------------------------
(* The results of the first lines.                                         *)

Results(h, file, o, k) ==
    h = [i \in 0..k |-> IF i = 0 THEN [opts |-> o, section |-> "none", status |-> "read"]
                        ELSE Meaning(file, h[i - 1], i)]

LEMMA ResultsExist ==
    ASSUME NEW file, NEW o, NEW k \in Nat
    PROVE  \E h : Results(h, file, o, k)
<1> DEFINE T == {m \in Nat : ~\E h : Results(h, file, o, m)}
           start == [opts |-> o, section |-> "none", status |-> "read"]
<1> SUFFICES ASSUME T # {} PROVE FALSE
  OBVIOUS
<1>1. PICK m \in T : \A y \in T : m <= y
  <2>1. T \subseteq Nat
    OBVIOUS
  <2> HIDE DEF T
  <2>2. Min(T) \in T /\ \A y \in T : Min(T) <= y
    BY <2>1, LeastIndex
  <2> QED
    BY <2>2
<1>2. m # 0
  <2>1. Results([i \in 0..0 |-> start], file, o, 0)
    BY DEF Results
  <2> QED
    BY <1>1, <2>1
<1>3. m - 1 \in Nat /\ m - 1 \notin T
  BY <1>1, <1>2
<1>4. PICK h : Results(h, file, o, m - 1)
  BY <1>3
<1> DEFINE g == [i \in 0..m |-> IF i = m THEN Meaning(file, h[m - 1], m) ELSE h[i]]
<1>5. ASSUME NEW i \in 0..m
      PROVE  g[i] = IF i = 0 THEN start ELSE Meaning(file, g[i - 1], i)
  <2>1. CASE i = m
    <3>1. g[m - 1] = h[m - 1] /\ g[i] = Meaning(file, h[m - 1], m)
      BY <1>2, <1>3, <2>1
    <3> QED
      BY <1>2, <2>1, <3>1, Zenon
  <2>2. CASE i # m
    <3>1. i \in 0..(m - 1) /\ (i # 0 => i - 1 \in 0..m /\ i - 1 # m)
      BY <1>3, <2>2
    <3>2. h[i] = IF i = 0 THEN start ELSE Meaning(file, h[i - 1], i)
      BY <1>4, <3>1, Zenon DEF Results
    <3>3. g[i] = h[i] /\ (i # 0 => g[i - 1] = h[i - 1])
      BY <2>2, <3>1, Zenon
    <3> QED
      BY <3>2, <3>3, Zenon
  <2> QED
    BY <2>1, <2>2
<1>6. Results(g, file, o, m)
  BY <1>5, Zenon DEF Results
<1> QED
  BY <1>1, <1>6

LEMMA ReadingOf ==
    ASSUME NEW file, NEW o, Len(file.lines) \in Nat
    PROVE  /\ Readings(file, o)[0] = [opts |-> o, section |-> "none", status |-> "read"]
           /\ \A i \in 1..Len(file.lines) :
                 Readings(file, o)[i] = Meaning(file, Readings(file, o)[i - 1], i)
<1> DEFINE c == CHOOSE h : Results(h, file, o, Len(file.lines))
           start == [opts |-> o, section |-> "none", status |-> "read"]
<1>1. Results(c, file, o, Len(file.lines))
  BY ResultsExist
<1>2. Readings(file, o) = c
  BY DEF Readings, Results
<1> HIDE DEF c
<1>3. 0 \in 0..Len(file.lines) /\ \A i \in 1..Len(file.lines) : i # 0 /\ i \in 0..Len(file.lines)
  OBVIOUS
<1>4. \A i \in 0..Len(file.lines) :
          c[i] = IF i = 0 THEN start ELSE Meaning(file, c[i - 1], i)
  BY <1>1, Zenon DEF Results
<1>5. c[0] = start
  BY <1>3, <1>4, Zenon
<1>6. \A i \in 1..Len(file.lines) : c[i] = Meaning(file, c[i - 1], i)
  BY <1>3, <1>4, Zenon
<1> QED
  BY <1>2, <1>5, <1>6, Zenon

-----------------------------------------------------------------------------
(* The characters of a line.                                               *)

LEMMA CharactersOf ==
    ASSUME NEW line
    PROVE  /\ line.kind = "section" => Characters(line) = <<"[", line.name, "]">>
           /\ line.kind = "open" => Characters(line) = <<"[", line.name>>
           /\ line.kind = "trailing" => Characters(line) = <<"[", line.name, "]", "0">>
           /\ line.kind = "key" => Characters(line) = <<line.key>>
           /\ line.kind = "comment" => Characters(line) = <<"#", "]", "=">>
           /\ line.kind = "empty" => Characters(line) = <<>>
           /\ line.kind = "option" =>
                 Characters(line) = <<line.key>> \o Blank(line) \o <<"=">>
                                    \o Blank(line) \o line.value
  BY DEF Characters

LEMMA NamesPlain ==
    ASSUME NEW line, WellFormed(line)
    PROVE  /\ line.kind \in {"section", "open", "trailing"} =>
                 line.name \in Char /\ line.name \notin {"[", "]", "=", "#", "SP", "CR", "LF"}
           /\ line.kind \in {"option", "key"} =>
                 line.key \in Char /\ line.key \notin {"[", "]", "=", "#", "SP", "CR", "LF"}
  BY ConfigAssumption DEF WellFormed, Special, Char

LEMMA Letters ==
    /\ "[" \in Char /\ "]" \in Char /\ "=" \in Char /\ "#" \in Char
    /\ "SP" \in Char /\ "CR" \in Char /\ "LF" \in Char /\ "0" \in Char
<1>1. "0" \in DigitSet
  <2>1. 1 \in 1..Len(Digits) /\ Digits[1] = "0"
    BY DEF Digits
  <2> QED
    BY <2>1 DEF DigitSet, ToSet
<1> QED
  BY <1>1, ConfigAssumption DEF Char, Special

Spaces(line) == IF line.spaces THEN 1 ELSE 0

LEMMA ValueOf ==
    ASSUME NEW line, WellFormed(line), line.kind = "option"
    PROVE  /\ line.value \in Str /\ Len(line.value) \in Nat
           /\ \A j \in 1..Len(line.value) : line.value[j] \notin {"CR", "LF"}
           /\ line.value # <<>> => line.value[1] # "SP"
           /\ line.value = <<>> <=> Len(line.value) = 0
           /\ Spaces(line) \in 0..1
<1>1. line.value \in Seq(Char \ {"CR", "LF"}) /\ (line.value # <<>> => line.value[1] # "SP")
  BY DEF WellFormed
<1> DEFINE v == line.value
<1> HIDE DEF v
<1>2. v \in Seq(Char \ {"CR", "LF"})
  BY <1>1 DEF v
<1>3. v \in Seq(Char) /\ Len(v) \in Nat /\ (v = <<>> <=> Len(v) = 0)
      /\ \A j \in 1..Len(v) : v[j] \notin {"CR", "LF"}
  BY <1>2
<1> QED
  BY <1>1, <1>3 DEF v, Str, Spaces

LEMMA Prefixed ==
    ASSUME NEW p \in Str, NEW v \in Str
    PROVE  /\ p \o v \in Str /\ Len(p \o v) = Len(p) + Len(v)
           /\ \A j \in 1..Len(p) : (p \o v)[j] = p[j]
           /\ \A j \in 1..Len(v) : (p \o v)[Len(p) + j] = v[j]
  BY DEF Str

LEMMA OptionChars ==
    ASSUME NEW line, WellFormed(line), line.kind = "option"
    PROVE  /\ Characters(line) \in Str
           /\ Len(Characters(line)) = 2 + 2 * Spaces(line) + Len(line.value)
           /\ Characters(line)[1] = line.key
           /\ Characters(line)[2 + Spaces(line)] = "="
           /\ Spaces(line) = 1 => /\ Characters(line)[2] = "SP"
                                  /\ Characters(line)[4] = "SP"
           /\ \A j \in 1..Len(line.value) :
                 Characters(line)[2 + 2 * Spaces(line) + j] = line.value[j]
<1> DEFINE v == line.value
           k == line.key
<1>1. v \in Str /\ Len(v) \in Nat /\ k \in Char
  BY ValueOf, NamesPlain
<1>2. Characters(line) = <<k>> \o Blank(line) \o <<"=">> \o Blank(line) \o v
  BY CharactersOf
<1> HIDE DEF v, k
<1>3. CASE line.spaces
  <2> DEFINE p == <<k, "SP", "=", "SP">>
  <2>1. Characters(line) = p \o v /\ Spaces(line) = 1
    BY <1>1, <1>2, <1>3 DEF Blank, Spaces, Str
  <2>2. /\ p \in Str /\ Len(p) = 4 /\ p[1] = k /\ p[2] = "SP" /\ p[3] = "="
        /\ p[4] = "SP"
    BY <1>1, Letters DEF Str
  <2> HIDE DEF p
  <2>3. /\ p \o v \in Str /\ Len(p \o v) = 4 + Len(v)
        /\ \A j \in 1..4 : (p \o v)[j] = p[j]
        /\ \A j \in 1..Len(v) : (p \o v)[4 + j] = v[j]
    <3>1. /\ p \o v \in Str /\ Len(p \o v) = Len(p) + Len(v)
          /\ \A j \in 1..Len(p) : (p \o v)[j] = p[j]
          /\ \A j \in 1..Len(v) : (p \o v)[Len(p) + j] = v[j]
      BY <1>1, <2>2, Prefixed, Zenon
    <3>2. Len(p) = 4
      BY <2>2
    <3> QED
      BY <3>1, <3>2, Zenon
  <2> DEFINE w == p \o v
  <2>4. w[1] = k /\ w[2] = "SP" /\ w[3] = "=" /\ w[4] = "SP" /\ Len(w) = 4 + Len(v)
        /\ w \in Str /\ \A j \in 1..Len(v) : w[4 + j] = v[j]
    BY <2>2, <2>3
  <2>5. Characters(line) = w
    BY <2>1
  <2> HIDE DEF w
  <2>6. 2 + Spaces(line) = 3 /\ 2 + 2 * Spaces(line) = 4
    BY <2>1
  <2> QED
    BY <1>1, <2>4, <2>5, <2>6 DEF v, k
<1>4. CASE ~line.spaces
  <2> DEFINE p == <<k, "=">>
  <2>1. Characters(line) = p \o v /\ Spaces(line) = 0
    BY <1>1, <1>2, <1>4 DEF Blank, Spaces, Str
  <2>2. p \in Str /\ Len(p) = 2 /\ p[1] = k /\ p[2] = "="
    BY <1>1, Letters DEF Str
  <2> HIDE DEF p
  <2>3. /\ p \o v \in Str /\ Len(p \o v) = 2 + Len(v)
        /\ \A j \in 1..2 : (p \o v)[j] = p[j]
        /\ \A j \in 1..Len(v) : (p \o v)[2 + j] = v[j]
    <3>1. /\ p \o v \in Str /\ Len(p \o v) = Len(p) + Len(v)
          /\ \A j \in 1..Len(p) : (p \o v)[j] = p[j]
          /\ \A j \in 1..Len(v) : (p \o v)[Len(p) + j] = v[j]
      BY <1>1, <2>2, Prefixed, Zenon
    <3>2. Len(p) = 2
      BY <2>2
    <3> QED
      BY <3>1, <3>2, Zenon
  <2> DEFINE w == p \o v
  <2>4. w[1] = k /\ w[2] = "=" /\ Len(w) = 2 + Len(v)
        /\ w \in Str /\ \A j \in 1..Len(v) : w[2 + j] = v[j]
    BY <2>2, <2>3
  <2>5. Characters(line) = w
    BY <2>1
  <2> HIDE DEF w
  <2>6. 2 + Spaces(line) = 2 /\ 2 + 2 * Spaces(line) = 2 /\ Spaces(line) # 1
    BY <2>1
  <2> QED
    BY <1>1, <2>4, <2>5, <2>6 DEF v, k
<1> QED
  BY <1>3, <1>4

(* No line contains the end of a line.                                     *)
LEMMA OneLine ==
    ASSUME NEW line, WellFormed(line)
    PROVE  /\ Characters(line) \in Str /\ Len(Characters(line)) \in Nat
           /\ \A j \in 1..Len(Characters(line)) : Characters(line)[j] \notin {"CR", "LF"}
<1> DEFINE w == Characters(line)
<1>1. CASE line.kind = "section"
  <2>1. w = <<"[", line.name, "]">>
    BY <1>1, CharactersOf
  <2> HIDE DEF w
  <2> QED
    BY <1>1, <2>1, NamesPlain, Letters DEF Str, w
<1>2. CASE line.kind = "open"
  <2>1. w = <<"[", line.name>>
    BY <1>2, CharactersOf
  <2> HIDE DEF w
  <2> QED
    BY <1>2, <2>1, NamesPlain, Letters DEF Str, w
<1>3. CASE line.kind = "trailing"
  <2>1. w = <<"[", line.name, "]", "0">>
    BY <1>3, CharactersOf
  <2> HIDE DEF w
  <2> QED
    BY <1>3, <2>1, NamesPlain, Letters DEF Str, w
<1>4. CASE line.kind = "key"
  <2>1. w = <<line.key>>
    BY <1>4, CharactersOf
  <2> HIDE DEF w
  <2> QED
    BY <1>4, <2>1, NamesPlain, Letters DEF Str, w
<1>5. CASE line.kind = "comment"
  <2>1. w = <<"#", "]", "=">>
    BY <1>5, CharactersOf
  <2> HIDE DEF w
  <2> QED
    BY <2>1, Letters DEF Str, w
<1>6. CASE line.kind = "empty"
  <2>1. w = <<>>
    BY <1>6, CharactersOf
  <2> HIDE DEF w
  <2> QED
    BY <2>1, Letters DEF Str, w
<1>7. CASE line.kind = "option"
  <2> DEFINE v == line.value
             p == Spaces(line)
  <2>1. /\ w \in Str /\ Len(w) = 2 + 2 * p + Len(v) /\ w[1] = line.key
        /\ w[2 + p] = "=" /\ (p = 1 => w[2] = "SP" /\ w[4] = "SP")
        /\ \A j \in 1..Len(v) : w[2 + 2 * p + j] = v[j]
    BY <1>7, OptionChars
  <2>2. /\ p \in 0..1 /\ Len(v) \in Nat /\ \A j \in 1..Len(v) : v[j] \notin {"CR", "LF"}
    BY <1>7, ValueOf
  <2>3. line.key \notin {"CR", "LF"}
    BY <1>7, NamesPlain
  <2> HIDE DEF w, v, p
  <2>4. ASSUME NEW j \in 1..Len(w) PROVE w[j] \notin {"CR", "LF"}
    <3>1. CASE j > 2 + 2 * p
      <4>1. j - (2 + 2 * p) \in 1..Len(v) /\ j = 2 + 2 * p + (j - (2 + 2 * p))
        BY <2>1, <2>2, <3>1
      <4> QED
        BY <2>1, <2>2, <4>1
    <3>2. CASE j <= 2 + 2 * p
      <4>1. CASE p = 0
        BY <2>1, <2>2, <2>3, <3>2, <4>1
      <4>2. CASE p = 1
        BY <2>1, <2>2, <2>3, <3>2, <4>2
      <4> QED
        BY <2>2, <4>1, <4>2
    <3> QED
      BY <2>1, <2>2, <3>1, <3>2
  <2>5. Len(w) \in Nat
    BY <2>1, <2>2
  <2> QED
    BY <2>1, <2>4, <2>5 DEF w
<1> QED
  BY <1>1, <1>2, <1>3, <1>4, <1>5, <1>6, <1>7 DEF WellFormed

(* A '=' is found in options and comments only.                            *)
HasEquals(t) == \E j \in 1..Len(t) : t[j] = "="

LEMMA EqualsInLine ==
    ASSUME NEW line, WellFormed(line)
    PROVE  HasEquals(Characters(line)) <=> line.kind \in {"option", "comment"}
<1> DEFINE w == Characters(line)
<1>1. CASE line.kind = "section"
  <2>1. w = <<"[", line.name, "]">>
    BY <1>1, CharactersOf
  <2> HIDE DEF w
  <2> QED
    BY <1>1, <2>1, NamesPlain DEF HasEquals, w
<1>2. CASE line.kind = "open"
  <2>1. w = <<"[", line.name>>
    BY <1>2, CharactersOf
  <2> HIDE DEF w
  <2> QED
    BY <1>2, <2>1, NamesPlain DEF HasEquals, w
<1>3. CASE line.kind = "trailing"
  <2>1. w = <<"[", line.name, "]", "0">>
    BY <1>3, CharactersOf
  <2> HIDE DEF w
  <2> QED
    BY <1>3, <2>1, NamesPlain DEF HasEquals, w
<1>4. CASE line.kind = "key"
  <2>1. w = <<line.key>>
    BY <1>4, CharactersOf
  <2> HIDE DEF w
  <2> QED
    BY <1>4, <2>1, NamesPlain DEF HasEquals, w
<1>5. CASE line.kind = "comment"
  <2>1. w = <<"#", "]", "=">>
    BY <1>5, CharactersOf
  <2> HIDE DEF w
  <2> QED
    BY <1>5, <2>1 DEF HasEquals, w
<1>6. CASE line.kind = "empty"
  <2>1. w = <<>>
    BY <1>6, CharactersOf
  <2> HIDE DEF w
  <2> QED
    BY <1>6, <2>1 DEF HasEquals, w
<1>7. CASE line.kind = "option"
  <2>1. w[2 + Spaces(line)] = "=" /\ Len(w) = 2 + 2 * Spaces(line) + Len(line.value)
    BY <1>7, OptionChars
  <2>2. Spaces(line) \in 0..1 /\ Len(line.value) \in Nat
    BY <1>7, ValueOf
  <2>3. 2 + Spaces(line) \in 1..Len(w)
    BY <2>1, <2>2
  <2> QED
    BY <1>7, <2>1, <2>3 DEF HasEquals
<1> QED
  BY <1>1, <1>2, <1>3, <1>4, <1>5, <1>6, <1>7 DEF WellFormed

-----------------------------------------------------------------------------
(* The lines of a text.                                                    *)

LEMMA EndOf ==
    ASSUME NEW file, file.crlf \in BOOLEAN
    PROVE  /\ EndOfLine(file) \in Str
           /\ file.crlf => /\ Len(EndOfLine(file)) = 2
                           /\ EndOfLine(file)[1] = "CR" /\ EndOfLine(file)[2] = "LF"
           /\ ~file.crlf => Len(EndOfLine(file)) = 1 /\ EndOfLine(file)[1] = "LF"
<1>1. CASE file.crlf
  <2>1. EndOfLine(file) = <<"CR", "LF">>
    BY <1>1 DEF EndOfLine
  <2> QED
    BY <1>1, <2>1, Letters DEF Str
<1>2. CASE ~file.crlf
  <2>1. EndOfLine(file) = <<"LF">>
    BY <1>2 DEF EndOfLine
  <2> QED
    BY <1>2, <2>1, Letters DEF Str
<1> QED
  BY <1>1, <1>2

LEMMA EmptyText == <<>> \in Str /\ Len(<<>>) = 0
  BY DEF Str

LEMMA TextTyped ==
    ASSUME NEW file, IsFile(file), NEW i \in 1..(Len(file.lines) + 1)
    PROVE  TextFrom(file)[i] \in Str
<1> DEFINE n == Len(file.lines)
           T == {m \in 0..n : TextFrom(file)[n + 1 - m] \notin Str}
<1>0. n \in Nat
  BY DEF IsFile
<1>1. ASSUME T # {} PROVE FALSE
  <2>1. Min(T) \in T /\ \A y \in T : Min(T) <= y
    <3>1. T \subseteq Nat
      BY <1>0
    <3> HIDE DEF T
    <3> QED
      BY <1>1, <3>1, LeastIndex
  <2> DEFINE m == Min(T)
             k == n + 1 - m
  <2> HIDE DEF m
  <2>2. m \in T /\ m \in 0..n /\ k \in 1..(n + 1) /\ \A y \in T : m <= y
    BY <1>0, <2>1 DEF m
  <2>3. TextFrom(file)[k] =
            IF k = n + 1 THEN <<>> ELSE Whole(file, k) \o TextFrom(file)[k + 1]
    BY <1>0, <2>2, TextOf
  <2>4. CASE k = n + 1
    <3>1. TextFrom(file)[k] \in Str
      BY <2>3, <2>4, EmptyText, Zenon
    <3> QED
      BY <2>2, <3>1
  <2>5. CASE k # n + 1
    <3>1. m - 1 \in 0..n /\ m - 1 \notin T /\ n + 1 - (m - 1) = k + 1 /\ k \in 1..n
      BY <1>0, <2>2, <2>5
    <3>2. TextFrom(file)[k + 1] \in Str
      BY <3>1
    <3>3. Characters(file.lines[k]) \in Str /\ EndOfLine(file) \in Str
      BY <3>1, OneLine, EndOf DEF IsFile
    <3>4. Whole(file, k) \o TextFrom(file)[k + 1] \in Str
      BY <3>2, <3>3, Joins, Zenon DEF Joined, Whole
    <3> QED
      BY <2>2, <2>3, <2>5, <3>4
  <2> QED
    BY <2>4, <2>5
<1>2. n + 1 - i \in 0..n /\ n + 1 - (n + 1 - i) = i
  BY <1>0
<1>3. n + 1 - i \notin T
  BY <1>1
<1> QED
  BY <1>2, <1>3

(* The text from line i on: the line, its end, and the text from the next. *)
LEMMA LineOfText ==
    ASSUME NEW file, IsFile(file), NEW i \in 1..Len(file.lines)
    PROVE  /\ Characters(file.lines[i]) \in Str /\ EndOfLine(file) \in Str
           /\ TextFrom(file)[i + 1] \in Str
           /\ WellFormed(file.lines[i])
           /\ TextFrom(file)[i] =
                 (Characters(file.lines[i]) \o EndOfLine(file)) \o TextFrom(file)[i + 1]
<1>1. Len(file.lines) \in Nat /\ i \in 1..(Len(file.lines) + 1)
      /\ i + 1 \in 1..(Len(file.lines) + 1) /\ i # Len(file.lines) + 1
  BY DEF IsFile
<1>2. WellFormed(file.lines[i]) /\ file.crlf \in BOOLEAN
  BY DEF IsFile
<1>3. Characters(file.lines[i]) \in Str /\ EndOfLine(file) \in Str
  BY <1>2, OneLine, EndOf
<1>4. TextFrom(file)[i + 1] \in Str
  BY <1>1, TextTyped
<1>5. TextFrom(file)[i] = Whole(file, i) \o TextFrom(file)[i + 1]
  BY <1>1, TextOf, Zenon
<1> QED
  BY <1>2, <1>3, <1>4, <1>5, Zenon DEF Whole

LEMMA EqualsJoined ==
    ASSUME NEW w \in Str, NEW e \in Str, NEW r \in Str, ~HasEquals(e)
    PROVE  HasEquals((w \o e) \o r) <=> HasEquals(w) \/ HasEquals(r)
<1> DEFINE t == (w \o e) \o r
           a == Len(w)
           b == Len(e)
           c == Len(r)
<1>1. /\ Len(t) = a + b + c
      /\ \A j \in 1..a : t[j] = w[j]
      /\ \A j \in 1..b : t[a + j] = e[j]
      /\ \A j \in 1..c : t[a + b + j] = r[j]
  <2>1. Joined(t, w, e, r)
    BY Joins
  <2> QED
    BY <2>1, Zenon DEF Joined
<1>2. a \in Nat /\ b \in Nat /\ c \in Nat
  BY DEF Str
<1> HIDE DEF t, a, b, c
<1>3. ASSUME NEW j \in 1..Len(t), t[j] = "=" PROVE HasEquals(w) \/ HasEquals(r)
  <2>1. CASE j <= a
    <3>1. j \in 1..a
      BY <1>1, <1>2, <2>1
    <3> QED
      BY <1>1, <1>3, <3>1 DEF HasEquals, a
  <2>2. CASE a < j /\ j <= a + b
    <3>1. j - a \in 1..b /\ a + (j - a) = j
      BY <1>1, <1>2, <2>2
    <3>2. e[j - a] = "="
      BY <1>1, <1>3, <3>1
    <3> QED
      BY <3>1, <3>2 DEF HasEquals, b
  <2>3. CASE a + b < j
    <3>1. j - (a + b) \in 1..c /\ a + b + (j - (a + b)) = j
      BY <1>1, <1>2, <2>3
    <3>2. r[j - (a + b)] = "="
      BY <1>1, <1>3, <3>1
    <3> QED
      BY <3>1, <3>2 DEF HasEquals, c
  <2> QED
    BY <1>1, <1>2, <2>1, <2>2, <2>3
<1>4. ASSUME HasEquals(w) PROVE HasEquals(t)
  <2>1. PICK j \in 1..a : w[j] = "="
    BY <1>4 DEF HasEquals, a
  <2>2. j \in 1..Len(t)
    BY <1>1, <1>2
  <2> QED
    BY <1>1, <2>1, <2>2 DEF HasEquals
<1>5. ASSUME HasEquals(r) PROVE HasEquals(t)
  <2>1. PICK j \in 1..c : r[j] = "="
    BY <1>5 DEF HasEquals, c
  <2>2. a + b + j \in 1..Len(t)
    BY <1>1, <1>2
  <2> QED
    BY <1>1, <2>1, <2>2 DEF HasEquals
<1> QED
  BY <1>3, <1>4, <1>5 DEF HasEquals, t

(* A search for '=' finds one of a later line, if there is one.            *)
EqualsBehind(file, i) ==
    \E k \in i..Len(file.lines) : file.lines[k].kind \in {"option", "comment"}

LEMMA EqualsInText ==
    ASSUME NEW file, IsFile(file), NEW i \in 1..(Len(file.lines) + 1)
    PROVE  HasEquals(TextFrom(file)[i]) <=> EqualsBehind(file, i)
<1> DEFINE n == Len(file.lines)
           Same(k) == HasEquals(TextFrom(file)[k]) <=> EqualsBehind(file, k)
           T == {m \in 0..n : ~Same(n + 1 - m)}
<1>0. n \in Nat
  BY DEF IsFile
<1>1. ASSUME T # {} PROVE FALSE
  <2>1. Min(T) \in T /\ \A y \in T : Min(T) <= y
    <3>1. T \subseteq Nat
      BY <1>0
    <3> HIDE DEF T
    <3> QED
      BY <1>1, <3>1, LeastIndex
  <2> DEFINE m == Min(T)
             k == n + 1 - m
  <2> HIDE DEF m
  <2>2. m \in T /\ m \in 0..n /\ k \in 1..(n + 1) /\ \A y \in T : m <= y
    BY <1>0, <2>1 DEF m
  <2>3. CASE k = n + 1
    <3>1. TextFrom(file)[k] = <<>>
      BY <1>0, <2>2, <2>3, TextOf
    <3>2. ~HasEquals(TextFrom(file)[k])
      BY <3>1, EmptyText DEF HasEquals
    <3>3. ~EqualsBehind(file, k)
      BY <1>0, <2>3 DEF EqualsBehind
    <3> QED
      BY <2>2, <3>2, <3>3
  <2>4. CASE k # n + 1
    <3>1. m - 1 \in 0..n /\ m - 1 \notin T /\ n + 1 - (m - 1) = k + 1 /\ k \in 1..n
      BY <1>0, <2>2, <2>4
    <3>2. HasEquals(TextFrom(file)[k + 1]) <=> EqualsBehind(file, k + 1)
      BY <3>1
    <3> DEFINE w == Characters(file.lines[k])
               e == EndOfLine(file)
               r == TextFrom(file)[k + 1]
    <3>3. /\ w \in Str /\ e \in Str /\ r \in Str /\ WellFormed(file.lines[k])
          /\ TextFrom(file)[k] = (w \o e) \o r
      BY <3>1, LineOfText
    <3>4. ~HasEquals(e)
      <4>1. file.crlf \in BOOLEAN
        BY DEF IsFile
      <4> QED
        BY <4>1, EndOf DEF HasEquals
    <3>5. HasEquals(w) <=> file.lines[k].kind \in {"option", "comment"}
      BY <3>3, EqualsInLine
    <3> HIDE DEF w, e
    <3>6. HasEquals(TextFrom(file)[k]) <=> HasEquals(w) \/ HasEquals(r)
      BY <3>3, <3>4, EqualsJoined
    <3>7. EqualsBehind(file, k) <=>
              file.lines[k].kind \in {"option", "comment"} \/ EqualsBehind(file, k + 1)
      <4>1. k \in k..n /\ (k + 1)..n \subseteq k..n /\ \A j \in k..n : j = k \/ j \in (k + 1)..n
        BY <3>1, <1>0
      <4> QED
        BY <4>1, Zenon DEF EqualsBehind
    <3> QED
      BY <2>2, <3>2, <3>5, <3>6, <3>7
  <2> QED
    BY <2>3, <2>4
<1>2. n + 1 - i \in 0..n /\ n + 1 - (n + 1 - i) = i
  BY <1>0
<1>3. n + 1 - i \notin T
  BY <1>1
<1> QED
  BY <1>2, <1>3

-----------------------------------------------------------------------------
(* What the lines say.                                                     *)

Result(o, sec, status) == [opts |-> o, section |-> sec, status |-> status]

LEMMA ResultIs ==
    ASSUME NEW o, NEW sec, NEW status
    PROVE  /\ Result(o, sec, status).opts = o
           /\ Result(o, sec, status).section = sec
           /\ Result(o, sec, status).status = status
           /\ \A x : [Result(o, sec, status) EXCEPT !.status = x] = Result(o, sec, x)
           /\ \A x : [Result(o, sec, status) EXCEPT !.section = x] = Result(o, x, status)
           /\ \A x : [Result(o, sec, status) EXCEPT !.opts = x] = Result(x, sec, status)
  BY DEF Result

(* Lines that assign nothing.                                              *)
LEMMA MeaningOfOthers ==
    ASSUME NEW file, NEW i, NEW o, NEW sec,
           file.lines[i].kind \in {"section", "open", "trailing", "key", "comment", "empty"}
    PROVE  /\ file.lines[i].kind \in {"open", "trailing"} =>
                 Meaning(file, Result(o, sec, "read"), i) = Result(o, sec, "failed")
           /\ file.lines[i].kind = "section" =>
                 Meaning(file, Result(o, sec, "read"), i) =
                     Result(o, IF Registered(file.lines[i].name) THEN file.lines[i].name
                                                                 ELSE "none", "read")
           /\ (file.lines[i].kind = "key" /\ sec # "none" /\ ~EqualsBehind(file, i)) =>
                 Meaning(file, Result(o, sec, "read"), i) = Result(o, sec, "crashed")
           /\ (\/ file.lines[i].kind = "key" /\ (sec = "none" \/ EqualsBehind(file, i))
               \/ file.lines[i].kind \in {"comment", "empty"}) =>
                 Meaning(file, Result(o, sec, "read"), i) = Result(o, sec, "read")
<1> DEFINE s == Result(o, sec, "read")
           line == file.lines[i]
           noEquals == \A k \in i..Len(file.lines) :
                           file.lines[k].kind \notin {"option", "comment"}
<1>1. s.status = "read" /\ s.section = sec /\ s.opts = o
  BY ResultIs
<1>2. noEquals <=> ~EqualsBehind(file, i)
  BY DEF EqualsBehind
<1>3. /\ \A x : [s EXCEPT !.status = x] = Result(o, sec, x)
      /\ \A x : [s EXCEPT !.section = x] = Result(o, x, "read")
  BY ResultIs
<1> HIDE DEF s
<1>4. CASE line.kind \in {"open", "trailing"}
  <2>1. Meaning(file, s, i) = [s EXCEPT !.status = "failed"]
    BY <1>1, <1>4 DEF Meaning
  <2> QED
    BY <1>3, <1>4, <2>1 DEF s
<1>5. CASE line.kind = "section"
  <2>1. Meaning(file, s, i) =
            [s EXCEPT !.section = IF Registered(line.name) THEN line.name ELSE "none"]
    BY <1>1, <1>5 DEF Meaning
  <2> QED
    BY <1>3, <1>5, <2>1 DEF s
<1>6. CASE line.kind = "key"
  <2>1. CASE sec # "none" /\ noEquals
    <3>1. Meaning(file, s, i) = [s EXCEPT !.status = "crashed"]
      BY <1>1, <1>6, <2>1 DEF Meaning
    <3> QED
      BY <1>2, <1>3, <1>6, <2>1, <3>1 DEF s
  <2>2. CASE ~(sec # "none" /\ noEquals)
    <3>1. Meaning(file, s, i) = s
      BY <1>1, <1>6, <2>2 DEF Meaning
    <3> QED
      BY <1>2, <1>6, <2>2, <3>1 DEF s
  <2> QED
    BY <2>1, <2>2
<1>7. CASE line.kind \in {"comment", "empty"}
  <2>1. Meaning(file, s, i) = s
    BY <1>1, <1>7 DEF Meaning
  <2> QED
    BY <1>7, <2>1 DEF s
<1> QED
  BY <1>4, <1>5, <1>6, <1>7

(* Options.                                                                *)
WrapsAround(file, i) == file.lines[i].value = <<>> /\ file.crlf

LEMMA MeaningOfOption ==
    ASSUME NEW file, NEW i, NEW o, NEW sec, file.lines[i].kind = "option"
    PROVE  /\ ~HasOption(sec, file.lines[i].key) =>
                 Meaning(file, Result(o, sec, "read"), i) = Result(o, sec, "read")
           /\ (/\ HasOption(sec, file.lines[i].key) /\ WrapsAround(file, i)
               /\ Type[file.lines[i].key] \in {"int", "port"}) =>
                 Meaning(file, Result(o, sec, "read"), i) = Result(o, sec, "crashed")
           /\ (/\ HasOption(sec, file.lines[i].key) /\ WrapsAround(file, i)
               /\ Type[file.lines[i].key] \notin {"int", "port"} /\ ~onErrorUseDefault) =>
                 Meaning(file, Result(o, sec, "read"), i) = Result(o, sec, "read")
           /\ (/\ HasOption(sec, file.lines[i].key)
               /\ (WrapsAround(file, i) =>
                      Type[file.lines[i].key] \notin {"int", "port"} /\ onErrorUseDefault)) =>
                 Meaning(file, Result(o, sec, "read"), i) =
                     Result(LineAssigns(o, file.lines[i]), sec, "read")
<1> DEFINE s == Result(o, sec, "read")
           line == file.lines[i]
           known == HasOption(sec, line.key)
           wraps == WrapsAround(file, i)
           number == Type[line.key] \in {"int", "port"}
<1>1. s.status = "read" /\ s.section = sec /\ s.opts = o
  BY ResultIs
<1>3. /\ \A x : [s EXCEPT !.status = x] = Result(o, sec, x)
      /\ \A x : [s EXCEPT !.opts = x] = Result(x, sec, "read")
  BY ResultIs
<1> HIDE DEF s
<1>4. CASE ~known
  <2>1. Meaning(file, s, i) = s
    BY <1>1, <1>4 DEF Meaning
  <2> QED
    BY <1>4, <2>1 DEF s
<1>5. CASE known /\ wraps /\ number
  <2>1. Meaning(file, s, i) = [s EXCEPT !.status = "crashed"]
    BY <1>1, <1>5 DEF Meaning, WrapsAround
  <2> QED
    BY <1>3, <1>5, <2>1 DEF s
<1>6. CASE known /\ wraps /\ ~number /\ ~onErrorUseDefault
  <2>1. Meaning(file, s, i) = s
    BY <1>1, <1>6 DEF Meaning, WrapsAround
  <2> QED
    BY <1>6, <2>1 DEF s
<1>7. CASE known /\ (wraps => ~number /\ onErrorUseDefault)
  <2>1. Meaning(file, s, i) =
            [s EXCEPT !.opts = LineAssigns(o, line)]
    BY <1>1, <1>7 DEF Meaning, WrapsAround
  <2>2. [s EXCEPT !.opts = LineAssigns(o, line)] =
            Result(LineAssigns(o, line), sec, "read")
    BY <1>3, Zenon
  <2> QED
    BY <1>7, <2>1, <2>2, Zenon DEF s
<1> QED
  BY <1>4, <1>5, <1>6, <1>7

(* A result that is final remains.                                         *)
LEMMA Final ==
    ASSUME NEW file, NEW before, Len(file.lines) \in Nat, NEW i \in 0..Len(file.lines),
           NEW o, NEW sec, NEW status, status # "read",
           Readings(file, before)[i] = Result(o, sec, status)
    PROVE  Reading(file, before) = Result(o, sec, status)
<1> DEFINE n == Len(file.lines)
           R(k) == Readings(file, before)[k]
           T == {k \in i..n : R(k) # Result(o, sec, status)}
<1>0. n \in Nat /\ i \in Nat /\ i <= n
  OBVIOUS
<1>1. ASSUME T # {} PROVE FALSE
  <2>1. Min(T) \in T /\ \A y \in T : Min(T) <= y
    <3>1. T \subseteq Nat
      BY <1>0
    <3> HIDE DEF T
    <3> QED
      BY <1>1, <3>1, LeastIndex
  <2> DEFINE m == Min(T)
  <2> HIDE DEF m
  <2>2. m \in T /\ m \in i..n /\ m # i /\ \A y \in T : m <= y
    BY <1>0, <2>1 DEF m
  <2>3. m - 1 \in i..n /\ m - 1 \notin T /\ m \in 1..n
    BY <1>0, <2>2
  <2>4. R(m) = Meaning(file, R(m - 1), m)
    BY <2>3, ReadingOf
  <2>5. R(m - 1) = Result(o, sec, status)
    BY <2>3
  <2>6. Meaning(file, R(m - 1), m) = R(m - 1)
    BY <2>5, ResultIs DEF Meaning
  <2> QED
    BY <2>2, <2>4, <2>5, <2>6
<1>2. n \in i..n
  BY <1>0
<1>3. R(n) = Result(o, sec, status)
  BY <1>1, <1>2
<1> QED
  BY <1>3 DEF Reading

-----------------------------------------------------------------------------
(* The parser at the beginning of a line.                                  *)

End(file, i) == Len(Characters(file.lines[i])) + Len(EndOfLine(file))

(* Line i consists of the characters w and ends at n.                      *)
AtBeginning(file, i, w, n) ==
    /\ input \in Str /\ n \in 1..Len(input)
    /\ LineEnd = n
    /\ SubSeq(input, n + 1, Len(input)) = TextFrom(file)[i + 1]
    /\ \A j \in 1..Len(w) : input[j] = w[j]
    /\ file.crlf => n = Len(w) + 2 /\ input[Len(w) + 1] = "CR"
    /\ ~file.crlf => n = Len(w) + 1
    /\ input[n] = "LF"
    /\ \A j \in 1..(n - 1) : input[j] # "LF"

LEMMA AtLine ==
    ASSUME NEW file, IsFile(file), NEW i \in 1..Len(file.lines),
           input = TextFrom(file)[i]
    PROVE  AtBeginning(file, i, Characters(file.lines[i]), End(file, i))
<1> DEFINE w == Characters(file.lines[i])
           e == EndOfLine(file)
           r == TextFrom(file)[i + 1]
           t == (w \o e) \o r
           n == Len(w) + Len(e)
<1>1. w \in Str /\ e \in Str /\ r \in Str /\ input = t /\ WellFormed(file.lines[i])
  BY LineOfText
<1>2. file.crlf \in BOOLEAN
  BY DEF IsFile
<1>3. /\ e \in Str
      /\ file.crlf => Len(e) = 2 /\ e[1] = "CR" /\ e[2] = "LF"
      /\ ~file.crlf => Len(e) = 1 /\ e[1] = "LF"
  BY <1>2, EndOf
<1>4. Len(w) \in Nat /\ \A j \in 1..Len(w) : w[j] \notin {"CR", "LF"}
  BY <1>1, OneLine
<1>5. n = End(file, i)
  BY DEF End
<1> HIDE DEF w, e, r
<1>6. /\ t \in Str /\ Len(t) = Len(w) + Len(e) + Len(r)
      /\ \A j \in 1..Len(w) : t[j] = w[j]
      /\ \A j \in 1..Len(e) : t[Len(w) + j] = e[j]
      /\ SubSeq(t, Len(w) + Len(e) + 1, Len(t)) = r
  <2>0. w \in Str /\ e \in Str /\ r \in Str
    BY <1>1
  <2>1. Joined(t, w, e, r)
    BY <2>0, Joins
  <2> QED
    BY <2>1, Zenon DEF Joined
<1>7. Len(r) \in Nat
  BY <1>1 DEF Str
<1> HIDE DEF t
<1>8. n \in 1..Len(t) /\ t[n] = "LF" /\ \A j \in 1..(n - 1) : t[j] # "LF"
  <2>1. CASE file.crlf
    <3>1. Len(e) = 2 /\ n = Len(w) + 2 /\ t[Len(w) + 1] = "CR" /\ t[Len(w) + 2] = "LF"
      <4>1. Len(e) = 2 /\ e[1] = "CR" /\ e[2] = "LF"
        BY <1>3, <2>1
      <4>2. 1 \in 1..Len(e) /\ 2 \in 1..Len(e)
        BY <4>1
      <4>3. t[Len(w) + 1] = e[1] /\ t[Len(w) + 2] = e[2]
        BY <1>6, <4>2, Zenon
      <4> QED
        BY <4>1, <4>3
    <3>2. n \in 1..Len(t)
      BY <1>4, <1>6, <1>7, <3>1
    <3>3. ASSUME NEW j \in 1..(n - 1) PROVE t[j] # "LF"
      <4>1. j \in 1..Len(w) \/ j = Len(w) + 1
        BY <1>4, <3>1
      <4>2. CASE j \in 1..Len(w)
        BY <1>4, <1>6, <4>2
      <4>3. CASE j = Len(w) + 1
        BY <3>1, <4>3
      <4> QED
        BY <4>1, <4>2, <4>3
    <3>4. t[n] = "LF"
      BY <3>1
    <3> QED
      BY <3>2, <3>3, <3>4
  <2>2. CASE ~file.crlf
    <3>1. Len(e) = 1 /\ n = Len(w) + 1 /\ t[Len(w) + 1] = "LF"
      BY <1>3, <1>4, <1>6, <2>2, SMTT(30)
    <3> QED
      BY <1>4, <1>6, <1>7, <3>1, SMTT(30)
  <2> QED
    BY <1>2, <2>1, <2>2
<1>9. Memchr(t, "LF") = n
  BY <1>6, <1>8, FoundAt
<1>10. LineEnd = n
  <2>1. n # 0
    BY <1>8
  <2> QED
    BY <1>1, <1>9, <2>1 DEF LineEnd
<1>11. /\ file.crlf => n = Len(w) + 2 /\ t[Len(w) + 1] = "CR"
       /\ ~file.crlf => n = Len(w) + 1
  <2> HIDE DEF t
  <2>1. CASE file.crlf
    <3>1. Len(e) = 2 /\ e[1] = "CR" /\ 1 \in 1..2
      BY <1>3, <2>1
    <3>2. t[Len(w) + 1] = e[1]
      BY <1>6, <3>1, Zenon
    <3> QED
      BY <2>1, <3>1, <3>2
  <2>2. CASE ~file.crlf
    BY <1>3, <2>2
  <2> QED
    BY <2>1, <2>2
<1>12. /\ \A j \in 1..Len(w) : t[j] = w[j]
       /\ SubSeq(t, n + 1, Len(t)) = r
  BY <1>6
<1> HIDE DEF n
<1> QED
  <2>1. AtBeginning(file, i, w, n)
    BY <1>1, <1>6, <1>8, <1>10, <1>11, <1>12, Zenon DEF AtBeginning, r
  <2> QED
    BY <1>5, <2>1 DEF w

(* Lines by their first character.                                         *)
LEMMA FirstCharacter ==
    ASSUME NEW file, IsFile(file), NEW i \in 1..Len(file.lines),
           input = TextFrom(file)[i]
    PROVE  /\ input # <<>>
           /\ input[1] = "[" <=> file.lines[i].kind \in {"section", "open", "trailing"}
           /\ input[1] = "#" <=> file.lines[i].kind = "comment"
           /\ input[1] \in {"CR", "LF"} <=> file.lines[i].kind = "empty"
           /\ file.lines[i].kind \in {"option", "key"} => input[1] = file.lines[i].key
           /\ input[1] = "CR" => file.crlf
           /\ (input[1] = "LF" /\ file.lines[i].kind = "empty") => ~file.crlf
<1> DEFINE w == Characters(file.lines[i])
           line == file.lines[i]
           c == input[1]
<1>1. WellFormed(line) /\ file.crlf \in BOOLEAN
  BY LineOfText DEF IsFile
<1>2. /\ input \in Str /\ End(file, i) \in 1..Len(input)
      /\ \A j \in 1..Len(w) : input[j] = w[j]
      /\ file.crlf => End(file, i) = Len(w) + 2 /\ input[Len(w) + 1] = "CR"
      /\ ~file.crlf => End(file, i) = Len(w) + 1
      /\ input[End(file, i)] = "LF"
  BY AtLine DEF AtBeginning
<1>3. input # <<>>
  <2>1. Len(input) # 0
    BY <1>2 DEF Str
  <2> QED
    BY <2>1, EmptyText
<1>4. ASSUME Len(w) \in Nat, Len(w) >= 1 PROVE c = w[1]
  BY <1>2, <1>4
<1>5. CASE line.kind \in {"section", "open", "trailing"}
  <2>1. Len(w) \in Nat /\ Len(w) >= 1 /\ w[1] = "["
    <3>1. \/ w = <<"[", line.name, "]">> \/ w = <<"[", line.name>>
          \/ w = <<"[", line.name, "]", "0">>
      BY <1>5, CharactersOf
    <3> HIDE DEF w
    <3>2. CASE w = <<"[", line.name, "]">>
      BY <3>2
    <3>3. CASE w = <<"[", line.name>>
      BY <3>3
    <3>4. CASE w = <<"[", line.name, "]", "0">>
      BY <3>4
    <3> QED
      BY <3>1, <3>2, <3>3, <3>4, Zenon
  <2> QED
    BY <1>3, <1>4, <1>5, <2>1
<1>6. CASE line.kind = "comment"
  <2>1. Len(w) \in Nat /\ Len(w) >= 1 /\ w[1] = "#"
    <3>1. w = <<"#", "]", "=">>
      BY <1>6, CharactersOf
    <3> HIDE DEF w
    <3> QED
      BY <3>1
  <2> QED
    BY <1>3, <1>4, <1>6, <2>1
<1>7. CASE line.kind = "empty"
  <2>1. Len(w) = 0
    BY <1>7, CharactersOf, EmptyText
  <2>2. file.crlf => c = "CR"
    BY <1>2, <2>1
  <2>3. ~file.crlf => c = "LF"
    BY <1>2, <2>1
  <2> QED
    BY <1>1, <1>3, <1>7, <2>2, <2>3
<1>8. CASE line.kind \in {"option", "key"}
  <2>1. Len(w) \in Nat /\ Len(w) >= 1 /\ w[1] = line.key
    <3>1. CASE line.kind = "key"
      <4>1. w = <<line.key>>
        BY <3>1, CharactersOf
      <4> HIDE DEF w
      <4> QED
        BY <4>1
    <3>2. CASE line.kind = "option"
      <4>1. Len(w) = 2 + 2 * Spaces(line) + Len(line.value) /\ w[1] = line.key
        BY <1>1, <3>2, OptionChars
      <4>2. Spaces(line) \in 0..1 /\ Len(line.value) \in Nat
        BY <1>1, <3>2, ValueOf
      <4> QED
        BY <4>1, <4>2
    <3> QED
      BY <1>8, <3>1, <3>2
  <2>2. line.key \notin {"[", "]", "=", "#", "SP", "CR", "LF"}
    BY <1>1, <1>8, NamesPlain
  <2> QED
    BY <1>3, <1>4, <1>8, <2>1, <2>2
<1> QED
  BY <1>1, <1>5, <1>6, <1>7, <1>8 DEF WellFormed

-----------------------------------------------------------------------------
(* The headings: what parseSection() takes for one.                        *)
IsHeading(c, n) == /\ c # 0 /\ n >= c
                   /\ c = n - 1 \/ (c = n - 2 /\ input[n - 1] = "CR")

LEMMA HeadingFound ==
    ASSUME NEW file, IsFile(file), NEW i \in 1..Len(file.lines),
           input = TextFrom(file)[i]
    PROVE  /\ file.lines[i].kind = "section" =>
                 IsHeading(Memchr(input, "]"), LineEnd) /\ input[2] = file.lines[i].name
           /\ file.lines[i].kind \in {"open", "trailing"} =>
                 ~IsHeading(Memchr(input, "]"), LineEnd)
<1> DEFINE w == Characters(file.lines[i])
           line == file.lines[i]
           n == End(file, i)
           c == Memchr(input, "]")
<1>1. WellFormed(line) /\ file.crlf \in BOOLEAN
  BY LineOfText DEF IsFile
<1>2. /\ input \in Str /\ n \in 1..Len(input) /\ LineEnd = n
      /\ \A j \in 1..Len(w) : input[j] = w[j]
      /\ file.crlf => n = Len(w) + 2 /\ input[Len(w) + 1] = "CR"
      /\ ~file.crlf => n = Len(w) + 1
      /\ input[n] = "LF"
  <2>1. AtBeginning(file, i, w, n)
    BY AtLine
  <2> HIDE DEF w, n
  <2> QED
    BY <2>1 DEF AtBeginning
<1>3. Len(input) \in Nat
  BY <1>2 DEF Str
<1>4. /\ c \in 0..Len(input) /\ (c # 0 => input[c] = "]")
  BY <1>2, Finds
<1>5. line.kind \in {"section", "open", "trailing"} => line.name \notin {"]", "CR", "LF"}
  BY <1>1, NamesPlain
<1> HIDE DEF n
<1>6. CASE line.kind = "section"
  <2>1. w = <<"[", line.name, "]">>
    BY <1>6, CharactersOf
  <2> HIDE DEF w
  <2>2. Len(w) = 3 /\ w[1] = "[" /\ w[2] = line.name /\ w[3] = "]"
    BY <2>1
  <2>3. input[1] = "[" /\ input[2] = line.name /\ input[3] = "]"
    BY <1>2, <2>2
  <2>4. 3 \in 1..Len(input) /\ \A j \in 1..(3 - 1) : input[j] # "]"
    BY <1>1, <1>2, <1>3, <1>5, <1>6, <2>2, <2>3
  <2>5. c = 3
    BY <1>2, <2>3, <2>4, FoundAt, SMTT(30)
  <2>6. file.crlf => n = 5 /\ input[4] = "CR"
    BY <1>2, <2>2
  <2>7. ~file.crlf => n = 4
    BY <1>2, <2>2
  <2>8. IsHeading(3, n)
    BY <1>1, <2>6, <2>7 DEF IsHeading
  <2> QED
    BY <1>2, <1>6, <2>3, <2>5, <2>8
<1>7. CASE line.kind = "open"
  <2>1. w = <<"[", line.name>>
    BY <1>7, CharactersOf
  <2> HIDE DEF w
  <2>2. Len(w) = 2 /\ w[1] = "[" /\ w[2] = line.name
    BY <2>1
  <2>3. input[1] = "[" /\ input[2] = line.name
    BY <1>2, <2>2
  <2>4. file.crlf => n = 4 /\ input[3] = "CR"
    BY <1>2, <2>2
  <2>5. ~file.crlf => n = 3
    BY <1>2, <2>2
  <2>6. \A j \in 1..n : input[j] # "]"
    BY <1>1, <1>2, <1>5, <1>7, <2>3, <2>4, <2>5, SMTT(30)
  <2>7. ~IsHeading(c, n)
    BY <1>2, <1>3, <1>4, <2>6 DEF IsHeading
  <2> QED
    BY <1>2, <1>7, <2>7
<1>8. CASE line.kind = "trailing"
  <2>1. w = <<"[", line.name, "]", "0">>
    BY <1>8, CharactersOf
  <2> HIDE DEF w
  <2>2. Len(w) = 4 /\ w[1] = "[" /\ w[2] = line.name /\ w[3] = "]" /\ w[4] = "0"
    BY <2>1
  <2>3. input[1] = "[" /\ input[2] = line.name /\ input[3] = "]" /\ input[4] = "0"
    BY <1>2, <2>2
  <2>4. 3 \in 1..Len(input) /\ \A j \in 1..(3 - 1) : input[j] # "]"
    BY <1>1, <1>2, <1>3, <1>5, <1>8, <2>2, <2>3, SMTT(30)
  <2>5. c = 3
    <3>1. input \in Str /\ input[3] = "]"
      BY <1>2, <2>3
    <3> QED
      BY <3>1, <2>4, FoundAt
  <2>6. n \in {5, 6}
    <3>1. (file.crlf => n = Len(w) + 2) /\ (~file.crlf => n = Len(w) + 1) /\ Len(w) = 4
      BY <1>2, <2>2
    <3> QED
      BY <1>1, <3>1
  <2>7. ~IsHeading(3, n)
    BY <2>3, <2>6 DEF IsHeading
  <2> QED
    BY <1>2, <1>8, <2>5, <2>7
<1> QED
  BY <1>6, <1>7, <1>8

(* A key without '=': the next one, if any, is behind the end of the line. *)
LEMMA KeyAlone ==
    ASSUME NEW file, IsFile(file), NEW i \in 1..Len(file.lines),
           input = TextFrom(file)[i], file.lines[i].kind = "key"
    PROVE  /\ EqualsBehind(file, i) => EqualsMissing(Memchr(input, "="), LineEnd)
           /\ ~EqualsBehind(file, i) =>
                 Memchr(input, "=") = 0 /\ ~EqualsMissing(Memchr(input, "="), LineEnd)
<1> DEFINE w == Characters(file.lines[i])
           line == file.lines[i]
           n == End(file, i)
           c == Memchr(input, "=")
<1>1. WellFormed(line) /\ file.crlf \in BOOLEAN /\ Len(file.lines) \in Nat
  BY LineOfText DEF IsFile
<1>2. /\ input \in Str /\ n \in 1..Len(input) /\ LineEnd = n
      /\ \A j \in 1..Len(w) : input[j] = w[j]
      /\ file.crlf => n = Len(w) + 2 /\ input[Len(w) + 1] = "CR"
      /\ ~file.crlf => n = Len(w) + 1
      /\ input[n] = "LF"
  <2>1. AtBeginning(file, i, w, n)
    BY AtLine
  <2> HIDE DEF w, n
  <2> QED
    BY <2>1 DEF AtBeginning
<1>3. Len(input) \in Nat
  BY <1>2 DEF Str
<1>4. /\ c \in 0..Len(input) /\ (c # 0 => input[c] = "=")
      /\ (c = 0 => \A j \in 1..Len(input) : input[j] # "=")
  BY <1>2, Finds
<1>5. line.key \notin {"=", "CR", "LF"}
  BY <1>1, NamesPlain
<1>6. w = <<line.key>>
  BY CharactersOf
<1>7. EqualsBehind(file, i) <=> HasEquals(input)
  <2>1. i \in 1..(Len(file.lines) + 1)
    BY <1>1
  <2> QED
    BY <2>1, EqualsInText
<1> HIDE DEF n, w
<1>8. Len(w) = 1 /\ w[1] = line.key
  BY <1>6
<1>9. input[1] = line.key
  BY <1>2, <1>8
<1>10. file.crlf => n = 3 /\ input[2] = "CR"
  BY <1>2, <1>8
<1>11. ~file.crlf => n = 2
  BY <1>2, <1>8
<1>12. \A j \in 1..n : input[j] # "="
  BY <1>1, <1>2, <1>5, <1>9, <1>10, <1>11, SMTT(30)
<1>13. HasEquals(input) <=> c # 0
  <2>1. c # 0 => c \in 1..Len(input)
    BY <1>3, <1>4
  <2> QED
    BY <1>4, <2>1 DEF HasEquals
<1>14. c # 0 => n < c
  BY <1>2, <1>3, <1>4, <1>12
<1>15. c = 0 => ~(n < c)
  BY <1>2
<1> QED
  BY <1>2, <1>7, <1>13, <1>14, <1>15 DEF EqualsMissing

-----------------------------------------------------------------------------
(* The value of an option.                                                 *)

FirstPlain(t) == SelectInSeq(t, LAMBDA c : ~IsSpace(c))

LEMMA SkipsSpaces ==
    ASSUME NEW t \in Str, NEW k \in 1..Len(t), ~IsSpace(t[k]),
           \A j \in 1..(k - 1) : IsSpace(t[j])
    PROVE  FirstPlain(t) = k
<1> DEFINE I == {i \in 1..Len(t) : ~IsSpace(t[i])}
<1>1. k \in I /\ I \subseteq Nat /\ \A y \in I : k <= y
  BY DEF Str
<1>2. FirstPlain(t) = IF I # {} THEN Min(I) ELSE 0
  BY DEF FirstPlain, SelectInSeq
<1> HIDE DEF I
<1>3. Min(I) \in I /\ \A y \in I : Min(I) <= y
  BY <1>1, LeastIndex
<1>4. Min(I) = k
  <2>1. Min(I) \in Nat /\ k \in Nat /\ Min(I) <= k /\ k <= Min(I)
    BY <1>1, <1>3
  <2> QED
    BY <2>1
<1> QED
  BY <1>1, <1>2, <1>4

LEMMA OnlySpaces ==
    ASSUME NEW t \in Str, \A j \in 1..Len(t) : IsSpace(t[j])
    PROVE  FirstPlain(t) = 0
  BY DEF FirstPlain, SelectInSeq

(* What is between '=' and the newline: white space, the value and perhaps *)
(* a '\r'.                                                                 *)
LEMMA PlainValue ==
    ASSUME NEW t \in Str, NEW v \in Str, NEW p \in 0..1, NEW q \in 0..1,
           Len(t) = p + Len(v) + q,
           p = 1 => t[1] = "SP",
           \A j \in 1..Len(v) : t[p + j] = v[j],
           q = 1 => t[p + Len(v) + 1] = "CR",
           \A j \in 1..Len(v) : v[j] \notin {"CR", "LF"},
           v # <<>> => v[1] # "SP"
    PROVE  LET text == IF FirstPlain(t) = 0 THEN <<>>
                       ELSE SubSeq(t, FirstPlain(t), Len(t))
           IN  Value(text) = v /\ (text = <<>> <=> v = <<>>)
<1> DEFINE f == FirstPlain(t)
           text == IF f = 0 THEN <<>> ELSE SubSeq(t, f, Len(t))
<1>0. t \in Seq(Char) /\ v \in Seq(Char) /\ Len(v) \in Nat /\ Len(t) \in Nat
  BY DEF Str
<1>1. CASE v = <<>>
  <2>0. Len(v) = 0
    BY <1>1, EmptyText
  <2>1. \A j \in 1..Len(t) : IsSpace(t[j])
    <3> SUFFICES ASSUME NEW j \in 1..Len(t) PROVE IsSpace(t[j])
      OBVIOUS
    <3>1. CASE j = 1 /\ p = 1
      BY <3>1 DEF IsSpace
    <3>2. CASE j = p + 1 /\ q = 1
      <4>1. j = p + Len(v) + 1
        BY <2>0, <3>2
      <4> QED
        BY <3>2, <4>1 DEF IsSpace
    <3> QED
      BY <2>0, <3>1, <3>2
  <2>2. f = 0
    BY <2>1, OnlySpaces
  <2>3. text = <<>>
    BY <2>2
  <2>4. Value(<<>>) = <<>>
    BY DEF Value
  <2> QED
    BY <1>1, <2>3, <2>4
<1>2. CASE v # <<>>
  <2>1. Len(v) >= 1
    BY <1>0, <1>2
  <2>2. t[p + 1] = v[1] /\ ~IsSpace(v[1]) /\ p + 1 \in 1..Len(t)
    BY <1>0, <1>2, <2>1 DEF IsSpace
  <2>3. \A j \in 1..((p + 1) - 1) : IsSpace(t[j])
    BY DEF IsSpace
  <2>4. f = p + 1
    BY <2>2, <2>3, SkipsSpaces
  <2>5. text = SubSeq(t, p + 1, Len(t))
    BY <2>4
  <2> HIDE DEF text
  <2>6. /\ text \in Seq(Char) /\ Len(text) = Len(v) + q
        /\ \A j \in 1..(Len(v) + q) : text[j] = t[p + j]
    BY <1>0, <2>1, <2>5
  <2>7. /\ \A j \in 1..Len(v) : text[j] = v[j]
        /\ q = 1 => text[Len(v) + 1] = "CR"
    BY <1>0, <2>6, SMTT(30)
  <2>8. text # <<>>
    <3>1. Len(text) # 0
      BY <1>0, <2>1, <2>6
    <3> QED
      BY <3>1, EmptyText
  <2>9. ASSUME q = 0 PROVE Value(text) = v
    <3>1. text = v
      <4>1. Len(text) = Len(v)
        BY <1>0, <2>6, <2>9
      <4>2. text \in Seq(Char)
        BY <2>6
      <4> QED
        BY <1>0, <2>7, <4>1, <4>2
    <3>2. Last(v) # "CR"
      BY <1>0, <2>1 DEF Last
    <3> QED
      BY <1>2, <3>1, <3>2 DEF Value
  <2>10. ASSUME q = 1 PROVE Value(text) = v
    <3>1. Last(text) = "CR"
      <4>1. Len(text) = Len(v) + 1
        BY <2>6, <2>10
      <4> QED
        BY <2>7, <2>10, <4>1 DEF Last
    <3>2. Front(text) = v
      <4>0. text \in Seq(Char) /\ Len(text) = Len(v) + 1 /\ Len(text) - 1 = Len(v)
        BY <1>0, <2>6, <2>10
      <4> DEFINE h == SubSeq(text, 1, Len(v))
      <4>1. Front(text) = h
        BY <4>0 DEF Front
      <4>2. h \in Seq(Char) /\ Len(h) = Len(v) /\ \A j \in 1..Len(v) : h[j] = text[j]
        BY <1>0, <4>0
      <4> HIDE DEF h
      <4>3. h = v
        BY <1>0, <2>7, <4>2
      <4> QED
        BY <4>1, <4>3
    <3> QED
      BY <1>2, <2>8, <3>1, <3>2 DEF Value
  <2>11. Value(text) = v /\ (text = <<>> <=> v = <<>>)
    BY <1>2, <2>8, <2>9, <2>10
  <2> QED
    BY <2>11, Zenon DEF text
<1> QED
  BY <1>1, <1>2

LEMMA OptionFound ==
    ASSUME NEW file, IsFile(file), NEW i \in 1..Len(file.lines),
           input = TextFrom(file)[i], file.lines[i].kind = "option"
    PROVE  /\ Memchr(input, "=") # 0
           /\ ~EqualsMissing(Memchr(input, "="), LineEnd)
           /\ Value(Text(Memchr(input, "="), LineEnd)) = file.lines[i].value
           /\ Wraps(Memchr(input, "="), LineEnd) <=> WrapsAround(file, i)
<1> DEFINE w == Characters(file.lines[i])
           line == file.lines[i]
           n == End(file, i)
           v == line.value
           p == Spaces(line)
           q == IF file.crlf THEN 1 ELSE 0
<1>1. WellFormed(line) /\ file.crlf \in BOOLEAN
  BY LineOfText DEF IsFile
<1>2. AtBeginning(file, i, w, n)
  BY AtLine
<1>3. /\ w \in Str /\ Len(w) = 2 + 2 * p + Len(v)
      /\ w[1] = line.key /\ w[2 + p] = "="
      /\ p = 1 => w[2] = "SP" /\ w[4] = "SP"
      /\ \A j \in 1..Len(v) : w[2 + 2 * p + j] = v[j]
  BY <1>1, OptionChars
<1>4. /\ v \in Str /\ Len(v) \in Nat /\ p \in 0..1
      /\ \A j \in 1..Len(v) : v[j] \notin {"CR", "LF"}
      /\ v # <<>> => v[1] # "SP"
      /\ v = <<>> <=> Len(v) = 0
  BY <1>1, ValueOf
<1>5. line.key # "="
  BY <1>1, NamesPlain
<1>6. WrapsAround(file, i) <=> v = <<>> /\ file.crlf
  BY DEF WrapsAround
<1> HIDE DEF w, n, v, p
<1>7. /\ input \in Str /\ n \in 1..Len(input) /\ LineEnd = n
      /\ \A j \in 1..Len(w) : input[j] = w[j]
      /\ file.crlf => n = Len(w) + 2 /\ input[Len(w) + 1] = "CR"
      /\ ~file.crlf => n = Len(w) + 1
  BY <1>2 DEF AtBeginning
<1>8. q \in 0..1 /\ n = 2 + 2 * p + Len(v) + 1 + q /\ (q = 1 <=> file.crlf)
      /\ (q = 1 => input[2 + 2 * p + Len(v) + 1] = "CR")
  <2>1. CASE file.crlf
    BY <1>3, <1>4, <1>7, <2>1
  <2>2. CASE ~file.crlf
    BY <1>3, <1>4, <1>7, <2>2
  <2> QED
    BY <1>1, <2>1, <2>2
<1>9. Len(input) \in Nat /\ input \in Seq(Char)
  BY <1>7 DEF Str
<1> HIDE DEF q
<1>10. Memchr(input, "=") = 2 + p
  <2>1. 2 + p \in 1..Len(w) /\ 2 + p \in 1..Len(input)
    BY <1>3, <1>4, <1>7, <1>8, <1>9
  <2>2. input[2 + p] = "="
    BY <1>3, <1>7, <2>1
  <2>3. \A j \in 1..((2 + p) - 1) : input[j] # "="
    <3>1. input[1] = line.key /\ (p = 1 => input[2] = "SP")
      BY <1>3, <1>4, <1>7
    <3> QED
      BY <1>4, <1>5, <3>1
  <2>4. input \in Str
    BY <1>7
  <2> QED
    BY <2>1, <2>2, <2>3, <2>4, FoundAt
<1>11. ~EqualsMissing(2 + p, n) /\ 2 + p # 0
  BY <1>4, <1>8 DEF EqualsMissing
<1> DEFINE rest == SubSeq(input, (2 + p) + 1, n - 1)
           f == FirstPlain(rest)
           text == IF f = 0 THEN <<>> ELSE SubSeq(rest, f, Len(rest))
<1>12. Text(2 + p, n) = text
  BY Zenon DEF Text, FirstPlain
<1>13. /\ rest \in Seq(Char) /\ Len(rest) = p + Len(v) + q
       /\ \A j \in 1..(p + Len(v) + q) : rest[j] = input[2 + p + j]
  BY <1>4, <1>7, <1>8, <1>9
<1> HIDE DEF rest
<1>14. p = 1 => rest[1] = "SP"
  <2> SUFFICES ASSUME p = 1 PROVE rest[1] = "SP"
    OBVIOUS
  <2>1. rest[1] = input[4] /\ input[4] = w[4]
    BY <1>3, <1>4, <1>7, <1>8, <1>13
  <2> QED
    BY <1>3, <2>1
<1>15. \A j \in 1..Len(v) : rest[p + j] = v[j]
  <2> SUFFICES ASSUME NEW j \in 1..Len(v) PROVE rest[p + j] = v[j]
    OBVIOUS
  <2>1. /\ p + j \in 1..(p + Len(v) + q) /\ 2 + p + (p + j) = 2 + 2 * p + j
        /\ 2 + 2 * p + j \in 1..Len(w)
    BY <1>3, <1>4, <1>8
  <2>2. rest[p + j] = input[2 + p + (p + j)]
    BY <1>13, <2>1, Zenon
  <2>3. input[2 + 2 * p + j] = w[2 + 2 * p + j]
    BY <1>7, <2>1, Zenon
  <2>4. w[2 + 2 * p + j] = v[j]
    BY <1>3, Zenon
  <2> QED
    BY <2>1, <2>2, <2>3, <2>4, Zenon
<1>16. q = 1 => rest[p + Len(v) + 1] = "CR"
  <2> SUFFICES ASSUME q = 1 PROVE rest[p + Len(v) + 1] = "CR"
    OBVIOUS
  <2>1. p + Len(v) + 1 \in 1..(p + Len(v) + q)
        /\ 2 + p + (p + Len(v) + 1) = 2 + 2 * p + Len(v) + 1
    BY <1>4, <1>8
  <2> QED
    BY <1>8, <1>13, <2>1
<1>17. Value(text) = v /\ (text = <<>> <=> v = <<>>)
  <2>1. rest \in Str /\ v \in Str /\ p \in 0..1 /\ q \in 0..1
    BY <1>4, <1>8, <1>13 DEF Str
  <2> QED
    BY <1>4, <1>13, <1>14, <1>15, <1>16, <2>1, PlainValue
<1> HIDE DEF text
<1>18. Wraps(2 + p, n) <=> v = <<>> /\ file.crlf
  <2>1. Wraps(2 + p, n) <=> v = <<>> /\ n > (2 + p) + 1 /\ input[n - 1] = "CR"
    BY <1>12, <1>17 DEF Wraps
  <2>2. CASE file.crlf /\ v = <<>>
    <3>1. n - 1 = 2 + 2 * p + Len(v) + 1 /\ n > (2 + p) + 1
      BY <1>4, <1>8, <2>2
    <3> QED
      BY <1>8, <2>1, <2>2, <3>1
  <2>3. CASE ~file.crlf /\ v = <<>>
    <3>1. n - 1 = 2 + 2 * p /\ Len(w) = 2 + 2 * p
      BY <1>3, <1>4, <1>8, <2>3
    <3>2. CASE p = 0
      <4>1. ~(n > (2 + p) + 1)
        BY <1>4, <3>1, <3>2, <1>8
      <4> QED
        BY <2>1, <2>3, <4>1
    <3>3. CASE p = 1
      <4>1. n - 1 = 4 /\ input[4] = "SP"
        BY <1>3, <1>7, <3>1, <3>3
      <4> QED
        BY <2>1, <2>3, <4>1
    <3> QED
      BY <1>4, <3>2, <3>3
  <2> QED
    BY <1>1, <2>1, <2>2, <2>3
<1>19. /\ Value(Text(2 + p, n)) = v
  BY <1>12, <1>17
<1> QED
  BY <1>6, <1>7, <1>10, <1>11, <1>18, <1>19 DEF v

-----------------------------------------------------------------------------
(* What the lines say does not change while the sections stay registered.  *)

LEMMA MeaningStays ==
    ASSUME sections' = sections, program' = program,
           NEW file, NEW s, NEW i
    PROVE  Meaning(file, s, i)' = Meaning(file, s, i)
<1>1. \A x : Registered(x)' <=> Registered(x)
  BY DEF Registered
<1>2. \A x, y : HasOption(x, y)' <=> HasOption(x, y)
  BY DEF HasOption
<1>3. onErrorUseDefault' <=> onErrorUseDefault
  BY DEF onErrorUseDefault
<1>4. \A o, line : LineAssigns(o, line)' = LineAssigns(o, line)
  <2> TAKE o, line
  <2> QED
    BY <1>3, Zenon DEF LineAssigns, Assigned, onErrorUseDefault
<1> QED
  BY <1>1, <1>2, <1>3, <1>4, Zenon DEF Meaning

AllReadings ==
    \A file, o : Len(file.lines) \in Nat =>
        /\ Readings(file, o)[0] = [opts |-> o, section |-> "none", status |-> "read"]
        /\ \A i \in 1..Len(file.lines) : \A s :
              Readings(file, o)[i - 1] = s => Readings(file, o)[i] = Meaning(file, s, i)

LEMMA ReadingsAll == AllReadings
  BY ReadingOf DEF AllReadings

LEMMA ReadingsNext == AllReadings'
  BY ReadingsAll, PTL

LEMMA ReadingsStay ==
    ASSUME sections' = sections, program' = program,
           NEW file, NEW o, Len(file.lines) \in Nat, NEW i \in 0..Len(file.lines)
    PROVE  Readings(file, o)'[i] = Readings(file, o)[i]
<1> DEFINE n == Len(file.lines)
<1>0. PICK f, g : f = Readings(file, o) /\ g = Readings(file, o)'
  OBVIOUS
<1> DEFINE T == {k \in 0..n : g[k] # f[k]}
<1>1. f[0] = g[0]
  <2>1. f[0] = [opts |-> o, section |-> "none", status |-> "read"]
    BY <1>0, ReadingsAll, Zenon DEF AllReadings
  <2>2. g[0] = [opts |-> o, section |-> "none", status |-> "read"]
    BY <1>0, ReadingsNext, Zenon DEF AllReadings
  <2> QED
    BY <2>1, <2>2, Zenon
<1>2. \A k \in 1..n : f[k] = Meaning(file, f[k - 1], k)
  BY <1>0, ReadingsAll, Zenon DEF AllReadings
<1>3. \A k \in 1..n : \A s : g[k - 1] = s => g[k] = Meaning(file, s, k)'
  BY <1>0, ReadingsNext, Zenon DEF AllReadings
<1>4. \A k \in 1..n : g[k] = Meaning(file, g[k - 1], k)
  <2>1. \A k, s : Meaning(file, s, k)' = Meaning(file, s, k)
    BY MeaningStays
  <2> QED
    BY <1>3, <2>1, Zenon
<1>5. ASSUME T # {} PROVE FALSE
  <2>1. PICK k \in T : \A y \in T : k <= y
    <3>1. T \subseteq Nat
      OBVIOUS
    <3> HIDE DEF T
    <3>2. Min(T) \in T /\ \A y \in T : Min(T) <= y
      BY <1>5, <3>1, LeastIndex
    <3> QED
      BY <3>2
  <2>2. k # 0
    BY <1>1, <2>1
  <2>3. k \in 1..n /\ k - 1 \in 0..n /\ k - 1 \notin T
    BY <2>1, <2>2
  <2>4. g[k - 1] = f[k - 1]
    BY <2>3
  <2> QED
    BY <1>2, <1>4, <2>1, <2>3, <2>4
<1> QED
  BY <1>0, <1>5

-----------------------------------------------------------------------------
(* The parser between two lines of a file that was opened with the options *)
(* b: it did what the lines before say.  A '\r' of its own may have been   *)
(* skipped without its newline.                                            *)

SectionIn == IF sectionState = "VALID" THEN sectionName ELSE "none"

Consumed(file, b, i) ==
    /\ Readings(file, b)[i] = Result(Current, SectionIn, "read")
    /\ \/ input = TextFrom(file)[i + 1]
       \/ input = <<"LF">> \o TextFrom(file)[i + 1]

Outcome == IF pc = "crashed" THEN "crashed" ELSE IF success THEN "read" ELSE "failed"

Progress(file, b) ==
    /\ pc = "parse" => \E i \in 0..Len(file.lines) : Consumed(file, b, i)
    /\ pc \in {"closed", "crashed"} =>
          \E sec : Readings(file, b)[Len(file.lines)] = Result(Current, sec, Outcome)

LEMMA Moves ==
    ASSUME sections' = sections, program' = program, NEW file, IsFile(file), NEW b,
           NEW j \in 0..Len(file.lines), pc' = "parse",
           Readings(file, b)[j] = Result(Current', SectionIn', "read"),
           \/ input' = TextFrom(file)[j + 1]
           \/ input' = <<"LF">> \o TextFrom(file)[j + 1]
    PROVE  Progress(file, b)'
<1>1. Len(file.lines) \in Nat
  BY DEF IsFile
<1>2. Readings(file, b)'[j] = Readings(file, b)[j]
  BY <1>1, ReadingsStay
<1>3. Consumed(file, b, j)'
  BY <1>2, Zenon DEF Consumed
<1> QED
  BY <1>3, Zenon DEF Progress

LEMMA Ends ==
    ASSUME sections' = sections, program' = program, NEW file, IsFile(file), NEW b,
           NEW j \in 0..Len(file.lines), NEW sec, pc' \in {"closed", "crashed"},
           Readings(file, b)[j] = Result(Current', sec, Outcome'),
           j = Len(file.lines) \/ Outcome' # "read"
    PROVE  Progress(file, b)'
<1> DEFINE n == Len(file.lines)
<1>1. n \in Nat /\ n \in 0..n
  BY DEF IsFile
<1>2. Readings(file, b)[n] = Result(Current', sec, Outcome')
  <2>1. CASE j = n
    BY <2>1
  <2>2. CASE Outcome' # "read"
    <3>1. PICK o, x : o = Current' /\ x = Outcome'
      OBVIOUS
    <3>2. Reading(file, b) = Result(o, sec, x)
      BY <1>1, <2>2, <3>1, Final
    <3> QED
      BY <3>1, <3>2 DEF Reading
  <2> QED
    BY <2>1, <2>2
<1>3. Readings(file, b)'[n] = Readings(file, b)[n]
  BY <1>1, ReadingsStay
<1> QED
  BY <1>2, <1>3, Zenon DEF Progress

LEMMA Where ==
    ASSUME NEW file, IsFile(file), NEW b, NEW i \in 0..Len(file.lines),
           Consumed(file, b, i)
    PROVE  \/ input = <<>> /\ i = Len(file.lines)
           \/ /\ i + 1 \in 1..Len(file.lines) /\ input = TextFrom(file)[i + 1]
              /\ Readings(file, b)[i + 1] =
                    Meaning(file, Result(Current, SectionIn, "read"), i + 1)
           \/ /\ input # <<>> /\ input[1] = "LF"
              /\ input = <<"LF">> \o TextFrom(file)[i + 1]
              /\ SubSeq(input, 2, Len(input)) = TextFrom(file)[i + 1]
<1>1. Len(file.lines) \in Nat /\ i + 1 \in 1..(Len(file.lines) + 1)
  BY DEF IsFile
<1>2. CASE input = TextFrom(file)[i + 1] /\ i = Len(file.lines)
  <2>1. i + 1 = Len(file.lines) + 1
    BY <1>2
  <2>2. TextFrom(file)[i + 1] = <<>>
    BY <1>1, <2>1, TextOf
  <2> QED
    BY <1>2, <2>2
<1>3. CASE input = TextFrom(file)[i + 1] /\ i # Len(file.lines)
  <2>1. i + 1 \in 1..Len(file.lines) /\ (i + 1) - 1 = i
    BY <1>1, <1>3
  <2>2. Readings(file, b)[i + 1] = Meaning(file, Readings(file, b)[(i + 1) - 1], i + 1)
    BY <1>1, <2>1, ReadingOf
  <2>3. Readings(file, b)[(i + 1) - 1] = Result(Current, SectionIn, "read")
    BY <2>1 DEF Consumed
  <2> QED
    BY <1>3, <2>1, <2>2, <2>3
<1>4. CASE input = <<"LF">> \o TextFrom(file)[i + 1]
  <2> DEFINE r == TextFrom(file)[i + 1]
             t == <<"LF">> \o r
  <2>1. r \in Str
    BY <1>1, TextTyped
  <2> HIDE DEF r
  <2>2. r \in Seq(Char) /\ "LF" \in Char
    BY <2>1, Letters DEF Str
  <2>3. t \in Seq(Char) /\ Len(t) = 1 + Len(r) /\ t[1] = "LF"
        /\ \A j \in 1..Len(r) : t[j + 1] = r[j]
    BY <2>2
  <2>4. t # <<>>
    BY <2>2
  <2>5. SubSeq(t, 2, Len(t)) = r
    BY <2>2
  <2> QED
    BY <1>4, <2>3, <2>4, <2>5 DEF r
<1> QED
  BY <1>2, <1>3, <1>4 DEF Consumed

(* Only names of sections are registered.                                  *)
LEMMA NoSection ==
    ASSUME sections \in Seq(Sections)
    PROVE  ~Registered("none") /\ \A k : ~HasOption("none", k)
<1>1. \A j \in 1..Len(sections) : SectionName[sections[j]] # "none"
  BY DEF Sections, SectionName
<1> QED
  BY <1>1 DEF Registered, HasOption

-----------------------------------------------------------------------------
(* The steps of the parser.                                                *)

LEMMA CurrentStays == ASSUME val' = val, hasSerial' = hasSerial PROVE Current' = Current
  BY DEF Current

LEMMA RestOfText ==
    ASSUME NEW t \in Str, NEW m \in 0..Len(t)
    PROVE  /\ SubSeq(t, m + 1, Len(t)) \in Str
           /\ Len(SubSeq(t, m + 1, Len(t))) = Len(t) - m
           /\ \A j \in 1..(Len(t) - m) : SubSeq(t, m + 1, Len(t))[j] = t[m + j]
  BY DEF Str

LEMMA CommentParsed ==
    ASSUME NEW file, IsFile(file), NEW b, NEW i \in 0..Len(file.lines),
           Consumed(file, b, i), skipComment
    PROVE  Progress(file, b)'
<1> DEFINE k == i + 1
<1>1. /\ sections' = sections /\ program' = program /\ pc' = "parse"
      /\ val' = val /\ hasSerial' = hasSerial /\ sectionState' = sectionState
      /\ sectionName' = sectionName /\ input # <<>> /\ input[1] = "#"
      /\ input' = SubSeq(input, LineEnd + 1, Len(input))
  BY DEF skipComment, Parsing, Advance, environment
<1>2. /\ k \in 1..Len(file.lines) /\ input = TextFrom(file)[k]
      /\ Readings(file, b)[k] = Meaning(file, Result(Current, SectionIn, "read"), k)
  BY <1>1, Where
<1>3. Len(file.lines) \in Nat /\ k \in 0..Len(file.lines)
  BY <1>2 DEF IsFile
<1> HIDE DEF k
<1>4. file.lines[k].kind = "comment"
  BY <1>1, <1>2, FirstCharacter
<1>5. Readings(file, b)[k] = Result(Current, SectionIn, "read")
  BY <1>2, <1>4, MeaningOfOthers
<1>6. input' = TextFrom(file)[k + 1]
  <2>1. AtBeginning(file, k, Characters(file.lines[k]), End(file, k))
    BY <1>2, AtLine, Zenon
  <2>2. LineEnd = End(file, k) /\ SubSeq(input, End(file, k) + 1, Len(input)) = TextFrom(file)[k + 1]
    BY <2>1, Zenon DEF AtBeginning
  <2> QED
    BY <1>1, <2>2, Zenon
<1>7. Current' = Current /\ SectionIn' = SectionIn
  BY <1>1, CurrentStays DEF SectionIn
<1> QED
  BY <1>1, <1>3, <1>5, <1>6, <1>7, Moves

LEMMA NewlineParsed ==
    ASSUME NEW file, IsFile(file), NEW b, NEW i \in 0..Len(file.lines),
           Consumed(file, b, i), skipNewline
    PROVE  Progress(file, b)'
<1> DEFINE k == i + 1
<1>1. /\ sections' = sections /\ program' = program /\ pc' = "parse"
      /\ val' = val /\ hasSerial' = hasSerial /\ sectionState' = sectionState
      /\ sectionName' = sectionName /\ input # <<>> /\ input[1] \in {"CR", "LF"}
      /\ input' = SubSeq(input, 2, Len(input))
  BY DEF skipNewline, Parsing, Advance, environment
<1>2. Current' = Current /\ SectionIn' = SectionIn
  BY <1>1, CurrentStays DEF SectionIn
<1>3. CASE /\ k \in 1..Len(file.lines) /\ input = TextFrom(file)[k]
           /\ Readings(file, b)[k] = Meaning(file, Result(Current, SectionIn, "read"), k)
  <2>1. Len(file.lines) \in Nat /\ k \in 0..Len(file.lines) /\ file.crlf \in BOOLEAN
    BY <1>3 DEF IsFile
  <2> HIDE DEF k
  <2>2. file.lines[k].kind = "empty"
    BY <1>1, <1>3, FirstCharacter
  <2>3. Readings(file, b)[k] = Result(Current, SectionIn, "read")
    BY <1>3, <2>2, MeaningOfOthers
  <2> DEFINE w == Characters(file.lines[k])
             n == End(file, k)
             r == TextFrom(file)[k + 1]
  <2>4. AtBeginning(file, k, w, n)
    BY <1>3, AtLine
  <2>5. Len(w) = 0
    BY <2>2, CharactersOf, EmptyText
  <2>6. r \in Str
    BY <1>3, LineOfText
  <2> HIDE DEF w, n
  <2>7. /\ input \in Str /\ n \in 1..Len(input) /\ SubSeq(input, n + 1, Len(input)) = r
        /\ file.crlf => n = 2 /\ input[2] = "LF"
        /\ ~file.crlf => n = 1
    BY <2>4, <2>5 DEF AtBeginning
  <2>8. CASE ~file.crlf
    <3>1. input' = r
      BY <1>1, <2>7, <2>8
    <3> QED
      BY <1>1, <1>2, <2>1, <2>3, <3>1, Moves
  <2>9. CASE file.crlf
    <3>1. SubSeq(input, 2, Len(input)) = <<"LF">> \o r
      <4>1. input \in Seq(Char) /\ Len(input) \in Nat /\ Len(input) >= 2 /\ input[2] = "LF"
        BY <2>7, <2>9 DEF Str
      <4>2. SubSeq(input, 3, Len(input)) = r
        <5>1. n + 1 = 3
          BY <2>7, <2>9
        <5> QED
          BY <2>7, <5>1, Zenon
      <4> HIDE DEF r
      <4> DEFINE s == SubSeq(input, 3, Len(input))
                 t == SubSeq(input, 2, Len(input))
                 u == <<"LF">> \o s
      <4>3. /\ s \in Seq(Char) /\ Len(s) = Len(input) - 2
            /\ \A j \in 1..(Len(input) - 2) : s[j] = input[j + 2]
        <5>1. input \in Str /\ 2 \in 0..Len(input) /\ 2 + 1 = 3
          BY <2>7, <4>1
        <5>2. /\ SubSeq(input, 2 + 1, Len(input)) \in Str
              /\ Len(SubSeq(input, 2 + 1, Len(input))) = Len(input) - 2
              /\ \A j \in 1..(Len(input) - 2) : SubSeq(input, 2 + 1, Len(input))[j] = input[2 + j]
          BY <5>1, RestOfText, Zenon
        <5>3. \A j \in 1..(Len(input) - 2) : 2 + j = j + 2
          BY <4>1
        <5>4. /\ s \in Str /\ Len(s) = Len(input) - 2
              /\ \A j \in 1..(Len(input) - 2) : s[j] = input[2 + j]
          BY <5>1, <5>2, Zenon
        <5> QED
          BY <5>3, <5>4, Zenon DEF Str
      <4>4. /\ t \in Seq(Char) /\ Len(t) = Len(input) - 1
            /\ \A j \in 1..(Len(input) - 1) : t[j] = input[j + 1]
        BY <4>1
      <4> HIDE DEF s, t
      <4>5. s \in Seq(Char) /\ "LF" \in Char
        BY <4>3, Letters
      <4>6. /\ u \in Seq(Char) /\ Len(u) = Len(s) + 1 /\ u[1] = "LF"
            /\ \A j \in 1..Len(s) : u[j + 1] = s[j]
        BY <4>5
      <4> HIDE DEF u
      <4>7. \A j \in 1..(Len(input) - 1) : t[j] = u[j]
        <5> SUFFICES ASSUME NEW j \in 1..(Len(input) - 1) PROVE t[j] = u[j]
          OBVIOUS
        <5>1. CASE j = 1
          BY <4>1, <4>4, <4>6, <5>1
        <5>2. CASE j # 1
          <6>1. j - 1 \in 1..(Len(input) - 2) /\ (j - 1) + 1 = j /\ (j - 1) + 2 = j + 1
            BY <4>1, <5>2
          <6>2. u[j] = s[j - 1] /\ s[j - 1] = input[j + 1]
            BY <4>3, <4>6, <6>1
          <6> QED
            BY <4>4, <6>2
        <5> QED
          BY <5>1, <5>2
      <4>8. Len(t) = Len(u)
        BY <4>1, <4>3, <4>4, <4>6
      <4>9. t = u
        BY <4>4, <4>6, <4>7, <4>8
      <4> QED
        BY <4>2, <4>9 DEF s, t, u
    <3>2. input' = <<"LF">> \o r
      BY <1>1, <3>1
    <3> QED
      BY <1>1, <1>2, <2>1, <2>3, <3>2, Moves
  <2> QED
    BY <2>1, <2>8, <2>9
<1>4. CASE SubSeq(input, 2, Len(input)) = TextFrom(file)[k]
  <2>1. input' = TextFrom(file)[i + 1]
    BY <1>1, <1>4
  <2>2. Readings(file, b)[i] = Result(Current, SectionIn, "read")
    BY DEF Consumed
  <2> QED
    BY <1>1, <1>2, <2>1, <2>2, Moves
<1> QED
  BY <1>1, <1>3, <1>4, Where

LEMMA EndParsed ==
    ASSUME NEW file, IsFile(file), NEW b, NEW i \in 0..Len(file.lines),
           Consumed(file, b, i), parsed
    PROVE  Progress(file, b)'
<1>1. /\ sections' = sections /\ program' = program /\ pc' = "closed" /\ success'
      /\ val' = val /\ hasSerial' = hasSerial /\ input = <<>>
  BY DEF parsed, environment
<1>2. i = Len(file.lines)
  <2>1. ASSUME i + 1 \in 1..Len(file.lines), input = TextFrom(file)[i + 1] PROVE FALSE
    BY <1>1, <2>1, FirstCharacter
  <2> QED
    BY <1>1, <2>1, Where
<1>3. Current' = Current /\ Outcome' = "read"
  BY <1>1, CurrentStays DEF Outcome
<1>4. Readings(file, b)[i] = Result(Current', SectionIn, "read")
  BY <1>3 DEF Consumed
<1> QED
  BY <1>1, <1>2, <1>3, <1>4, Ends

LEMMA HeadingParsed ==
    ASSUME NEW file, IsFile(file), NEW b, NEW i \in 0..Len(file.lines),
           Consumed(file, b, i), parseSection
    PROVE  Progress(file, b)'
<1> DEFINE k == i + 1
<1>1. /\ sections' = sections /\ program' = program
      /\ val' = val /\ hasSerial' = hasSerial /\ input # <<>> /\ input[1] = "["
      /\ IsHeading(Memchr(input, "]"), LineEnd) =>
            /\ input' = SubSeq(input, LineEnd + 1, Len(input)) /\ pc' = "parse"
            /\ sectionState' = IF Registered(input[2]) THEN "VALID" ELSE "UNKNOWN"
            /\ sectionName' = IF Registered(input[2]) THEN input[2] ELSE sectionName
      /\ ~IsHeading(Memchr(input, "]"), LineEnd) => pc' = "closed" /\ ~success'
  BY Zenon DEF parseSection, Parsing, Advance, environment, IsHeading
<1>2. /\ k \in 1..Len(file.lines) /\ input = TextFrom(file)[k]
      /\ Readings(file, b)[k] = Meaning(file, Result(Current, SectionIn, "read"), k)
  BY <1>1, Where
<1>3. Len(file.lines) \in Nat /\ k \in 0..Len(file.lines)
  BY <1>2 DEF IsFile
<1> HIDE DEF k
<1>4. file.lines[k].kind \in {"section", "open", "trailing"}
  BY <1>1, <1>2, FirstCharacter
<1>5. Current' = Current
  BY <1>1, CurrentStays
<1>6. CASE file.lines[k].kind = "section"
  <2>1. IsHeading(Memchr(input, "]"), LineEnd) /\ input[2] = file.lines[k].name
    BY <1>2, <1>6, HeadingFound
  <2> DEFINE sec == IF Registered(file.lines[k].name) THEN file.lines[k].name ELSE "none"
  <2>2. Readings(file, b)[k] = Result(Current, sec, "read")
    <3>1. PICK o, s : o = Current /\ s = SectionIn
      OBVIOUS
    <3>2. Meaning(file, Result(o, s, "read"), k) = Result(o, sec, "read")
      BY <1>6, MeaningOfOthers
    <3> QED
      BY <1>2, <3>1, <3>2, Zenon
  <2>3. SectionIn' = sec
    BY <1>1, <2>1 DEF SectionIn
  <2>4. input' = TextFrom(file)[k + 1]
    <3>1. LineEnd = End(file, k) /\ SubSeq(input, End(file, k) + 1, Len(input)) = TextFrom(file)[k + 1]
      BY <1>2, AtLine DEF AtBeginning
    <3> QED
      BY <1>1, <2>1, <3>1, Zenon
  <2> QED
    BY <1>1, <1>3, <1>5, <2>1, <2>2, <2>3, <2>4, Moves
<1>7. CASE file.lines[k].kind \in {"open", "trailing"}
  <2>1. ~IsHeading(Memchr(input, "]"), LineEnd)
    BY <1>2, <1>7, HeadingFound
  <2>2. Readings(file, b)[k] = Result(Current, SectionIn, "failed")
    BY <1>2, <1>7, MeaningOfOthers
  <2>3. pc' = "closed" /\ Outcome' = "failed"
    BY <1>1, <2>1 DEF Outcome
  <2> QED
    BY <1>1, <1>3, <1>5, <2>2, <2>3, Ends
<1> QED
  BY <1>4, <1>6, <1>7

(* An option is set to its value or its default.                           *)
LEMMA AssignedWhole ==
    ASSUME NEW key, NEW v, Assign(Assigned(Current, key, v, TRUE))
    PROVE  Current' = Assigned(Current, key, v, TRUE)
<1>1. CASE v # <<>> /\ Parses(Type[key], v)
  <2>1. Assigned(Current, key, v, TRUE) =
            [val |-> [val EXCEPT ![key] = Parsed(Type[key], v)],
             hasSerial |-> hasSerial \/ key = "serial"]
    BY <1>1, Zenon DEF Assigned, Current
  <2>2. val' = [val EXCEPT ![key] = Parsed(Type[key], v)]
        /\ hasSerial' = (hasSerial \/ key = "serial")
    BY <1>1, Zenon DEF Assign, Assigned, Current
  <2> QED
    BY <2>1, <2>2, Zenon DEF Current
<1>2. CASE ~(v # <<>> /\ Parses(Type[key], v))
  <2>1. Assigned(Current, key, v, TRUE) =
            [val |-> [val EXCEPT ![key] = Default[key]],
             hasSerial |-> hasSerial /\ key # "serial"]
    BY <1>2, Zenon DEF Assigned, Current
  <2>2. val' = [val EXCEPT ![key] = Default[key]]
        /\ hasSerial' = (hasSerial /\ key # "serial")
    BY <1>2, Zenon DEF Assign, Assigned, Current
  <2> QED
    BY <2>1, <2>2, Zenon DEF Current
<1> QED
  BY <1>1, <1>2

AssignsTo(o, key, v) == Assigned(o, key, v, TRUE)

LEMMA LineAssigned ==
    ASSUME NEW o, NEW line
    PROVE  /\ (line.value # <<>> /\ ~Parses(Type[line.key], line.value) /\ ~onErrorUseDefault)
                 => LineAssigns(o, line) = o
           /\ (line.value = <<>> \/ Parses(Type[line.key], line.value) \/ onErrorUseDefault)
                 => LineAssigns(o, line) = AssignsTo(o, line.key, line.value)
  BY Zenon DEF LineAssigns, Assigned, AssignsTo

(* The cases of parseOption(): the line is ignored, it crashes the         *)
(* program, its value is refused, or the option is assigned.               *)
Known == sectionState = "VALID" /\ HasOption(sectionName, input[1])
LineValue == Value(Text(Memchr(input, "="), LineEnd))
LineWraps == Wraps(Memchr(input, "="), LineEnd)
NoEquals == EqualsMissing(Memchr(input, "="), LineEnd)
Refused == LineWraps \/ (LineValue # <<>> /\ ~Parses(Type[input[1]], LineValue))
Crash == \/ sectionState = "VALID" /\ Memchr(input, "=") = 0
         \/ Known /\ LineWraps /\ Type[input[1]] \in {"int", "port"}

LEMMA OptionCases ==
    ASSUME parseOption
    PROVE  /\ pc = "parse" /\ input # <<>> /\ input[1] \notin {"[", "CR", "LF", "#"}
           /\ input' = SubSeq(input, LineEnd + 1, Len(input))
           /\ sections' = sections /\ program' = program
           /\ sectionState' = sectionState /\ sectionName' = sectionName
           /\ (NoEquals \/ (~Crash /\ ~Known)) =>
                 pc' = "parse" /\ val' = val /\ hasSerial' = hasSerial
           /\ (~NoEquals /\ Crash) =>
                 pc' = "crashed" /\ val' = val /\ hasSerial' = hasSerial
           /\ (~NoEquals /\ ~Crash /\ Known /\ Refused /\ ~onErrorUseDefault) =>
                 pc' = "parse" /\ val' = val /\ hasSerial' = hasSerial
           /\ (~NoEquals /\ ~Crash /\ Known /\ (~Refused \/ onErrorUseDefault)) =>
                 pc' = "parse" /\ Assign(Assigned(Current, input[1], LineValue, TRUE))
  BY Zenon DEF parseOption, Parsing, Advance, environment, Known, LineValue, LineWraps,
               NoEquals, Refused, Crash

LEMMA OptionParsed ==
    ASSUME NEW file, IsFile(file), NEW b, NEW i \in 0..Len(file.lines),
           Consumed(file, b, i), parseOption, sections \in Seq(Sections),
           sectionState = "VALID" => sectionName # "none"
    PROVE  Progress(file, b)'
<1> DEFINE k == i + 1
           line == file.lines[k]
<1>1. /\ sections' = sections /\ program' = program /\ input # <<>>
      /\ input[1] \notin {"[", "CR", "LF", "#"}
      /\ input' = SubSeq(input, LineEnd + 1, Len(input))
      /\ sectionState' = sectionState /\ sectionName' = sectionName
  BY OptionCases
<1>2. /\ k \in 1..Len(file.lines) /\ input = TextFrom(file)[k]
      /\ Readings(file, b)[k] = Meaning(file, Result(Current, SectionIn, "read"), k)
  BY <1>1, Where
<1>3. Len(file.lines) \in Nat /\ k \in 0..Len(file.lines)
  BY <1>2 DEF IsFile
<1> HIDE DEF k
<1>4. line.kind \in {"option", "key"} /\ input[1] = line.key
  <2>1. WellFormed(line)
    BY <1>2, LineOfText
  <2>2. line.kind \in {"section", "open", "trailing", "option", "key", "comment", "empty"}
    BY <2>1 DEF WellFormed
  <2> QED
    BY <1>1, <1>2, <2>2, FirstCharacter
<1>5. input' = TextFrom(file)[k + 1]
  <2>1. LineEnd = End(file, k) /\ SubSeq(input, End(file, k) + 1, Len(input)) = TextFrom(file)[k + 1]
    BY <1>2, AtLine DEF AtBeginning
  <2> QED
    BY <1>1, <2>1, Zenon
<1>6. SectionIn' = SectionIn
  BY <1>1 DEF SectionIn
<1>7. /\ SectionIn # "none" <=> sectionState = "VALID"
      /\ Known <=> HasOption(SectionIn, line.key)
  <2>1. CASE sectionState = "VALID"
    BY <1>4, <2>1 DEF Known, SectionIn
  <2>2. CASE sectionState # "VALID"
    BY <2>2, NoSection DEF Known, SectionIn
  <2> QED
    BY <2>1, <2>2
<1>8. PICK o, s : o = Current /\ s = SectionIn
  OBVIOUS
<1>9. Readings(file, b)[k] = Meaning(file, Result(o, s, "read"), k)
  BY <1>2, <1>8, Zenon
<1>10. ASSUME pc' = "parse", val' = val, hasSerial' = hasSerial,
              Meaning(file, Result(o, s, "read"), k) = Result(o, s, "read")
       PROVE  Progress(file, b)'
  <2>1. Current' = Current
    BY <1>10, CurrentStays
  <2>2. Readings(file, b)[k] = Result(Current', SectionIn', "read")
    BY <1>6, <1>8, <1>9, <1>10, <2>1, Zenon
  <2> QED
    BY <1>1, <1>3, <1>5, <1>10, <2>2, Moves
<1>11. ASSUME pc' = "crashed", val' = val, hasSerial' = hasSerial,
              Meaning(file, Result(o, s, "read"), k) = Result(o, s, "crashed")
       PROVE  Progress(file, b)'
  <2>1. Current' = Current /\ Outcome' = "crashed"
    BY <1>11, CurrentStays DEF Outcome
  <2>2. Readings(file, b)[k] = Result(Current', s, Outcome')
    BY <1>8, <1>9, <1>11, <2>1, Zenon
  <2> QED
    BY <1>1, <1>3, <1>11, <2>1, <2>2, Ends
<1>12. CASE line.kind = "key"
  <2>1. CASE EqualsBehind(file, k)
    <3>1. NoEquals
      BY <1>2, <1>12, <2>1, KeyAlone DEF NoEquals
    <3>2. Meaning(file, Result(o, s, "read"), k) = Result(o, s, "read")
      BY <1>12, <2>1, MeaningOfOthers
    <3> QED
      BY <1>10, <3>1, <3>2, OptionCases
  <2>2. CASE ~EqualsBehind(file, k)
    <3>1. Memchr(input, "=") = 0 /\ ~NoEquals
      BY <1>2, <1>12, <2>2, KeyAlone DEF NoEquals
    <3>2. CASE sectionState = "VALID"
      <4>1. Meaning(file, Result(o, s, "read"), k) = Result(o, s, "crashed")
        BY <1>7, <1>8, <1>12, <2>2, <3>2, MeaningOfOthers
      <4>2. Crash
        BY <3>1, <3>2 DEF Crash
      <4> QED
        BY <1>11, <3>1, <4>1, <4>2, OptionCases
    <3>3. CASE sectionState # "VALID"
      <4>1. Meaning(file, Result(o, s, "read"), k) = Result(o, s, "read")
        BY <1>7, <1>8, <1>12, <3>3, MeaningOfOthers
      <4>2. ~Crash /\ ~Known
        BY <3>3 DEF Crash, Known
      <4> QED
        BY <1>10, <4>1, <4>2, OptionCases
    <3> QED
      BY <3>2, <3>3
  <2> QED
    BY <2>1, <2>2
<1>13. CASE line.kind = "option"
  <2>1. /\ Memchr(input, "=") # 0 /\ ~NoEquals /\ LineValue = line.value
        /\ LineWraps <=> WrapsAround(file, k)
    BY <1>2, <1>13, OptionFound DEF NoEquals, LineValue, LineWraps
  <2>2. Crash <=> Known /\ WrapsAround(file, k) /\ Type[line.key] \in {"int", "port"}
    BY <1>4, <2>1 DEF Crash
  <2>3. WrapsAround(file, k) => line.value = <<>>
    BY DEF WrapsAround
  <2>4. Refused <=> \/ WrapsAround(file, k)
                    \/ line.value # <<>> /\ ~Parses(Type[line.key], line.value)
    BY <1>4, <2>1 DEF Refused
  <2>5. Known <=> HasOption(s, line.key)
    BY <1>7, <1>8
  <2>6. CASE ~Known
    <3>1. Meaning(file, Result(o, s, "read"), k) = Result(o, s, "read")
      BY <1>13, <2>5, <2>6, MeaningOfOption
    <3> QED
      BY <1>10, <2>2, <2>6, <3>1, OptionCases
  <2>7. CASE Crash
    <3>1. Meaning(file, Result(o, s, "read"), k) = Result(o, s, "crashed")
      BY <1>13, <2>2, <2>5, <2>7, MeaningOfOption
    <3> QED
      BY <1>11, <2>1, <2>7, <3>1, OptionCases
  <2>8. CASE Known /\ ~Crash /\ Refused /\ ~onErrorUseDefault
    <3>1. Meaning(file, Result(o, s, "read"), k) = Result(o, s, "read")
      <4>1. CASE WrapsAround(file, k)
        <5>1. Type[line.key] \notin {"int", "port"}
          BY <2>2, <2>8, <4>1
        <5> QED
          BY <1>13, <2>5, <2>8, <4>1, <5>1, MeaningOfOption
      <4>2. CASE ~WrapsAround(file, k)
        <5>1. LineAssigns(o, line) = o
          BY <2>4, <2>8, <4>2, LineAssigned
        <5>2. Meaning(file, Result(o, s, "read"), k) = Result(LineAssigns(o, line), s, "read")
          BY <1>13, <2>5, <2>8, <4>2, MeaningOfOption
        <5> QED
          BY <5>1, <5>2, Zenon
      <4> QED
        BY <4>1, <4>2
    <3> QED
      BY <1>10, <2>1, <2>8, <3>1, OptionCases
  <2>9. CASE Known /\ ~Crash /\ (~Refused \/ onErrorUseDefault)
    <3>1. Meaning(file, Result(o, s, "read"), k) = Result(LineAssigns(o, line), s, "read")
      <4>1. WrapsAround(file, k) => Type[line.key] \notin {"int", "port"} /\ onErrorUseDefault
        BY <2>2, <2>4, <2>9
      <4> QED
        BY <1>13, <2>5, <2>9, <4>1, MeaningOfOption
    <3>2. LineAssigns(o, line) = AssignsTo(o, line.key, line.value)
      <4>1. line.value = <<>> \/ Parses(Type[line.key], line.value) \/ onErrorUseDefault
        BY <2>4, <2>9
      <4> QED
        BY <4>1, LineAssigned
    <3>3. pc' = "parse" /\ Assign(Assigned(Current, input[1], LineValue, TRUE))
      BY <2>1, <2>9, OptionCases
    <3>4. PICK v, x : v = LineValue /\ x = input[1]
      OBVIOUS
    <3>5. Assign(Assigned(Current, x, v, TRUE))
      BY <3>3, <3>4, Zenon
    <3>6. Current' = Assigned(Current, x, v, TRUE)
      BY <3>5, AssignedWhole, Zenon
    <3>7. Current' = AssignsTo(o, line.key, line.value)
      BY <1>4, <1>8, <2>1, <3>4, <3>6, Zenon DEF AssignsTo
    <3>8. Readings(file, b)[k] = Result(Current', SectionIn', "read")
      BY <1>6, <1>8, <1>9, <3>1, <3>2, <3>7, Zenon
    <3> QED
      BY <1>1, <1>3, <1>5, <3>3, <3>8, Moves
  <2> QED
    BY <2>6, <2>7, <2>8, <2>9
<1> QED
  BY <1>4, <1>12, <1>13

-----------------------------------------------------------------------------
(* What is written: sequences of sequences are joined.                     *)

FlattensTo(f, q, k) ==
    f = [i \in 1..k |-> IF i = 1 THEN q[i] ELSE f[i - 1] \o q[i]]

LEMMA FlattensExist ==
    ASSUME NEW q, NEW k \in Nat
    PROVE  \E f : FlattensTo(f, q, k)
<1> DEFINE T == {m \in Nat : ~\E f : FlattensTo(f, q, m)}
<1> SUFFICES ASSUME T # {} PROVE FALSE
  OBVIOUS
<1>1. PICK m \in T : \A y \in T : m <= y
  <2>1. T \subseteq Nat
    OBVIOUS
  <2> HIDE DEF T
  <2>2. Min(T) \in T /\ \A y \in T : Min(T) <= y
    BY <2>1, LeastIndex
  <2> QED
    BY <2>2
<1>2. m # 0
  <2>1. FlattensTo([i \in 1..0 |-> <<>>], q, 0)
    BY DEF FlattensTo
  <2> QED
    BY <1>1, <2>1
<1>3. m - 1 \in Nat /\ m - 1 \notin T
  BY <1>1, <1>2
<1>4. PICK f : FlattensTo(f, q, m - 1)
  BY <1>3
<1> DEFINE g == [i \in 1..m |-> IF i # m THEN f[i]
                                ELSE IF m = 1 THEN q[m] ELSE f[m - 1] \o q[m]]
<1>5. ASSUME NEW i \in 1..m
      PROVE  g[i] = IF i = 1 THEN q[i] ELSE g[i - 1] \o q[i]
  <2>1. CASE i = m
    <3>1. m # 1 => m - 1 \in 1..m /\ m - 1 # m
      BY <1>2, <1>3
    <3>2. m # 1 => g[m - 1] = f[m - 1]
      BY <3>1, Zenon
    <3> QED
      BY <2>1, <3>2, Zenon
  <2>2. CASE i # m
    <3>1. i \in 1..(m - 1) /\ (i # 1 => i - 1 \in 1..m /\ i - 1 # m)
      BY <1>3, <2>2
    <3>2. f[i] = IF i = 1 THEN q[i] ELSE f[i - 1] \o q[i]
      BY <1>4, <3>1, Zenon DEF FlattensTo
    <3>3. g[i] = f[i] /\ (i # 1 => g[i - 1] = f[i - 1])
      BY <2>2, <3>1, Zenon
    <3> QED
      BY <3>2, <3>3, Zenon
  <2> QED
    BY <2>1, <2>2
<1>6. FlattensTo(g, q, m)
  BY <1>5, Zenon DEF FlattensTo
<1> QED
  BY <1>1, <1>6

LEMMA FourJoined ==
    ASSUME NEW q, Len(q) = 4
    PROVE  FlattenSeq(q) = ((q[1] \o q[2]) \o q[3]) \o q[4]
<1> DEFINE c == CHOOSE f : FlattensTo(f, q, 4)
<1>1. FlattensTo(c, q, 4)
  BY FlattensExist
<1>2. FlattenSeq(q) = c[4]
  BY DEF FlattenSeq, FlattensTo
<1> HIDE DEF c
<1>3. \A i \in 1..4 : c[i] = IF i = 1 THEN q[i] ELSE c[i - 1] \o q[i]
  BY <1>1, Zenon DEF FlattensTo
<1>4. c[1] = q[1]
  BY <1>3
<1>5. c[2] = c[1] \o q[2]
  <2>1. 2 \in 1..4 /\ 2 # 1 /\ 2 - 1 = 1
    OBVIOUS
  <2> QED
    BY <1>3, <2>1, Zenon
<1>6. c[3] = c[2] \o q[3]
  <2>1. 3 \in 1..4 /\ 3 # 1 /\ 3 - 1 = 2
    OBVIOUS
  <2> QED
    BY <1>3, <2>1, Zenon
<1>7. c[4] = c[3] \o q[4]
  <2>1. 4 \in 1..4 /\ 4 # 1 /\ 4 - 1 = 3
    OBVIOUS
  <2> QED
    BY <1>3, <2>1, Zenon
<1> QED
  BY <1>2, <1>4, <1>5, <1>6, <1>7, Zenon

-----------------------------------------------------------------------------
(* The values that are written.                                            *)

Plain(v) == v \in Seq(Char \ {"CR", "LF"}) /\ (v # <<>> => v[1] # "SP")
Printable(v) == Plain(v["host"]) /\ v["port"] \in 0..99

LEMMA DigitsAre ==
    /\ Len(Digits) = 10
    /\ \A i \in 1..10 : Digits[i] \in DigitSet
    /\ \A i \in 1..10 : DigitValue(Digits[i]) = i - 1
    /\ \A c \in DigitSet : c \in Char \ {"CR", "LF"} /\ c # "SP"
<1>1. Len(Digits) = 10 /\ \A i \in 1..10 : Digits[i] \in DigitSet
  BY DEF Digits, DigitSet, ToSet
<1>2. \A i, j \in 1..10 : Digits[i] = Digits[j] => i = j
  BY DEF Digits
<1>3. \A i \in 1..10 : DigitValue(Digits[i]) = i - 1
  <2> SUFFICES ASSUME NEW i \in 1..10 PROVE DigitValue(Digits[i]) = i - 1
    OBVIOUS
  <2> DEFINE c == CHOOSE j \in 1..Len(Digits) : Digits[j] = Digits[i]
  <2>1. c \in 1..10 /\ Digits[c] = Digits[i]
    BY <1>1
  <2>2. DigitValue(Digits[i]) = c - 1
    BY DEF DigitValue
  <2> HIDE DEF c
  <2> QED
    BY <1>2, <2>1, <2>2
<1>4. \A c \in DigitSet : c \in Char \ {"CR", "LF"} /\ c # "SP"
  BY ConfigAssumption DEF Char, Special
<1> QED
  BY <1>1, <1>3, <1>4

LEMMA NumberOf ==
    ASSUME NEW n \in 0..99
    PROVE  Plain(Number(n)) /\ Number(n) # <<>> /\ strtoul(Number(n)) = n
<1>1. CASE n < 10
  <2> DEFINE c == Digits[n + 1]
  <2>1. n + 1 \in 1..10 /\ (n + 1) - 1 = n
    BY <1>1
  <2>2. c \in DigitSet /\ DigitValue(c) = n /\ c \in Char \ {"CR", "LF"} /\ c # "SP"
    BY <2>1, DigitsAre
  <2>3. Number(n) = <<c>>
    BY <1>1 DEF Number
  <2> HIDE DEF c
  <2>4. strtoul(<<c>>) = n /\ <<c>> # <<>> /\ Plain(<<c>>)
    BY <2>2 DEF strtoul, Plain
  <2> QED
    BY <2>3, <2>4
<1>2. CASE n >= 10
  <2> DEFINE c == Digits[(n \div 10) + 1]
             d == Digits[(n % 10) + 1]
  <2>1. /\ (n \div 10) + 1 \in 1..10 /\ (n % 10) + 1 \in 1..10
        /\ n = 10 * (n \div 10) + (n % 10) /\ n \div 10 \in Nat /\ n % 10 \in Nat
    BY <1>2
  <2>2. c \in DigitSet /\ DigitValue(c) = n \div 10 /\ c \in Char \ {"CR", "LF"} /\ c # "SP"
    BY <2>1, DigitsAre
  <2>3. d \in DigitSet /\ DigitValue(d) = n % 10 /\ d \in Char \ {"CR", "LF"}
    BY <2>1, DigitsAre
  <2>4. Number(n) = <<c, d>>
    BY <1>2 DEF Number
  <2> HIDE DEF c, d
  <2>5. strtoul(<<c, d>>) = 10 * DigitValue(c) + DigitValue(d)
    BY <2>2, <2>3 DEF strtoul
  <2>6. <<c, d>> # <<>> /\ Plain(<<c, d>>)
    BY <2>2, <2>3 DEF Plain
  <2> QED
    BY <2>1, <2>2, <2>3, <2>4, <2>5, <2>6
<1> QED
  BY <1>1, <1>2

ValueText(o, v) == Printed(Type[o], v[o])

LEMMA PrintedAs ==
    ASSUME NEW v, NEW o \in Options
    PROVE  /\ o \in {"backlog", "timeout", "serial", "port"} => ValueText(o, v) = Number(v[o])
           /\ o = "host" => ValueText(o, v) = v["host"]
           /\ o \in {"history", "gc"} =>
                 /\ v[o] => ValueText(o, v) = <<"true">>
                 /\ ~v[o] => ValueText(o, v) = <<"false">>
<1>1. CASE o \in {"backlog", "timeout", "serial", "port"}
  BY <1>1 DEF ValueText, Printed, Type
<1>2. CASE o = "host"
  BY <1>2 DEF ValueText, Printed, Type
<1>3. CASE o \in {"history", "gc"}
  <2>1. Type[o] = "bool" /\ o # "host" /\ o \notin {"backlog", "timeout", "serial", "port"}
    BY <1>3 DEF Type
  <2>2. ValueText(o, v) = IF v[o] THEN <<"true">> ELSE <<"false">>
    BY <2>1 DEF ValueText, Printed
  <2> QED
    BY <2>1, <2>2, Zenon
<1> QED
  BY <1>1, <1>2, <1>3 DEF Options

LEMMA PlainPrinted ==
    ASSUME NEW v, Valid(v), Printable(v), NEW o \in Options
    PROVE  Plain(ValueText(o, v))
<1>1. CASE o \in {"backlog", "timeout", "serial", "port"}
  <2>1. v[o] \in 0..99
    BY <1>1 DEF Valid, Numbers, Printable
  <2> QED
    BY <1>1, <2>1, NumberOf, PrintedAs
<1>2. CASE o = "host"
  BY <1>2, PrintedAs DEF Printable
<1>3. CASE o \in {"history", "gc"}
  <2>1. Plain(<<"true">>) /\ Plain(<<"false">>)
    BY ConfigAssumption DEF Plain, Char, Special
  <2>2. ValueText(o, v) = <<"true">> \/ ValueText(o, v) = <<"false">>
    BY <1>3, PrintedAs, Zenon
  <2> QED
    BY <2>1, <2>2
<1> QED
  BY <1>1, <1>2, <1>3 DEF Options

-----------------------------------------------------------------------------
(* The lines that are written, for options with the values v.              *)
Names == {"BUFFER", "NETWORK", "DEVICE"}
HeadingLine(name) == [kind |-> "section", name |-> name]
OptionLine(o, v) == [kind |-> "option", key |-> o, spaces |-> TRUE, value |-> ValueText(o, v)]
Lines(v) == {HeadingLine(name) : name \in Names}
            \cup {[kind |-> "comment"], [kind |-> "empty"]}
            \cup {OptionLine(o, v) : o \in Options}

LEMMA LineIs ==
    ASSUME NEW v, NEW line \in Lines(v)
    PROVE  \/ line.kind = "section" /\ line.name \in Names
           \/ line.kind \in {"comment", "empty"}
           \/ /\ line.kind = "option" /\ line.key \in Options /\ line.spaces = TRUE
              /\ line.value = ValueText(line.key, v)
<1>1. CASE \E name \in Names : line = HeadingLine(name)
  BY <1>1 DEF HeadingLine
<1>2. CASE line \in {[kind |-> "comment"], [kind |-> "empty"]}
  BY <1>2
<1>3. CASE \E o \in Options : line = OptionLine(o, v)
  BY <1>3 DEF OptionLine
<1> QED
  BY <1>1, <1>2, <1>3 DEF Lines

LEMMA LinesWellFormed ==
    ASSUME NEW v, Valid(v), Printable(v), NEW line \in Lines(v)
    PROVE  WellFormed(line)
<1>1. CASE line.kind = "section" /\ line.name \in Names
  BY <1>1, ConfigAssumption DEF WellFormed, Names
<1>2. CASE line.kind \in {"comment", "empty"}
  BY <1>2 DEF WellFormed
<1>3. CASE /\ line.kind = "option" /\ line.key \in Options /\ line.spaces = TRUE
           /\ line.value = ValueText(line.key, v)
  <2>1. line.key \in Words
    BY <1>3, ConfigAssumption
  <2>2. Plain(line.value)
    BY <1>3, PlainPrinted
  <2>3. line.spaces \in BOOLEAN
    BY <1>3
  <2> QED
    BY <1>3, <2>1, <2>2, <2>3 DEF WellFormed, Plain
<1> QED
  BY <1>1, <1>2, <1>3, LineIs

LEMMA WrittenFile ==
    ASSUME NEW v, Valid(v), Printable(v), NEW file, file.crlf = FALSE,
           file.lines \in Seq(Lines(v))
    PROVE  IsFile(file)
<1>1. Len(file.lines) \in Nat /\ \A i \in 1..Len(file.lines) : file.lines[i] \in Lines(v)
  BY Zenon, LenProperties, ElementOfSeq
<1> QED
  BY <1>1, LinesWellFormed DEF IsFile

-----------------------------------------------------------------------------
(* Blocks of lines: read in section a they leave the parser in section b,  *)
(* every option in them is in its section, and they are those of S.        *)

NameOf(o) == IF o \in {"backlog", "history", "gc"} THEN "BUFFER"
             ELSE IF o = "serial" THEN "DEVICE" ELSE "NETWORK"

Places == Names \cup {"none"}

Follows(line, a, b) ==
    \/ line.kind = "section" /\ b = line.name
    \/ line.kind \in {"comment", "empty"} /\ b = a
    \/ line.kind = "option" /\ b = a /\ a = NameOf(line.key)

Path(f, L, a, b) ==
    /\ f \in [0..Len(L) -> Places] /\ f[0] = a /\ f[Len(L)] = b
    /\ \A i \in 1..Len(L) : Follows(L[i], f[i - 1], f[i])

Exactly(L, S) ==
    /\ \A i \in 1..Len(L) : L[i].kind = "option" => L[i].key \in S
    /\ \A o \in S : \E i \in 1..Len(L) : L[i].kind = "option" /\ L[i].key = o

Block(L, a, b, S, v) ==
    /\ L \in Seq(Lines(v)) /\ Exactly(L, S)
    /\ \E f : Path(f, L, a, b)

LEMMA JoinedLines ==
    ASSUME NEW X, NEW L \in Seq(X), NEW M \in Seq(X)
    PROVE  /\ L \o M \in Seq(X) /\ Len(L \o M) = Len(L) + Len(M)
           /\ Len(L) \in Nat /\ Len(M) \in Nat
           /\ \A i \in 1..Len(L) : (L \o M)[i] = L[i]
           /\ \A i \in 1..Len(M) : (L \o M)[Len(L) + i] = M[i]
  OBVIOUS

LEMMA BlocksJoin ==
    ASSUME NEW L, NEW M, NEW a, NEW b, NEW c, NEW S, NEW T, NEW v,
           Block(L, a, b, S, v), Block(M, b, c, T, v)
    PROVE  Block(L \o M, a, c, S \cup T, v)
<1> DEFINE K == L \o M
           m == Len(L)
           n == Len(M)
           X == Lines(v)
<1>0. L \in Seq(X) /\ M \in Seq(X) /\ Exactly(L, S) /\ Exactly(M, T)
  BY DEF Block
<1>1. /\ K \in Seq(X) /\ Len(K) = m + n /\ m \in Nat /\ n \in Nat
      /\ \A i \in 1..m : K[i] = L[i]
      /\ \A i \in 1..n : K[m + i] = M[i]
  <2> HIDE DEF X
  <2> QED
    BY <1>0, JoinedLines
<1> HIDE DEF K, X
<1>2. Exactly(K, S \cup T)
  <2>1. ASSUME NEW i \in 1..Len(K), K[i].kind = "option" PROVE K[i].key \in S \cup T
    <3>1. CASE i <= m
      <4>1. i \in 1..m
        BY <1>1, <3>1
      <4> QED
        BY <1>0, <1>1, <2>1, <4>1 DEF Exactly
    <3>2. CASE i > m
      <4>1. i - m \in 1..n /\ m + (i - m) = i
        BY <1>1, <3>2
      <4>2. K[i] = M[i - m]
        BY <1>1, <4>1
      <4> QED
        BY <1>0, <2>1, <4>1, <4>2 DEF Exactly
    <3> QED
      BY <1>1, <3>1, <3>2
  <2>2. ASSUME NEW o \in S PROVE \E i \in 1..Len(K) : K[i].kind = "option" /\ K[i].key = o
    <3>1. PICK i \in 1..m : L[i].kind = "option" /\ L[i].key = o
      BY <1>0 DEF Exactly
    <3>2. i \in 1..Len(K) /\ K[i] = L[i]
      BY <1>1
    <3> QED
      BY <3>1, <3>2
  <2>3. ASSUME NEW o \in T PROVE \E i \in 1..Len(K) : K[i].kind = "option" /\ K[i].key = o
    <3>1. PICK i \in 1..n : M[i].kind = "option" /\ M[i].key = o
      BY <1>0 DEF Exactly
    <3>2. m + i \in 1..Len(K) /\ K[m + i] = M[i]
      BY <1>1
    <3> QED
      BY <3>1, <3>2
  <2> QED
    BY <2>1, <2>2, <2>3 DEF Exactly
<1>3. PICK f : Path(f, L, a, b)
  BY DEF Block
<1>4. PICK g : Path(g, M, b, c)
  BY DEF Block
<1> DEFINE h == [i \in 0..(m + n) |-> IF i <= m THEN f[i] ELSE g[i - m]]
<1>5. /\ f \in [0..m -> Places] /\ f[0] = a /\ f[m] = b
      /\ \A i \in 1..m : Follows(L[i], f[i - 1], f[i])
      /\ g \in [0..n -> Places] /\ g[0] = b /\ g[n] = c
      /\ \A i \in 1..n : Follows(M[i], g[i - 1], g[i])
  BY <1>3, <1>4 DEF Path
<1>6. h \in [0..(m + n) -> Places]
  <2> SUFFICES ASSUME NEW i \in 0..(m + n)
               PROVE  (IF i <= m THEN f[i] ELSE g[i - m]) \in Places
    OBVIOUS
  <2>1. i <= m => i \in 0..m
    BY <1>1
  <2>2. ~(i <= m) => i - m \in 0..n
    BY <1>1
  <2> QED
    BY <1>5, <2>1, <2>2
<1>7. h[0] = a
  BY <1>1, <1>5
<1>8. h[m + n] = c
  <2>1. CASE n = 0
    BY <1>1, <1>5, <2>1
  <2>2. CASE n # 0
    BY <1>1, <1>5, <2>2
  <2> QED
    BY <2>1, <2>2
<1>9. ASSUME NEW i \in 1..(m + n) PROVE Follows(K[i], h[i - 1], h[i])
  <2>1. CASE i <= m
    <3>1. i \in 1..m /\ h[i] = f[i] /\ h[i - 1] = f[i - 1]
      BY <1>1, <2>1
    <3> QED
      BY <1>1, <1>5, <3>1
  <2>2. CASE i = m + 1
    <3>1. 1 \in 1..n /\ h[i] = g[1] /\ h[i - 1] = f[m] /\ m + 1 = i
      BY <1>1, <2>2
    <3>2. Follows(M[1], g[1 - 1], g[1]) /\ K[i] = M[1]
      BY <1>1, <1>5, <3>1
    <3>3. g[1 - 1] = h[i - 1]
      BY <1>5, <3>1
    <3> QED
      BY <3>1, <3>2, <3>3
  <2>3. CASE i > m + 1
    <3>1. i - m \in 1..n /\ h[i] = g[i - m] /\ h[i - 1] = g[(i - m) - 1] /\ m + (i - m) = i
      BY <1>1, <2>3
    <3>2. Follows(M[i - m], g[(i - m) - 1], g[i - m]) /\ K[i] = M[i - m]
      BY <1>1, <1>5, <3>1
    <3> QED
      BY <3>1, <3>2
  <2> QED
    BY <1>1, <2>1, <2>2, <2>3
<1> HIDE DEF h
<1>10. Path(h, K, a, c)
  BY <1>1, <1>6, <1>7, <1>8, <1>9 DEF Path
<1> QED
  BY <1>1, <1>2, <1>10 DEF Block, K, X

LEMMA NothingBlock ==
    ASSUME NEW a \in Places, NEW v PROVE Block(<<>>, a, a, {}, v)
<1>1. Path([i \in 0..0 |-> a], <<>>, a, a)
  BY DEF Path
<1>2. <<>> \in Seq(Lines(v)) /\ Exactly(<<>>, {})
  BY DEF Exactly
<1> QED
  BY <1>1, <1>2 DEF Block

LEMMA LineBlock ==
    ASSUME NEW v, NEW line \in Lines(v), NEW a \in Places, NEW b \in Places, NEW S,
           Follows(line, a, b), line.kind = "option" => S = {line.key},
           line.kind # "option" => S = {}
    PROVE  Block(<<line>>, a, b, S, v)
<1> DEFINE X == Lines(v)
<1>1. <<line>> \in Seq(X)
  <2>1. line \in X
    OBVIOUS
  <2> HIDE DEF X
  <2> QED
    BY <2>1
<1> DEFINE f == [i \in 0..1 |-> IF i = 0 THEN a ELSE b]
           L == <<line>>
<1>2. Len(L) = 1 /\ L[1] = line
  OBVIOUS
<1> HIDE DEF L
<1>3. f \in [0..1 -> Places] /\ f[0] = a /\ f[1] = b
  OBVIOUS
<1> HIDE DEF f
<1>4. Path(f, L, a, b)
  BY <1>2, <1>3 DEF Path
<1>5. Exactly(L, S)
  BY <1>2 DEF Exactly
<1> QED
  BY <1>1, <1>4, <1>5 DEF Block, L

LEMMA HeadingBlock ==
    ASSUME NEW v, NEW a \in Places, NEW name \in Names
    PROVE  Block(<<HeadingLine(name)>>, a, name, {}, v)
<1> DEFINE line == HeadingLine(name)
<1>1. line \in Lines(v) /\ line.kind = "section" /\ line.name = name
  BY DEF Lines, HeadingLine
<1> HIDE DEF line
<1>2. Follows(line, a, name) /\ name \in Places
  BY <1>1 DEF Follows, Places
<1> QED
  BY <1>1, <1>2, LineBlock DEF line

LEMMA OtherBlock ==
    ASSUME NEW v, NEW a \in Places, NEW line \in {[kind |-> "comment"], [kind |-> "empty"]}
    PROVE  Block(<<line>>, a, a, {}, v)
<1>1. line \in Lines(v) /\ line.kind \in {"comment", "empty"}
  BY DEF Lines
<1>2. Follows(line, a, a)
  BY <1>1 DEF Follows
<1> QED
  BY <1>1, <1>2, LineBlock

LEMMA OptionBlock ==
    ASSUME NEW v, NEW o \in Options
    PROVE  Block(<<OptionLine(o, v)>>, NameOf(o), NameOf(o), {o}, v)
<1> DEFINE line == OptionLine(o, v)
<1>1. line \in Lines(v) /\ line.kind = "option" /\ line.key = o
  BY DEF Lines, OptionLine
<1> HIDE DEF line
<1>2. Follows(line, NameOf(o), NameOf(o)) /\ NameOf(o) \in Places
  BY <1>1 DEF Follows, Places, NameOf, Names
<1> QED
  BY <1>1, <1>2, LineBlock DEF line

LEMMA FourBlocks ==
    ASSUME NEW q, Len(q) = 4, NEW a, NEW b, NEW c, NEW d, NEW e, NEW v,
           NEW S, NEW T, NEW U, NEW V,
           Block(q[1], a, b, S, v), Block(q[2], b, c, T, v),
           Block(q[3], c, d, U, v), Block(q[4], d, e, V, v)
    PROVE  Block(FlattenSeq(q), a, e, ((S \cup T) \cup U) \cup V, v)
<1>1. Block(q[1] \o q[2], a, c, S \cup T, v)
  BY BlocksJoin
<1>2. Block((q[1] \o q[2]) \o q[3], a, d, (S \cup T) \cup U, v)
  BY <1>1, BlocksJoin
<1>3. Block(((q[1] \o q[2]) \o q[3]) \o q[4], a, e, ((S \cup T) \cup U) \cup V, v)
  BY <1>2, BlocksJoin
<1> QED
  BY <1>3, FourJoined, Zenon

-----------------------------------------------------------------------------
(* What writeSections() writes: one block with all options.                *)

Given(s) == IF s = "buffer" THEN {"backlog", "history", "gc"}
            ELSE IF s = "network" THEN {"host", "port"}
            ELSE IF s = "relay" THEN {"timeout"}
            ELSE IF hasSerial \/ program # "radarcape" THEN {"serial"} ELSE {}

LEMMA LineWritten ==
    ASSUME NEW o \in Options
    PROVE  /\ (o # "serial" \/ hasSerial \/ program # "radarcape") =>
                 WrittenLine(o) = OptionLine(o, val)
           /\ (o = "serial" /\ ~hasSerial /\ program = "radarcape") =>
                 WrittenLine(o) = [kind |-> "comment"]
  BY Zenon DEF WrittenLine, OptionLine, ValueText

LEMMA OptionsWritten ==
    ASSUME NEW s \in Sections
    PROVE  Block(writeOptions(s), SectionName[s], SectionName[s], Given(s), val)
<1> DEFINE W(o) == <<WrittenLine(o)>>
           B(L, S) == Block(L, SectionName[s], SectionName[s], S, val)
<1>0. ASSUME NEW o \in Options, o # "serial", NameOf(o) = SectionName[s] PROVE B(W(o), {o})
  BY <1>0, LineWritten, OptionBlock
<1>1. ASSUME NEW L, NEW M, NEW S, NEW T, B(L, S), B(M, T) PROVE B(L \o M, S \cup T)
  BY <1>1, BlocksJoin
<1>2. CASE s = "buffer"
  <2>1. B(W("backlog"), {"backlog"}) /\ B(W("history"), {"history"}) /\ B(W("gc"), {"gc"})
    BY <1>0, <1>2 DEF Options, NameOf, SectionName
  <2>2. writeOptions(s) = <<WrittenLine("backlog"), WrittenLine("history"), WrittenLine("gc")>>
    BY <1>2 DEF writeOptions, SectionOptions
  <2>3. writeOptions(s) = (W("backlog") \o W("history")) \o W("gc")
    BY <2>2
  <2>4. B((W("backlog") \o W("history")) \o W("gc"), ({"backlog"} \cup {"history"}) \cup {"gc"})
    <3> HIDE DEF B, W
    <3> QED
      BY <1>1, <2>1
  <2>5. Given(s) = ({"backlog"} \cup {"history"}) \cup {"gc"}
    BY <1>2 DEF Given
  <2> QED
    BY <2>3, <2>4, <2>5, Zenon
<1>3. CASE s = "network"
  <2>1. B(W("host"), {"host"}) /\ B(W("port"), {"port"})
    BY <1>0, <1>3 DEF Options, NameOf, SectionName
  <2>2. writeOptions(s) = <<WrittenLine("host"), WrittenLine("port")>>
    BY <1>3 DEF writeOptions, SectionOptions
  <2>3. writeOptions(s) = W("host") \o W("port")
    BY <2>2
  <2>4. B(W("host") \o W("port"), {"host"} \cup {"port"})
    <3> HIDE DEF B, W
    <3> QED
      BY <1>1, <2>1
  <2>5. Given(s) = {"host"} \cup {"port"}
    BY <1>3 DEF Given
  <2> QED
    BY <2>3, <2>4, <2>5, Zenon
<1>4. CASE s = "relay"
  <2>1. B(W("timeout"), {"timeout"})
    BY <1>0, <1>4 DEF Options, NameOf, SectionName
  <2>2. writeOptions(s) = W("timeout")
    BY <1>4 DEF writeOptions, SectionOptions
  <2>3. Given(s) = {"timeout"}
    BY <1>4 DEF Given
  <2> QED
    BY <2>1, <2>2, <2>3, Zenon
<1>5. CASE s = "device"
  <2>1. writeOptions(s) = W("serial")
    BY <1>5 DEF writeOptions, SectionOptions
  <2>2. SectionName[s] = "DEVICE" /\ "DEVICE" \in Places /\ NameOf("serial") = "DEVICE"
        /\ "serial" \in Options
    BY <1>5 DEF SectionName, Places, Names, NameOf, Options
  <2>3. CASE hasSerial \/ program # "radarcape"
    <3>1. WrittenLine("serial") = OptionLine("serial", val)
      BY <2>2, <2>3, LineWritten
    <3>2. B(W("serial"), {"serial"})
      BY <2>2, <3>1, OptionBlock
    <3>3. Given(s) = {"serial"}
      BY <1>5, <2>3 DEF Given
    <3> QED
      BY <2>1, <3>2, <3>3, Zenon
  <2>4. CASE ~(hasSerial \/ program # "radarcape")
    <3>1. WrittenLine("serial") = [kind |-> "comment"]
      BY <2>2, <2>4, LineWritten
    <3>2. Block(<<[kind |-> "comment"]>>, "DEVICE", "DEVICE", {}, val)
      BY <2>2, OtherBlock
    <3>3. Given(s) = {}
      BY <1>5, <2>4 DEF Given
    <3> QED
      BY <2>1, <2>2, <3>1, <3>2, <3>3, Zenon
  <2> QED
    BY <2>3, <2>4
<1> QED
  BY <1>2, <1>3, <1>4, <1>5 DEF Sections

LEMMA SectionNames == ASSUME NEW s \in Sections PROVE SectionName[s] \in Names
  BY DEF Sections, SectionName, Names

Joint(i, j) == IF j >= i /\ SameName(i, j) THEN Given(sections[j]) ELSE {}
AllJoint(i) == ((Joint(i, 1) \cup Joint(i, 2)) \cup Joint(i, 3)) \cup Joint(i, 4)

(* The options of all sections with the same name.                         *)
LEMMA PartsWritten ==
    ASSUME sections \in Seq(Sections), Len(sections) = 4, NEW i \in 1..4
    PROVE  Block(Parts(i), SectionName[sections[i]], SectionName[sections[i]],
                 AllJoint(i), val)
<1> DEFINE P(j) == IF j >= i /\ SameName(i, j) THEN writeOptions(sections[j]) ELSE <<>>
           q == [j \in 1..Len(sections) |-> P(j)]
           name == SectionName[sections[i]]
<1>1. \A j \in 1..4 : sections[j] \in Sections
  BY ElementOfSeq, Zenon
<1>2. name \in Places
  BY <1>1, SectionNames DEF Places
<1>3. ASSUME NEW j \in 1..4 PROVE Block(P(j), name, name, Joint(i, j), val)
  <2>1. CASE j >= i /\ SameName(i, j)
    <3>1. SectionName[sections[j]] = name
      BY <2>1 DEF SameName
    <3>2. Block(writeOptions(sections[j]), SectionName[sections[j]],
                SectionName[sections[j]], Given(sections[j]), val)
      BY <1>1, OptionsWritten
    <3>3. P(j) = writeOptions(sections[j]) /\ Joint(i, j) = Given(sections[j])
      BY <2>1, Zenon DEF Joint
    <3> QED
      BY <3>1, <3>2, <3>3, Zenon
  <2>2. CASE ~(j >= i /\ SameName(i, j))
    <3>1. P(j) = <<>> /\ Joint(i, j) = {}
      BY <2>2, Zenon DEF Joint
    <3>2. Block(<<>>, name, name, {}, val)
      BY <1>2, NothingBlock
    <3> QED
      BY <3>1, <3>2, Zenon
  <2> QED
    BY <2>1, <2>2
<1>4. Parts(i) = FlattenSeq(q)
  BY DEF Parts
<1> HIDE DEF P, name
<1>5. Len(q) = 4 /\ q[1] = P(1) /\ q[2] = P(2) /\ q[3] = P(3) /\ q[4] = P(4)
  OBVIOUS
<1>6. /\ Block(P(1), name, name, Joint(i, 1), val)
      /\ Block(P(2), name, name, Joint(i, 2), val)
      /\ Block(P(3), name, name, Joint(i, 3), val)
      /\ Block(P(4), name, name, Joint(i, 4), val)
  BY <1>3
<1> HIDE DEF q
<1>7. /\ Block(q[1], name, name, Joint(i, 1), val)
      /\ Block(q[2], name, name, Joint(i, 2), val)
      /\ Block(q[3], name, name, Joint(i, 3), val)
      /\ Block(q[4], name, name, Joint(i, 4), val)
  BY <1>5, <1>6, Zenon
<1>8. Block(FlattenSeq(q), name, name, AllJoint(i), val)
  BY <1>5, <1>7, FourBlocks DEF AllJoint
<1> QED
  BY <1>4, <1>8, Zenon DEF name

PartOf(i) == IF First(i) THEN AllJoint(i) ELSE {}
AllParts == ((PartOf(1) \cup PartOf(2)) \cup PartOf(3)) \cup PartOf(4)

LEMMA PartWritten ==
    ASSUME sections \in Seq(Sections), Len(sections) = 4, NEW i \in 1..4, NEW a \in Places
    PROVE  \E b \in Places :
              Block(IF First(i) THEN Separator(i) \o Heading(sections[i]) \o Parts(i)
                                ELSE <<>>, a, b, PartOf(i), val)
<1> DEFINE name == SectionName[sections[i]]
<1>1. sections[i] \in Sections
  BY ElementOfSeq, Zenon
<1>2. name \in Names /\ name \in Places
  BY <1>1, SectionNames DEF Places
<1>3. CASE First(i)
  <2>1. Block(Separator(i), a, a, {}, val)
    <3>1. CASE i = 1
      BY <3>1, NothingBlock DEF Separator
    <3>2. CASE i # 1
      <4>1. Block(<<[kind |-> "empty"]>>, a, a, {}, val)
        BY OtherBlock
      <4>2. Block(<<[kind |-> "empty"]>> \o <<[kind |-> "empty"]>>, a, a, {} \cup {}, val)
        BY <4>1, BlocksJoin
      <4>3. Separator(i) = <<[kind |-> "empty"]>> \o <<[kind |-> "empty"]>>
        BY <3>2 DEF Separator
      <4>4. {} \cup {} = {}
        OBVIOUS
      <4> QED
        BY <4>2, <4>3, <4>4, Zenon
    <3> QED
      BY <3>1, <3>2
  <2>2. Block(Heading(sections[i]), a, name, {}, val)
    BY <1>2, HeadingBlock DEF Heading, HeadingLine
  <2>3. Block(Parts(i), name, name, AllJoint(i), val)
    BY PartsWritten
  <2>4. Block(Separator(i) \o Heading(sections[i]), a, name, {} \cup {}, val)
    BY <2>1, <2>2, BlocksJoin
  <2>5. Block((Separator(i) \o Heading(sections[i])) \o Parts(i), a, name,
              ({} \cup {}) \cup AllJoint(i), val)
    BY <2>3, <2>4, BlocksJoin
  <2>6. ({} \cup {}) \cup AllJoint(i) = PartOf(i)
    BY <1>3 DEF PartOf
  <2>7. Block((Separator(i) \o Heading(sections[i])) \o Parts(i), a, name, PartOf(i), val)
    BY <2>5, <2>6, Zenon
  <2> HIDE DEF name
  <2> QED
    BY <1>2, <1>3, <2>7, Zenon
<1>4. CASE ~First(i)
  <2>1. Block(<<>>, a, a, {}, val)
    BY NothingBlock
  <2>2. PartOf(i) = {}
    BY <1>4 DEF PartOf
  <2> QED
    BY <1>4, <2>1, <2>2, Zenon
<1> QED
  BY <1>3, <1>4

LEMMA SectionsWritten ==
    ASSUME sections \in Seq(Sections), Len(sections) = 4
    PROVE  \E b : Block(writeSections, "none", b, AllParts, val)
<1> DEFINE P(i) == IF First(i) THEN Separator(i) \o Heading(sections[i]) \o Parts(i)
                               ELSE <<>>
           q == [i \in 1..Len(sections) |-> P(i)]
<1>1. ASSUME NEW i \in 1..4, NEW a \in Places
      PROVE  \E b \in Places : Block(P(i), a, b, PartOf(i), val)
  BY PartWritten
<1>2. writeSections = FlattenSeq(q)
  BY DEF writeSections
<1> HIDE DEF P
<1>3. Len(q) = 4 /\ q[1] = P(1) /\ q[2] = P(2) /\ q[3] = P(3) /\ q[4] = P(4)
  OBVIOUS
<1> HIDE DEF q
<1>4. "none" \in Places
  BY DEF Places
<1>5. PICK b \in Places : Block(q[1], "none", b, PartOf(1), val)
  BY <1>1, <1>3, <1>4
<1>6. PICK c \in Places : Block(q[2], b, c, PartOf(2), val)
  BY <1>1, <1>3
<1>7. PICK d \in Places : Block(q[3], c, d, PartOf(3), val)
  BY <1>1, <1>3
<1>8. PICK e \in Places : Block(q[4], d, e, PartOf(4), val)
  BY <1>1, <1>3
<1>9. Block(FlattenSeq(q), "none", e, AllParts, val)
  BY <1>3, <1>5, <1>6, <1>7, <1>8, FourBlocks DEF AllParts
<1> QED
  BY <1>2, <1>9, Zenon

Written == IF hasSerial \/ program # "radarcape" THEN Options ELSE Options \ {"serial"}

(* Every section has a first one of its name, with which it is written.    *)
LEMMA FirstOfName ==
    ASSUME NEW j \in 1..4
    PROVE  \E i \in 1..4 : First(i) /\ j >= i /\ SameName(i, j)
<1> DEFINE T == {i \in 1..4 : SameName(i, j)}
<1>1. j \in T /\ T \subseteq Nat
  BY DEF SameName
<1>2. Min(T) \in T /\ \A y \in T : Min(T) <= y
  <2> HIDE DEF T
  <2> QED
    BY <1>1, LeastIndex
<1> DEFINE i == Min(T)
<1> HIDE DEF i
<1>3. i \in 1..4 /\ SameName(i, j) /\ \A y \in T : i <= y
  BY <1>2 DEF i
<1>4. j >= i
  BY <1>1, <1>3
<1>5. First(i)
  <2> SUFFICES ASSUME NEW k \in 1..(i - 1), SameName(i, k) PROVE FALSE
    BY DEF First
  <2>1. k \in 1..4 /\ k < i
    BY <1>3
  <2>2. SameName(k, j)
    BY <1>3 DEF SameName
  <2> QED
    BY <1>3, <2>1, <2>2
<1> QED
  BY <1>3, <1>4, <1>5

LEMMA AllWritten ==
    ASSUME sections \in Seq(Sections), Len(sections) = 4,
           \A s \in Sections : \E j \in 1..4 : sections[j] = s
    PROVE  AllParts = Written
<1>1. ASSUME NEW s \in Sections PROVE Given(s) \subseteq Written
  BY DEF Given, Written, Sections, Options
<1>2. \A j \in 1..4 : sections[j] \in Sections
  BY ElementOfSeq, Zenon
<1>3. ASSUME NEW i \in 1..4, NEW j \in 1..4 PROVE Joint(i, j) \subseteq Written
  BY <1>1, <1>2 DEF Joint
<1>4. ASSUME NEW i \in 1..4 PROVE AllJoint(i) \subseteq Written
  <2>1. 1 \in 1..4 /\ 2 \in 1..4 /\ 3 \in 1..4 /\ 4 \in 1..4
    OBVIOUS
  <2> QED
    BY <1>3, <2>1, Zenon DEF AllJoint
<1>5. AllParts \subseteq Written
  <2>1. \A i \in 1..4 : PartOf(i) \subseteq Written
    BY <1>4, Zenon DEF PartOf
  <2>2. 1 \in 1..4 /\ 2 \in 1..4 /\ 3 \in 1..4 /\ 4 \in 1..4
    OBVIOUS
  <2> QED
    BY <2>1, <2>2, Zenon DEF AllParts
<1>6. ASSUME NEW s \in Sections PROVE Given(s) \subseteq AllParts
  <2>1. PICK j \in 1..4 : sections[j] = s
    OBVIOUS
  <2>2. PICK i \in 1..4 : First(i) /\ j >= i /\ SameName(i, j)
    BY FirstOfName
  <2>3. Joint(i, j) = Given(s)
    BY <2>1, <2>2 DEF Joint
  <2>4. Joint(i, j) \subseteq AllJoint(i)
    <3>1. j = 1 \/ j = 2 \/ j = 3 \/ j = 4
      OBVIOUS
    <3> QED
      BY <3>1, Zenon DEF AllJoint
  <2>5. AllJoint(i) = PartOf(i)
    BY <2>2 DEF PartOf
  <2>6. PartOf(i) \subseteq AllParts
    <3>1. i = 1 \/ i = 2 \/ i = 3 \/ i = 4
      OBVIOUS
    <3> QED
      BY <3>1, Zenon DEF AllParts
  <2> QED
    BY <2>3, <2>4, <2>5, <2>6, Zenon
<1>7. Written \subseteq AllParts
  <2> SUFFICES ASSUME NEW o \in Written PROVE o \in AllParts
    OBVIOUS
  <2>1. \E s \in Sections : o \in Given(s)
    <3>1. CASE o \in {"backlog", "history", "gc"}
      BY <3>1 DEF Given, Sections
    <3>2. CASE o \in {"host", "port"}
      BY <3>2 DEF Given, Sections
    <3>3. CASE o = "timeout"
      BY <3>3 DEF Given, Sections
    <3>4. CASE o = "serial"
      <4>1. hasSerial \/ program # "radarcape"
        BY <3>4 DEF Written
      <4>2. o \in Given("device")
        BY <3>4, <4>1 DEF Given
      <4> QED
        BY <4>2 DEF Sections
    <3> QED
      BY <3>1, <3>2, <3>3, <3>4 DEF Written, Options
  <2> QED
    BY <1>6, <2>1
<1> QED
  BY <1>5, <1>7

-----------------------------------------------------------------------------
(* What is read from it.                                                   *)

AllRegistered ==
    /\ \A name \in Names : Registered(name)
    /\ \A o \in Options : HasOption(NameOf(o), o)

LEMMA EverythingRegistered ==
    ASSUME sections \in Seq(Sections), Len(sections) = 4,
           \A s \in Sections : \E j \in 1..4 : sections[j] = s
    PROVE  AllRegistered
<1>1. ASSUME NEW s \in Sections PROVE Registered(SectionName[s])
  BY DEF Registered
<1>2. ASSUME NEW s \in Sections, NEW o \in ToSet(SectionOptions[s])
      PROVE  HasOption(SectionName[s], o)
  BY DEF HasOption
<1>3. ASSUME NEW name \in Names PROVE Registered(name)
  <2>1. \E s \in Sections : SectionName[s] = name
    BY DEF SectionName, Names, Sections
  <2> QED
    BY <1>1, <2>1
<1>4. ASSUME NEW o \in Options PROVE HasOption(NameOf(o), o)
  <2>1. \E s \in Sections : SectionName[s] = NameOf(o) /\ o \in ToSet(SectionOptions[s])
    <3>1. CASE o \in {"backlog", "history", "gc"}
      <4>1. SectionName["buffer"] = NameOf(o) /\ o \in ToSet(SectionOptions["buffer"])
        BY <3>1 DEF SectionName, SectionOptions, NameOf, ToSet
      <4> QED
        BY <4>1 DEF Sections
    <3>2. CASE o \in {"host", "port"}
      <4>1. SectionName["network"] = NameOf(o) /\ o \in ToSet(SectionOptions["network"])
        BY <3>2 DEF SectionName, SectionOptions, NameOf, ToSet
      <4> QED
        BY <4>1 DEF Sections
    <3>3. CASE o = "timeout"
      <4>1. SectionName["relay"] = NameOf(o) /\ o \in ToSet(SectionOptions["relay"])
        BY <3>3 DEF SectionName, SectionOptions, NameOf, ToSet
      <4> QED
        BY <4>1 DEF Sections
    <3>4. CASE o = "serial"
      <4>1. SectionName["device"] = NameOf(o) /\ o \in ToSet(SectionOptions["device"])
        BY <3>4 DEF SectionName, SectionOptions, NameOf, ToSet
      <4> QED
        BY <4>1 DEF Sections
    <3> QED
      BY <3>1, <3>2, <3>3, <3>4 DEF Options
  <2> QED
    BY <1>2, <2>1
<1> QED
  BY <1>3, <1>4 DEF AllRegistered

(* What is printed is parsed to the same value.                            *)
LEMMA ReadBack ==
    ASSUME NEW v, Valid(v), Printable(v), v["host"] # <<>>, NEW o \in Options
    PROVE  /\ ValueText(o, v) # <<>> /\ Parses(Type[o], ValueText(o, v))
           /\ Parsed(Type[o], ValueText(o, v)) = v[o]
<1> DEFINE t == ValueText(o, v)
<1>1. CASE o \in {"backlog", "timeout", "serial", "port"}
  <2>0. v["port"] \in 0..PortMax /\ PortMax \in Nat
    BY ConfigAssumption DEF Valid, Numbers
  <2>1. v[o] \in 0..99 /\ (o = "port" => v[o] <= PortMax)
    <3>1. CASE o = "port"
      BY <2>0, <3>1 DEF Printable
    <3>2. CASE o \in {"backlog", "timeout", "serial"}
      BY <3>2 DEF Valid, Numbers
    <3> QED
      BY <1>1, <3>1, <3>2
  <2>2. t = Number(v[o])
    BY <1>1, PrintedAs
  <2>3. t # <<>> /\ strtoul(t) = v[o]
    BY <2>1, <2>2, NumberOf
  <2> HIDE DEF t
  <2>4. Parses(Type[o], t) /\ Parsed(Type[o], t) = strtoul(t)
    <3>1. CASE o = "port"
      <4>1. Type[o] = "port" /\ strtoul(t) <= PortMax
        BY <2>1, <2>3, <3>1 DEF Type
      <4> QED
        BY <4>1 DEF Parses, Parsed
    <3>2. CASE o # "port"
      <4>1. Type[o] = "int"
        BY <1>1, <3>2 DEF Type
      <4> QED
        BY <4>1 DEF Parses, Parsed
    <3> QED
      BY <3>1, <3>2
  <2> QED
    BY <2>3, <2>4 DEF t
<1>2. CASE o = "host"
  <2>1. t = v["host"] /\ Len(v["host"]) <= HostSize - 1
    BY <1>2, PrintedAs DEF Valid, Numbers
  <2> HIDE DEF t
  <2>2. Parses(Type[o], t) /\ Parsed(Type[o], t) = t
    BY <1>2, <2>1 DEF Type, Parses, Parsed
  <2> QED
    BY <1>2, <2>1, <2>2 DEF t
<1>3. CASE o \in {"history", "gc"}
  <2>1. v[o] \in BOOLEAN /\ Type[o] = "bool"
    BY <1>3 DEF Valid, Flags, Type
  <2>2. v[o] => t = <<"true">>
    BY <1>3, PrintedAs, Zenon
  <2>3. ~v[o] => t = <<"false">>
    BY <1>3, PrintedAs, Zenon
  <2> HIDE DEF t
  <2>4. Parses("bool", t) /\ Parsed("bool", t) = (t \in {<<"true">>, <<"1">>})
    <3>1. t \in {<<"true">>, <<"false">>, <<"0">>, <<"1">>}
      BY <2>2, <2>3, Zenon
    <3>2. Parses("bool", t)
      BY <3>1 DEF Parses
    <3>3. Parsed("bool", t) = (t \in {<<"true">>, <<"1">>})
      BY DEF Parsed
    <3> QED
      BY <3>2, <3>3
  <2>5. <<"false">> # <<"true">> /\ <<"false">> # <<"1">> /\ <<"true">> # <<>> /\ <<"false">> # <<>>
    OBVIOUS
  <2>6. (t \in {<<"true">>, <<"1">>}) <=> v[o]
    BY <2>2, <2>3, <2>5, Zenon
  <2>7. Parsed("bool", t) = v[o]
    <3> DEFINE p == t \in {<<"true">>, <<"1">>}
    <3>1. p \in BOOLEAN /\ (p <=> v[o])
      BY <2>6
    <3> HIDE DEF p
    <3>2. p = v[o]
      BY <2>1, <3>1
    <3> QED
      BY <2>4, <3>2, Zenon DEF p
  <2>8. t # <<>>
    BY <2>2, <2>3, <2>5, Zenon
  <2> QED
    BY <2>1, <2>4, <2>7, <2>8, Zenon DEF t
<1> QED
  BY <1>1, <1>2, <1>3 DEF Options

(* The options b after those of S have been set to the values v.           *)
SerialIn(b, S) == b.hasSerial \/ "serial" \in S
ValuesIn(b, S, v) == [o \in Options |-> IF o \in S THEN v[o] ELSE b.val[o]]
Merged(b, S, v) == [val |-> ValuesIn(b, S, v), hasSerial |-> SerialIn(b, S)]

LEMMA MergedNone ==
    ASSUME NEW b, NEW v, NEW x, x = [o \in Options |-> x[o]], NEW h \in BOOLEAN,
           b = [val |-> x, hasSerial |-> h]
    PROVE  Merged(b, {}, v) = b
<1>1. b.val = x /\ b.hasSerial = h
  BY Zenon
<1>2. ValuesIn(b, {}, v) = x
  BY <1>1 DEF ValuesIn
<1>3. SerialIn(b, {}) = h
  <2>1. (b.hasSerial \/ "serial" \in {}) = h
    BY <1>1
  <2> QED
    BY <2>1 DEF SerialIn
<1> QED
  BY <1>2, <1>3, Zenon DEF Merged

LEMMA MergedOne ==
    ASSUME NEW b, NEW S, NEW v, Valid(v), Printable(v), v["host"] # <<>>, NEW o \in Options,
           NEW line, line.key = o, line.value = ValueText(o, v)
    PROVE  LineAssigns(Merged(b, S, v), line) = Merged(b, S \cup {o}, v)
<1> DEFINE w == ValuesIn(b, S, v)
           t == ValueText(o, v)
<1>1. t # <<>> /\ Parses(Type[o], t) /\ Parsed(Type[o], t) = v[o]
  BY ReadBack
<1>2. Merged(b, S, v).val = w /\ Merged(b, S, v).hasSerial = SerialIn(b, S)
  BY Zenon DEF Merged
<1> HIDE DEF t
<1>3. LineAssigns(Merged(b, S, v), line) =
          [val |-> [w EXCEPT ![o] = v[o]], hasSerial |-> SerialIn(b, S) \/ o = "serial"]
  <2>1. Assigned(Merged(b, S, v), o, t, onErrorUseDefault) =
            [val |-> [Merged(b, S, v).val EXCEPT ![o] = Parsed(Type[o], t)],
             hasSerial |-> Merged(b, S, v).hasSerial \/ o = "serial"]
    BY <1>1, Zenon DEF Assigned
  <2>2. LineAssigns(Merged(b, S, v), line) = Assigned(Merged(b, S, v), o, t, onErrorUseDefault)
    BY Zenon DEF LineAssigns, t
  <2> QED
    BY <1>1, <1>2, <2>1, <2>2, Zenon
<1>4. [w EXCEPT ![o] = v[o]] = ValuesIn(b, S \cup {o}, v)
  BY DEF ValuesIn
<1>5. (SerialIn(b, S) \/ o = "serial") = SerialIn(b, S \cup {o})
  <2>1. (SerialIn(b, S) \/ o = "serial") <=> (b.hasSerial \/ "serial" \in S \cup {o})
    BY Zenon DEF SerialIn
  <2> QED
    BY <2>1 DEF SerialIn
<1> QED
  BY <1>3, <1>4, <1>5, Zenon DEF Merged

KeysUpto(L, i) == {L[j].key : j \in {k \in 1..i : L[k].kind = "option"}}

LEMMA KeysNext ==
    ASSUME NEW L, NEW i \in Nat
    PROVE  /\ KeysUpto(L, 0) = {}
           /\ L[i + 1].kind = "option" => KeysUpto(L, i + 1) = KeysUpto(L, i) \cup {L[i + 1].key}
           /\ L[i + 1].kind # "option" => KeysUpto(L, i + 1) = KeysUpto(L, i)
<1>1. 1..(i + 1) = 1..i \cup {i + 1} /\ 1..0 = {}
  OBVIOUS
<1>2. KeysUpto(L, 0) = {}
  BY <1>1, Zenon DEF KeysUpto
<1>3. L[i + 1].kind = "option" => KeysUpto(L, i + 1) = KeysUpto(L, i) \cup {L[i + 1].key}
  BY <1>1, Zenon DEF KeysUpto
<1>4. L[i + 1].kind # "option" => KeysUpto(L, i + 1) = KeysUpto(L, i)
  BY <1>1, Zenon DEF KeysUpto
<1> QED
  BY <1>2, <1>3, <1>4

LEMMA KeysAll ==
    ASSUME NEW L, Len(L) \in Nat, NEW S, Exactly(L, S)
    PROVE  KeysUpto(L, Len(L)) = S
  BY Zenon DEF Exactly, KeysUpto

Readable(file, v, b) ==
    /\ file.crlf = FALSE /\ Valid(v) /\ Printable(v) /\ v["host"] # <<>>
    /\ Merged(b, {}, v) = b

LEMMA BlockRead ==
    ASSUME AllRegistered, NEW file, NEW v, NEW b, Readable(file, v, b), NEW e, NEW S,
           Block(file.lines, "none", e, S, v)
    PROVE  Reading(file, b) = Result(Merged(b, S, v), e, "read")
<1> /\ file.crlf = FALSE /\ Valid(v) /\ Printable(v) /\ v["host"] # <<>>
    /\ Merged(b, {}, v) = b
  BY DEF Readable
<1> DEFINE L == file.lines
           n == Len(L)
           R(i) == Readings(file, b)[i]
<1>1. L \in Seq(Lines(v)) /\ Exactly(L, S)
  BY DEF Block
<1>2. PICK f : Path(f, L, "none", e)
  BY DEF Block
<1>3. n \in Nat /\ \A i \in 1..n : L[i] \in Lines(v)
  BY <1>1, LenProperties, ElementOfSeq, Zenon
<1>4. f[0] = "none" /\ f[n] = e /\ \A i \in 1..n : Follows(L[i], f[i - 1], f[i])
  BY <1>2, Zenon DEF Path
<1> DEFINE Right(i) == R(i) = Result(Merged(b, KeysUpto(L, i), v), f[i], "read")
           T == {i \in 0..n : ~Right(i)}
<1>5. Right(0)
  <2>1. R(0) = Result(b, "none", "read")
    BY <1>3, ReadingOf DEF Result
  <2>2. KeysUpto(L, 0) = {}
    BY KeysNext
  <2> QED
    BY <1>4, <2>1, <2>2, Zenon
<1>6. ASSUME NEW i \in 0..n, i + 1 \in 1..n, Right(i) PROVE Right(i + 1)
  <2> DEFINE k == i + 1
             line == L[k]
             K == KeysUpto(L, i)
             o == Merged(b, K, v)
  <2>0. i \in Nat /\ k - 1 = i /\ k \in 1..n
    BY <1>3, <1>6
  <2>1. R(k) = Meaning(file, Result(o, f[i], "read"), k)
    <3>1. R(k) = Meaning(file, R(k - 1), k)
      BY <1>3, <2>0, ReadingOf
    <3>2. R(k - 1) = Result(o, f[i], "read")
      BY <1>6, <2>0, Zenon
    <3> QED
      BY <3>1, <3>2, Zenon
  <2>2. Follows(line, f[i], f[k]) /\ line \in Lines(v)
    <3>1. Follows(L[k], f[k - 1], f[k]) /\ L[k] \in Lines(v)
      BY <1>3, <1>4, <2>0
    <3> QED
      BY <2>0, <3>1, Zenon
  <2>3. /\ KeysUpto(L, k) = (IF line.kind = "option" THEN K \cup {line.key} ELSE K)
    BY <2>0, KeysNext
  <2> HIDE DEF R, k, K, o
  <2>4. CASE line.kind = "section" /\ line.name \in Names
    <3>1. Registered(line.name) /\ f[k] = line.name
      BY <2>2, <2>4 DEF AllRegistered, Follows
    <3>2. Meaning(file, Result(o, f[i], "read"), k) = Result(o, line.name, "read")
      BY <2>4, <3>1, MeaningOfOthers
    <3>3. KeysUpto(L, k) = K
      BY <2>3, <2>4
    <3> QED
      BY <2>1, <3>1, <3>2, <3>3, Zenon DEF o, k
  <2>5. CASE line.kind \in {"comment", "empty"}
    <3>1. f[k] = f[i]
      BY <2>2, <2>5 DEF Follows
    <3>2. Meaning(file, Result(o, f[i], "read"), k) = Result(o, f[i], "read")
      BY <2>5, MeaningOfOthers
    <3>3. KeysUpto(L, k) = K
      BY <2>3, <2>5
    <3> QED
      BY <2>1, <3>1, <3>2, <3>3, Zenon DEF o, k
  <2>6. CASE /\ line.kind = "option" /\ line.key \in Options
             /\ line.value = ValueText(line.key, v)
    <3>1. f[k] = f[i] /\ f[i] = NameOf(line.key)
      BY <2>2, <2>6 DEF Follows
    <3>2. HasOption(f[i], line.key)
      BY <2>6, <3>1 DEF AllRegistered
    <3>3. ~WrapsAround(file, k)
      BY DEF WrapsAround
    <3>4. Meaning(file, Result(o, f[i], "read"), k) = Result(LineAssigns(o, line), f[i], "read")
      BY <2>6, <3>2, <3>3, MeaningOfOption
    <3>5. LineAssigns(o, line) = Merged(b, K \cup {line.key}, v)
      BY <2>6, MergedOne DEF o
    <3>6. KeysUpto(L, k) = K \cup {line.key}
      BY <2>3, <2>6
    <3> QED
      BY <2>1, <3>1, <3>4, <3>5, <3>6, Zenon DEF k
  <2> QED
    BY <2>2, <2>4, <2>5, <2>6, LineIs
<1>7. ASSUME T # {} PROVE FALSE
  <2>1. PICK i \in T : \A y \in T : i <= y
    <3>1. T \subseteq Nat
      BY <1>3
    <3> HIDE DEF T
    <3>2. Min(T) \in T /\ \A y \in T : Min(T) <= y
      BY <1>7, <3>1, LeastIndex
    <3> QED
      BY <3>2
  <2>2. i # 0
    BY <1>5, <2>1
  <2> HIDE DEF Right
  <2>3. i - 1 \in 0..n /\ (i - 1) + 1 = i /\ i \in 1..n /\ i - 1 \notin T
    BY <1>3, <2>1, <2>2
  <2>4. Right(i - 1)
    BY <2>3
  <2>5. Right(i)
    BY <1>6, <2>3, <2>4
  <2> QED
    BY <2>1, <2>5
<1>8. Right(n)
  BY <1>3, <1>7
<1>9. KeysUpto(L, n) = S
  BY <1>1, <1>3, KeysAll
<1> QED
  BY <1>4, <1>8, <1>9, Zenon DEF Reading

-----------------------------------------------------------------------------
(* The sections are registered once and in the same order at every start,  *)
(* and files are read one after the other.                                 *)

(* The steps of a login up to that which writes the number.                *)
Login == \/ SERIAL_getSerial \/ SerialKnown \/ serialResponse
         \/ SerialGivesUp \/ SerialReceived

LEMMA LoginKeeps ==
    ASSUME Login
    PROVE  /\ UNCHANGED <<program, order, sections, conf, files, parser, opened,
                          saved, restarts>>
           /\ pc \in {"run", "wait"} /\ pc' \in {"run", "wait", "write"}
           /\ disk' = disk \/ (disk' = NoFile /\ SerialReceived)
           /\ (val' = val /\ hasSerial' = hasSerial) \/ serialResponse
<1>1. CASE SERIAL_getSerial \/ SerialKnown
  BY <1>1 DEF SERIAL_getSerial, SerialKnown
<1>2. CASE serialResponse
  BY <1>2 DEF serialResponse
<1>3. CASE SerialGivesUp
  BY <1>3 DEF SerialGivesUp, environment
<1>4. CASE SerialReceived
  BY <1>4 DEF SerialReceived
<1> QED
  BY <1>1, <1>2, <1>3, <1>4 DEF Login

Registry ==
    /\ program \in {"radarcape", "dump1090"} /\ order \in Orders
    /\ Len(sections) <= 4
    /\ \A i \in 1..Len(sections) : sections[i] = order[i]
    /\ pc \in {"read", "parse", "closed", "crashed", "ready", "run", "wait", "write"} =>
          Len(sections) = 4

FilesInv ==
    /\ IsFile(conf)
    /\ files \in {<<>>, <<conf>>, <<disk, conf>>}
    /\ program = "radarcape" => files # <<disk, conf>>
    /\ pc \notin {"read", "parse", "closed", "crashed"} => files = <<>>

LEMMA OrderIs ==
    ASSUME order \in Orders
    PROVE  /\ order \in Seq(Sections) /\ Len(order) = 4
           /\ \A s \in Sections : \E j \in 1..4 : order[j] = s
<1>1. order \in Seq(Sections) /\ Len(order) = 4 /\ ToSet(order) = Sections
  BY ConfigAssumption DEF Sections
<1>2. \A s \in Sections : \E j \in 1..4 : order[j] = s
  <2>1. DOMAIN order = 1..4
    BY <1>1
  <2> QED
    BY <1>1, <2>1, Zenon DEF ToSet
<1> QED
  BY <1>1, <1>2

LEMMA AllSections ==
    ASSUME Registry, ConfigInv, Len(sections) = 4
    PROVE  /\ sections \in Seq(Sections)
           /\ \A s \in Sections : \E j \in 1..4 : sections[j] = s
           /\ AllRegistered
<1>1. sections \in Seq(Sections)
  BY DEF ConfigInv
<1>2. \A s \in Sections : \E j \in 1..4 : sections[j] = s
  BY OrderIs, Zenon DEF Registry
<1> QED
  BY <1>1, <1>2, EverythingRegistered

LEMMA RegistryInit == ASSUME Init PROVE Registry
  BY DEF Init, Registry

LEMMA RegistrySame ==
    ASSUME Registry, program' = program, order' = order, sections' = sections,
           \/ pc' = pc
           \/ pc \in {"read", "parse", "closed", "crashed", "ready", "run", "wait", "write"}
           \/ pc' = "exit"
    PROVE  Registry'
  BY DEF Registry

LEMMA RegistryStep == ASSUME ConfigInv, Registry, [Next]_vars PROVE Registry'
<1>1. CASE CFG_registerSection
  <2>1. /\ program' = program /\ order' = order /\ pc = "register" /\ pc' = pc
        /\ sections' = Append(sections, order[Len(sections) + 1])
        /\ Len(sections) < Len(order)
    BY <1>1 DEF CFG_registerSection
  <2>2. Len(order) = 4 /\ sections \in Seq(Sections) /\ Len(sections) \in Nat
        /\ order[Len(sections) + 1] \in Sections
    BY <2>1, OrderIs DEF Registry, ConfigInv
  <2>3. /\ Len(sections') = Len(sections) + 1
        /\ \A i \in 1..Len(sections) : sections'[i] = sections[i]
        /\ sections'[Len(sections) + 1] = order[Len(sections) + 1]
    BY <2>1, <2>2
  <2>4. \A i \in 1..Len(sections') : sections'[i] = order'[i]
    BY <2>1, <2>2, <2>3 DEF Registry
  <2> QED
    BY <2>1, <2>2, <2>3, <2>4 DEF Registry
<1>2. CASE CFG_loadDefaults
  <2>1. /\ program' = program /\ order' = order /\ sections' = sections
        /\ Len(sections) = Len(order)
    BY <1>2 DEF CFG_loadDefaults, environment
  <2> QED
    BY <2>1, OrderIs DEF Registry
<1>3. CASE CFG_readFile
  BY <1>3, RegistrySame DEF CFG_readFile, environment
<1>4. CASE parseSection
  BY <1>4, RegistrySame DEF parseSection, environment, Parsing
<1>5. CASE skipComment \/ skipNewline
  BY <1>5, RegistrySame DEF skipComment, skipNewline, environment
<1>6. CASE parseOption
  <2>1. /\ program' = program /\ order' = order /\ sections' = sections /\ pc = "parse"
    BY <1>6, Zenon DEF parseOption, Parsing, environment
  <2> QED
    BY <2>1, RegistrySame
<1>7. CASE parsed \/ fix
  BY <1>7, RegistrySame DEF parsed, fix, environment
<1>8. CASE CFG_check \/ Start
  BY <1>8, RegistrySame DEF CFG_check, Start, environment
<1>9. CASE CFG_write
  <2>1. program' = program /\ order' = order /\ pc' = "exit" /\ sections' = <<>>
    BY <1>9 DEF CFG_write
  <2> QED
    BY <2>1 DEF Registry
<1>10. CASE Login \/ CFG_writeSection
  BY <1>10, LoginKeeps, RegistrySame DEF CFG_writeSection
<1>11. CASE Restart
  <2>1. program' = program /\ order' = order /\ pc' = "register" /\ sections' = <<>>
    BY <1>11 DEF Restart
  <2> QED
    BY <2>1 DEF Registry
<1>12. CASE UNCHANGED vars
  BY <1>12, RegistrySame DEF vars
<1> QED
  BY <1>1, <1>2, <1>3, <1>4, <1>5, <1>6, <1>7, <1>8, <1>9, <1>10, <1>11, <1>12
     DEF Next, Stopped, Login

-----------------------------------------------------------------------------
(* Files that the program wrote consist of lines with the saved values.    *)
DiskInv ==
    /\ disk.crlf = FALSE /\ disk.lines \in Seq(Lines(saved.val))
    /\ Valid(saved.val) /\ Printable(saved.val)

LEMMA DiskIsFile == ASSUME DiskInv PROVE IsFile(disk)
  BY WrittenFile DEF DiskInv

LEMMA FilesLeft ==
    ASSUME NEW x, NEW y
    PROVE  /\ Tail(<<x>>) = <<>> /\ Head(<<x>>) = x
           /\ Tail(<<x, y>>) = <<y>> /\ Head(<<x, y>>) = x
<1>1. Tail(<<x>>) = <<>>
  OBVIOUS
<1>2. Tail(<<x, y>>) = <<y>>
  <2> DEFINE t == Tail(<<x, y>>)
  <2>1. t = [i \in 1..1 |-> y]
    OBVIOUS
  <2>2. <<y>> = [i \in 1..1 |-> y]
    OBVIOUS
  <2> QED
    BY <2>1, <2>2
<1> QED
  BY <1>1, <1>2

LEMMA FilesInit == ASSUME Init PROVE FilesInv
<1>1. IsFile(conf) /\ files = <<>>
  BY ConfigAssumption DEF Init
<1> QED
  BY <1>1 DEF FilesInv

LEMMA FilesSame ==
    ASSUME FilesInv, conf' = conf, disk' = disk, files' = files, program' = program,
           pc' \in {"read", "parse", "closed", "crashed"} \/ files = <<>>
    PROVE  FilesInv'
  BY DEF FilesInv

LEMMA FilesNone ==
    ASSUME FilesInv, IsFile(conf'), files' = <<>>
    PROVE  FilesInv'
  BY DEF FilesInv

LEMMA FilesStep ==
    ASSUME ConfigInv, Registry, DiskInv, FilesInv, [Next]_vars PROVE FilesInv'
<1>1. CASE CFG_registerSection
  BY <1>1, FilesSame DEF CFG_registerSection, FilesInv
<1>2. CASE CFG_loadDefaults
  <2>1. /\ files' = FilesToRead /\ program' = program /\ conf' = conf /\ disk' = disk
        /\ pc' = "read"
    BY <1>2 DEF CFG_loadDefaults, environment
  <2>2. CASE program = "radarcape"
    BY <2>1, <2>2 DEF FilesInv, FilesToRead
  <2>3. CASE program # "radarcape"
    BY <2>1, <2>3 DEF FilesInv, FilesToRead
  <2> QED
    BY <2>2, <2>3
<1>3. CASE CFG_readFile
  <2>1. /\ files' = Tail(files) /\ program' = program /\ conf' = conf /\ disk' = disk
        /\ pc' \in {"read", "parse"} /\ files # <<>>
    BY <1>3 DEF CFG_readFile, environment
  <2>2. files = <<conf>> \/ files = <<disk, conf>>
    BY <2>1 DEF FilesInv
  <2>3. files' = <<>> \/ files' = <<conf'>>
    <3>1. Tail(<<conf>>) = <<>> /\ Tail(<<disk, conf>>) = <<conf>>
      BY FilesLeft, Zenon
    <3> QED
      BY <2>1, <2>2, <3>1, Zenon
  <2>4. <<>> # <<disk', conf'>> /\ <<conf'>> # <<disk', conf'>>
    OBVIOUS
  <2>5. files' \in {<<>>, <<conf'>>, <<disk', conf'>>} /\ files' # <<disk', conf'>>
    BY <2>3, <2>4, Zenon
  <2>6. IsFile(conf') /\ pc' \in {"read", "parse", "closed", "crashed"}
    BY <2>1 DEF FilesInv
  <2> QED
    BY <2>5, <2>6 DEF FilesInv
<1>4. CASE parseSection
  BY <1>4, FilesSame DEF parseSection, environment, Parsing
<1>5. CASE skipComment \/ skipNewline
  BY <1>5, FilesSame DEF skipComment, skipNewline, environment, Parsing
<1>6. CASE parseOption
  <2>1. /\ program' = program /\ conf' = conf /\ disk' = disk /\ files' = files
        /\ pc' \in {"parse", "crashed"}
    BY <1>6, Zenon DEF parseOption, Parsing, environment
  <2> QED
    BY <2>1, FilesSame
<1>7. CASE parsed \/ fix
  BY <1>7, FilesSame DEF parsed, fix, environment
<1>8. CASE CFG_check \/ Start
  BY <1>8, FilesSame DEF CFG_check, Start, environment, FilesInv
<1>9. CASE CFG_write
  BY <1>9, FilesNone DEF CFG_write, FilesInv
<1>10. CASE Login \/ CFG_writeSection
  BY <1>10, LoginKeeps, FilesNone DEF CFG_writeSection, FilesInv
<1>11. CASE Restart
  <2>1. files' = <<>> /\ conf' \in {conf, disk}
    BY <1>11 DEF Restart
  <2> QED
    BY <2>1, DiskIsFile, FilesNone DEF FilesInv
<1>12. CASE UNCHANGED vars
  BY <1>12, FilesSame DEF vars, FilesInv
<1> QED
  BY <1>1, <1>2, <1>3, <1>4, <1>5, <1>6, <1>7, <1>8, <1>9, <1>10, <1>11, <1>12
     DEF Next, Stopped, Login

-----------------------------------------------------------------------------
(* The parser, while a file is read and when it is closed.                 *)

ParserInv ==
    /\ sectionState = "VALID" => sectionName # "none"
    /\ \A file, b : (file = opened.file /\ b = opened.before) =>
          /\ pc \in {"parse", "closed", "crashed"} => IsFile(file)
          /\ Progress(file, b)

LEMMA ParserInit == ASSUME Init PROVE ParserInv
  BY DEF Init, ParserInv, Progress

LEMMA ParserIdle ==
    ASSUME pc' \notin {"parse", "closed", "crashed"},
           sectionState' = "VALID" => sectionName' # "none"
    PROVE  ParserInv'
  BY DEF ParserInv, Progress

(* What parseOption() assigns is what an option line of the file says.     *)
LEMMA OptionEffect ==
    ASSUME NEW file, IsFile(file), NEW b, NEW i \in 0..Len(file.lines),
           Consumed(file, b, i), parseOption, sections \in Seq(Sections)
    PROVE  \/ val' = val /\ hasSerial' = hasSerial
           \/ \E k \in 1..Len(file.lines) :
                 /\ file.lines[k].kind = "option" /\ file.lines[k].key \in Options
                 /\ Assign(Assigned(Current, file.lines[k].key, file.lines[k].value, TRUE))
<1> DEFINE k == i + 1
           line == file.lines[k]
<1> SUFFICES ASSUME ~(val' = val /\ hasSerial' = hasSerial)
             PROVE  /\ k \in 1..Len(file.lines)
                    /\ line.kind = "option" /\ line.key \in Options
                    /\ Assign(Assigned(Current, line.key, line.value, TRUE))
  BY Zenon
<1>1. /\ input # <<>> /\ input[1] \notin {"[", "CR", "LF", "#"}
      /\ ~NoEquals /\ ~Crash /\ Known
      /\ Assign(Assigned(Current, input[1], LineValue, TRUE))
  BY OptionCases, Zenon
<1>2. k \in 1..Len(file.lines) /\ input = TextFrom(file)[k]
  BY <1>1, Where
<1> HIDE DEF k
<1>3. line.kind \in {"option", "key"} /\ input[1] = line.key
  <2>1. WellFormed(line)
    BY <1>2, LineOfText
  <2>2. line.kind \in {"section", "open", "trailing", "option", "key", "comment", "empty"}
    BY <2>1 DEF WellFormed
  <2> QED
    BY <1>1, <1>2, <2>2, FirstCharacter
<1>4. line.kind # "key"
  <2> SUFFICES ASSUME line.kind = "key" PROVE FALSE
    OBVIOUS
  <2>1. Memchr(input, "=") = 0
    BY <1>1, <1>2, KeyAlone DEF NoEquals
  <2> QED
    BY <1>1, <2>1 DEF Crash, Known
<1>5. line.kind = "option"
  BY <1>3, <1>4
<1>6. LineValue = line.value
  BY <1>2, <1>5, OptionFound DEF LineValue
<1>7. line.key \in Options
  BY <1>1, <1>3, OptionSet DEF Known
<1> QED
  BY <1>1, <1>2, <1>3, <1>5, <1>6, <1>7, Zenon

(* A step of the parser.                                                   *)
LEMMA ParserMoves ==
    ASSUME ConfigInv, ParserInv, pc = "parse", opened' = opened,
           sectionState' = "VALID" => sectionName' # "none",
           ASSUME NEW file, IsFile(file), NEW b, NEW i \in 0..Len(file.lines),
                  Consumed(file, b, i)
           PROVE  Progress(file, b)'
    PROVE  ParserInv'
<1>1. PICK file, b : file = opened.file /\ b = opened.before
  OBVIOUS
<1>2. IsFile(file) /\ Progress(file, b)
  BY <1>1, Zenon DEF ParserInv
<1>3. PICK i \in 0..Len(file.lines) : Consumed(file, b, i)
  BY <1>2 DEF Progress
<1>4. Progress(file, b)'
  BY <1>2, <1>3
<1>5. file = opened'.file /\ b = opened'.before
  BY <1>1
<1> QED
  BY <1>2, <1>4, <1>5, Zenon DEF ParserInv

LEMMA ParserStep ==
    ASSUME ConfigInv, Registry, DiskInv, FilesInv, ParserInv, [Next]_vars
    PROVE  ParserInv'
<1>0. sectionState = "VALID" => sectionName # "none"
  BY DEF ParserInv
<1>1. CASE CFG_registerSection \/ CFG_loadDefaults
  BY <1>0, <1>1, ParserIdle DEF CFG_registerSection, CFG_loadDefaults, parser
<1>2. CASE CFG_readFile
  <2>1. CASE ~MMAP_open(Head(files))
    BY <1>0, <1>2, <2>1, ParserIdle DEF CFG_readFile, parser
  <2>2. CASE MMAP_open(Head(files))
    <3>1. /\ input' = Encode(Head(files)) /\ sectionState' = "UNKNOWN" /\ pc' = "parse"
          /\ opened' = [file |-> Head(files), before |-> Current] /\ files # <<>>
          /\ val' = val /\ hasSerial' = hasSerial
      BY <1>2, <2>2 DEF CFG_readFile
    <3>2. PICK file, b : file = Head(files) /\ b = Current
      OBVIOUS
    <3>3. opened'.file = file /\ opened'.before = b
      BY <3>1, <3>2
    <3>4. IsFile(file)
      <4>1. IsFile(conf) /\ IsFile(disk)
        BY DiskIsFile DEF FilesInv
      <4>2. files = <<conf>> \/ files = <<disk, conf>>
        BY <3>1 DEF FilesInv
      <4>3. file = conf \/ file = disk
        BY <3>2, <4>2, FilesLeft, Zenon
      <4> QED
        BY <4>1, <4>3
    <3>5. Len(file.lines) \in Nat
      BY <3>4 DEF IsFile
    <3>6. Readings(file, b)'[0] = [opts |-> b, section |-> "none", status |-> "read"]
      BY <3>5, ReadingsNext, Zenon DEF AllReadings
    <3>7. Current' = b /\ SectionIn' = "none" /\ input' = TextFrom(file)[1]
      BY <3>1, <3>2, CurrentStays DEF SectionIn, Encode
    <3>8. Consumed(file, b, 0)'
      <4>1. 0 + 1 = 1
        OBVIOUS
      <4> QED
        BY <3>6, <3>7, <4>1, Zenon DEF Consumed, Result
    <3>9. 0 \in 0..Len(file.lines)
      BY <3>5
    <3>10. Progress(file, b)'
      BY <3>1, <3>8, <3>9, Zenon DEF Progress
    <3> QED
      BY <3>1, <3>3, <3>4, <3>10, Zenon DEF ParserInv
  <2> QED
    BY <2>1, <2>2
<1>3. CASE parseSection
  <2>1. pc = "parse" /\ opened' = opened
    BY <1>3 DEF parseSection, Parsing
  <2>2. sectionState' = "VALID" => sectionName' # "none"
    <3>1. \/ sectionState' # "VALID"
          \/ Registered(input[2]) /\ sectionName' = input[2]
      BY <1>3 DEF parseSection
    <3>2. ~Registered("none")
      BY NoSection DEF ConfigInv
    <3> QED
      BY <3>1, <3>2
  <2>3. ASSUME NEW file, IsFile(file), NEW b, NEW i \in 0..Len(file.lines),
               Consumed(file, b, i)
        PROVE  Progress(file, b)'
    BY <1>3, <2>3, HeadingParsed
  <2> QED
    BY <2>1, <2>2, <2>3, ParserMoves
<1>4. CASE skipComment \/ skipNewline \/ parsed
  <2>1. /\ pc = "parse" /\ opened' = opened /\ sectionState' = sectionState
        /\ sectionName' = sectionName
    BY <1>4 DEF skipComment, skipNewline, parsed, Parsing, parser
  <2>3. ASSUME NEW file, IsFile(file), NEW b, NEW i \in 0..Len(file.lines),
               Consumed(file, b, i)
        PROVE  Progress(file, b)'
    BY <1>4, <2>3, CommentParsed, NewlineParsed, EndParsed
  <2> QED
    BY <1>0, <2>1, <2>3, ParserMoves
<1>5. CASE parseOption
  <2>1. /\ pc = "parse" /\ opened' = opened /\ sectionState' = sectionState
        /\ sectionName' = sectionName
    BY <1>5, Zenon DEF parseOption, Parsing
  <2>3. ASSUME NEW file, IsFile(file), NEW b, NEW i \in 0..Len(file.lines),
               Consumed(file, b, i)
        PROVE  Progress(file, b)'
    BY <1>0, <1>5, <2>3, OptionParsed DEF ConfigInv
  <2> QED
    BY <1>0, <2>1, <2>3, ParserMoves
<1>6. CASE fix \/ CFG_check \/ Start
  BY <1>0, <1>6, ParserIdle DEF fix, CFG_check, Start, parser
<1>7. CASE CFG_write \/ Login \/ CFG_writeSection
  BY <1>0, <1>7, LoginKeeps, ParserIdle DEF CFG_write, CFG_writeSection, parser
<1>8. CASE Restart
  BY <1>8, ParserIdle DEF Restart
<1>9. CASE UNCHANGED vars
  <2>1. /\ sections' = sections /\ program' = program /\ pc' = pc /\ opened' = opened
        /\ val' = val /\ hasSerial' = hasSerial /\ input' = input /\ success' = success
        /\ sectionState' = sectionState /\ sectionName' = sectionName
    BY <1>9 DEF vars
  <2>2. CASE pc \notin {"parse", "closed", "crashed"}
    BY <1>0, <2>1, <2>2, ParserIdle
  <2>3. CASE pc \in {"parse", "closed", "crashed"}
    <3>1. PICK file, b : file = opened.file /\ b = opened.before
      OBVIOUS
    <3>2. IsFile(file) /\ Progress(file, b)
      BY <2>3, <3>1, Zenon DEF ParserInv
    <3>3. Current' = Current /\ SectionIn' = SectionIn /\ Outcome' = Outcome
      BY <2>1, CurrentStays DEF SectionIn, Outcome
    <3>4. Len(file.lines) \in Nat
      BY <3>2 DEF IsFile
    <3>5. CASE pc = "parse"
      <4>1. PICK i \in 0..Len(file.lines) : Consumed(file, b, i)
        BY <3>2, <3>5 DEF Progress
      <4>2. /\ Readings(file, b)[i] = Result(Current', SectionIn', "read")
            /\ \/ input' = TextFrom(file)[i + 1]
               \/ input' = <<"LF">> \o TextFrom(file)[i + 1]
        BY <2>1, <3>3, <4>1, Zenon DEF Consumed
      <4>3. Progress(file, b)'
        BY <2>1, <3>2, <3>5, <4>2, Moves
      <4> QED
        BY <1>0, <2>1, <3>1, <3>2, <4>3, Zenon DEF ParserInv
    <3>6. CASE pc \in {"closed", "crashed"}
      <4>1. PICK sec : Readings(file, b)[Len(file.lines)] = Result(Current, sec, Outcome)
        BY <3>2, <3>6 DEF Progress
      <4>2. Readings(file, b)[Len(file.lines)] = Result(Current', sec, Outcome')
        BY <3>3, <4>1, Zenon
      <4>3. Progress(file, b)'
        BY <2>1, <3>2, <3>4, <3>6, <4>2, Ends
      <4> QED
        BY <1>0, <2>1, <3>1, <3>2, <4>3, Zenon DEF ParserInv
    <3> QED
      BY <2>3, <3>5, <3>6
  <2> QED
    BY <2>2, <2>3
<1> QED
  BY <1>1, <1>2, <1>3, <1>4, <1>5, <1>6, <1>7, <1>8, <1>9 DEF Next, Stopped, Login

-----------------------------------------------------------------------------
(* The values are such that their lines can be read again, and so are the  *)
(* files that the program wrote.                                           *)

LEMMA DefaultPrintable == Printable(Default)
<1>1. "1" \in DigitSet
  BY DEF DigitSet, Digits, ToSet
<1>2. "1" \in Char \ {"CR", "LF"} /\ "1" # "SP"
  BY <1>1, DigitsAre
<1>3. Plain(<<"1">>)
  BY <1>2 DEF Plain
<1> QED
  BY <1>3 DEF Printable, Default

(* Setting an option to a printable value.                                 *)
LEMMA SetPrintable ==
    ASSUME NEW v, Valid(v), Printable(v), NEW o \in Options, NEW x,
           o = "host" => Plain(x), o = "port" => x \in 0..99
    PROVE  Printable([v EXCEPT ![o] = x])
<1> DEFINE w == [v EXCEPT ![o] = x]
<1>1. \A p \in Options : w[p] = IF p = o THEN x ELSE v[p]
  BY DEF Valid
<1>2. "host" \in Options /\ "port" \in Options
  BY DEF Options
<1> HIDE DEF w
<1>3. /\ w["host"] = IF "host" = o THEN x ELSE v["host"]
      /\ w["port"] = IF "port" = o THEN x ELSE v["port"]
  BY <1>1, <1>2, Zenon
<1>4. Printable(w)
  BY <1>3, Zenon DEF Printable
<1> QED
  BY <1>4 DEF w

LEMMA AssignedPrintable ==
    ASSUME Valid(val), Printable(val), NEW o \in Options, NEW t, Plain(t),
           Assign(Assigned(Current, o, t, TRUE))
    PROVE  Printable(val')
<1>1. CASE t # <<>> /\ Parses(Type[o], t)
  <2> DEFINE x == Parsed(Type[o], t)
  <2>1. val' = [val EXCEPT ![o] = x]
    BY Zenon, <1>1 DEF Assign, Assigned, Current
  <2>2. o = "host" => x = t
    BY DEF Parsed, Type
  <2>3. o = "port" => x = strtoul(t)
    BY DEF Parsed, Type
  <2>4. strtoul(t) \in 0..99
    BY NumberRange
  <2> HIDE DEF x
  <2> QED
    BY <2>1, <2>2, <2>3, <2>4, SetPrintable
<1>2. CASE ~(t # <<>> /\ Parses(Type[o], t))
  <2> DEFINE x == Default[o]
  <2>1. val' = [val EXCEPT ![o] = x]
    BY Zenon, <1>2 DEF Assign, Assigned, Current
  <2>2. /\ o = "host" => Plain(x)
        /\ o = "port" => x \in 0..99
    BY DefaultPrintable DEF Printable
  <2> HIDE DEF x
  <2> QED
    BY <2>1, <2>2, SetPrintable
<1> QED
  BY <1>1, <1>2

LEMMA FixKeeps ==
    ASSUME NEW v, Valid(v)
    PROVE  /\ cfgFix(v)["host"] = v["host"] /\ cfgFix(v)["port"] = v["port"]
           /\ cfgFix(v)["serial"] = v["serial"]
<1> DEFINE n == IF v["backlog"] < 2 THEN 2 ELSE v["backlog"]
           b == v["gc"] /\ v["history"]
<1>1. cfgFix(v) = [[v EXCEPT !["backlog"] = n] EXCEPT !["gc"] = b]
  BY Zenon DEF cfgFix
<1> HIDE DEF n, b
<1> QED
  BY <1>1 DEF Valid, Options

(* The line of the open file that parseOption() assigns.                   *)
LEMMA OptionLineAssigned ==
    ASSUME ConfigInv, ParserInv, parseOption
    PROVE  \/ val' = val /\ hasSerial' = hasSerial
           \/ \E k \in 1..Len(opened.file.lines) :
                 /\ WellFormed(opened.file.lines[k])
                 /\ opened.file.lines[k].kind = "option"
                 /\ opened.file.lines[k].key \in Options
                 /\ Assign(Assigned(Current, opened.file.lines[k].key,
                                    opened.file.lines[k].value, TRUE))
<1>1. PICK file, b : file = opened.file /\ b = opened.before
  OBVIOUS
<1>2. pc = "parse"
  BY Zenon DEF parseOption, Parsing
<1>3. IsFile(file) /\ Progress(file, b)
  BY <1>1, <1>2, Zenon DEF ParserInv
<1>4. PICK i \in 0..Len(file.lines) : Consumed(file, b, i)
  BY <1>2, <1>3 DEF Progress
<1>5. \/ val' = val /\ hasSerial' = hasSerial
      \/ \E k \in 1..Len(file.lines) :
            /\ file.lines[k].kind = "option" /\ file.lines[k].key \in Options
            /\ Assign(Assigned(Current, file.lines[k].key, file.lines[k].value, TRUE))
  BY <1>3, <1>4, OptionEffect, Zenon DEF ConfigInv
<1>6. \A k \in 1..Len(file.lines) : WellFormed(file.lines[k])
  BY <1>3 DEF IsFile
<1> QED
  BY <1>1, <1>5, <1>6, Zenon

LEMMA PrintableStep ==
    ASSUME ConfigInv, ParserInv, Printable(val), [Next]_vars
    PROVE  Printable(val')
<1>0. Valid(val)
  BY DEF ConfigInv
<1>1. CASE val' = val
  BY <1>1, Zenon
<1>2. CASE val' = Default
  BY <1>2, DefaultPrintable
<1>3. CASE parseOption
  <2>1. ASSUME NEW line, WellFormed(line), line.kind = "option", line.key \in Options,
               Assign(Assigned(Current, line.key, line.value, TRUE))
        PROVE  Printable(val')
    <3>1. Plain(line.value)
      BY <2>1 DEF WellFormed, Plain
    <3> QED
      BY <1>0, <2>1, <3>1, AssignedPrintable
  <2> QED
    BY <1>1, <1>3, <2>1, OptionLineAssigned, Zenon
<1>4. CASE fix
  <2>1. val' = cfgFix(val) \/ val' = val
    BY <1>4 DEF fix
  <2>2. Printable(cfgFix(val))
    BY <1>0, FixKeeps, Zenon DEF Printable
  <2> QED
    BY <2>1, <2>2
<1>5. CASE serialResponse
  <2>1. val' = [val EXCEPT !["serial"] = issued + 1]
    BY <1>5 DEF serialResponse
  <2>2. "serial" \in Options /\ "serial" # "host" /\ "serial" # "port"
    BY DEF Options
  <2> QED
    BY <1>0, <2>1, <2>2, SetPrintable
<1>6. [Next]_vars => \/ val' = val \/ val' = Default
                     \/ parseOption \/ fix \/ serialResponse
  <2>1. CASE CFG_registerSection \/ CFG_loadDefaults \/ CFG_readFile
    BY <2>1 DEF CFG_registerSection, CFG_loadDefaults, CFG_readFile
  <2>2. CASE parseSection \/ skipComment \/ skipNewline \/ parsed
    BY <2>2 DEF parseSection, skipComment, skipNewline, parsed
  <2>3. CASE CFG_check \/ Start \/ CFG_write \/ CFG_writeSection
    BY <2>3 DEF CFG_check, Start, CFG_write, CFG_writeSection
  <2>4. CASE Restart \/ UNCHANGED vars
    BY <2>4 DEF Restart, vars
  <2>5. CASE Login
    BY <2>5, LoginKeeps
  <2> QED
    BY <2>1, <2>2, <2>3, <2>4, <2>5 DEF Next, Stopped, Login
<1> QED
  BY <1>1, <1>2, <1>3, <1>4, <1>5, <1>6

-----------------------------------------------------------------------------
(* The file that CFG_writeSection() writes.                                *)
LEMMA DeviceWritten ==
    Block(Heading("device") \o writeOptions("device"), "none", "DEVICE", Given("device"), val)
<1>1. "device" \in Sections /\ SectionName["device"] = "DEVICE" /\ "DEVICE" \in Names
      /\ "none" \in Places
  BY DEF Sections, SectionName, Names, Places
<1>2. Block(Heading("device"), "none", "DEVICE", {}, val)
  BY <1>1, HeadingBlock DEF Heading, HeadingLine
<1>3. Block(writeOptions("device"), "DEVICE", "DEVICE", Given("device"), val)
  BY <1>1, OptionsWritten
<1>4. Block(Heading("device") \o writeOptions("device"), "none", "DEVICE",
            {} \cup Given("device"), val)
  BY <1>2, <1>3, BlocksJoin
<1>5. {} \cup Given("device") = Given("device")
  OBVIOUS
<1> QED
  BY <1>4, <1>5, Zenon

LEMMA DiskInit == ASSUME Init PROVE DiskInv /\ Printable(val)
<1>1. disk = NoFile /\ saved = None /\ val = Default
  BY DEF Init
<1>2. disk.crlf = FALSE /\ disk.lines = <<>> /\ saved.val = Default
  BY <1>1 DEF NoFile, None
<1>3. disk.lines \in Seq(Lines(Default))
  <2>1. ASSUME NEW X PROVE <<>> \in Seq(X)
    OBVIOUS
  <2> QED
    BY <1>2, <2>1
<1> QED
  BY <1>1, <1>2, <1>3, DefaultValid, DefaultPrintable DEF DiskInv

LEMMA SnapshotIs ==
    /\ Snapshot.val = val /\ Snapshot.hasSerial = hasSerial
    /\ Snapshot.exists = TRUE /\ Snapshot.at = restarts
  BY Zenon DEF Snapshot

LEMMA DiskStep ==
    ASSUME ConfigInv, Registry, DiskInv, Printable(val), [Next]_vars
    PROVE  DiskInv'
<1>1. CASE disk' = disk /\ saved' = saved
  BY <1>1 DEF DiskInv
<1>2. CASE CFG_write
  <2>1. disk' = [lines |-> writeSections, crlf |-> FALSE] /\ saved' = Snapshot /\ pc = "ready"
    BY <1>2 DEF CFG_write
  <2>2. sections \in Seq(Sections) /\ Len(sections) = 4
    BY <2>1 DEF ConfigInv, Registry
  <2>3. writeSections \in Seq(Lines(val))
    BY <2>2, SectionsWritten, Zenon DEF Block
  <2>4. disk'.crlf = FALSE /\ disk'.lines = writeSections /\ saved'.val = val
    BY <2>1, SnapshotIs
  <2> QED
    BY <2>3, <2>4 DEF DiskInv, ConfigInv
<1>3. CASE CFG_writeSection
  <2> DEFINE L == Heading("device") \o writeOptions("device")
  <2>1. disk' = [lines |-> L, crlf |-> FALSE] /\ saved' = Snapshot
    BY <1>3 DEF CFG_writeSection
  <2>2. L \in Seq(Lines(val))
    BY DeviceWritten, Zenon DEF Block
  <2> HIDE DEF L
  <2>3. disk'.crlf = FALSE /\ disk'.lines = L /\ saved'.val = val
    BY <2>1, SnapshotIs
  <2> QED
    BY <2>2, <2>3 DEF DiskInv, ConfigInv
<1>4. CASE SerialReceived
  <2>1. disk' = NoFile /\ saved' = saved
    BY <1>4 DEF SerialReceived
  <2>2. disk'.crlf = FALSE /\ disk'.lines = <<>>
    BY <2>1 DEF NoFile
  <2>3. ASSUME NEW X PROVE <<>> \in Seq(X)
    OBVIOUS
  <2>4. disk'.lines \in Seq(Lines(saved.val))
    BY <2>2, <2>3
  <2> QED
    BY <2>1, <2>2, <2>4 DEF DiskInv
<1>5. \/ disk' = disk /\ saved' = saved
      \/ CFG_write \/ CFG_writeSection \/ SerialReceived
  <2>1. CASE CFG_registerSection \/ CFG_loadDefaults \/ CFG_readFile
    BY <2>1 DEF CFG_registerSection, CFG_loadDefaults, CFG_readFile, environment
  <2>2. CASE parseSection \/ skipComment \/ skipNewline \/ parsed
    BY <2>2 DEF parseSection, skipComment, skipNewline, parsed, environment
  <2>3. CASE parseOption
    BY <2>3, Zenon DEF parseOption, environment
  <2>4. CASE CFG_check \/ Start \/ fix
    BY <2>4 DEF CFG_check, Start, fix, environment
  <2>5. CASE Restart \/ UNCHANGED vars
    BY <2>5 DEF Restart, vars
  <2>6. CASE Login
    BY <2>6, LoginKeeps
  <2> QED
    BY <2>1, <2>2, <2>3, <2>4, <2>5, <2>6 DEF Next, Stopped, Login
<1> QED
  BY <1>1, <1>2, <1>3, <1>4, <1>5

-----------------------------------------------------------------------------
ReadingInv ==
    ConfigInv /\ Registry /\ DiskInv /\ Printable(val) /\ FilesInv /\ ParserInv

LEMMA ReadingInvariant == Spec => []ReadingInv
<1>1. Init => ReadingInv
  BY ConfigInit, RegistryInit, DiskInit, FilesInit, ParserInit DEF ReadingInv
<1>2. ReadingInv /\ [Next]_vars => ReadingInv'
  <2> SUFFICES ASSUME ReadingInv, [Next]_vars PROVE ReadingInv'
    OBVIOUS
  <2>1. ConfigInv /\ Registry /\ DiskInv /\ Printable(val) /\ FilesInv /\ ParserInv
    BY DEF ReadingInv
  <2>2. ConfigInv'
    BY <2>1, ConfigKept
  <2>3. Registry' /\ DiskInv' /\ FilesInv' /\ ParserInv' /\ Printable(val')
    BY <2>1, RegistryStep, DiskStep, FilesStep, ParserStep, PrintableStep
  <2> QED
    BY <2>2, <2>3 DEF ReadingInv
<1> QED
  BY <1>1, <1>2, PTL DEF Spec

(* Whatever lines a file has and whichever of the two end-of-line          *)
(* conventions, parsing it has exactly the effect of its lines, one by one *)
(* and each in the section it is in, and fails or crashes exactly at those *)
(* that Meaning() tells: what memchr() finds beyond a line matters only    *)
(* where Meaning() says so.  That both conventions or all values are       *)
(* treated as the comments promise is not part of it.                      *)
THEOREM FilesAreRead == Spec => []ReadsLines
<1>1. ReadingInv => ReadsLines
  <2> SUFFICES ASSUME ReadingInv, pc \in {"closed", "crashed"}
               PROVE  /\ Reading(opened.file, opened.before).opts = Current
                      /\ Reading(opened.file, opened.before).status = Outcome
    BY DEF ReadsLines, Outcome
  <2>1. PICK file, b : file = opened.file /\ b = opened.before
    OBVIOUS
  <2>2. Progress(file, b)
    BY <2>1, Zenon DEF ReadingInv, ParserInv
  <2>3. PICK sec : Readings(file, b)[Len(file.lines)] = Result(Current, sec, Outcome)
    BY <2>2 DEF Progress
  <2>4. PICK o, x : o = Current /\ x = Outcome
    OBVIOUS
  <2>5. Reading(file, b).opts = o /\ Reading(file, b).status = x
    BY <2>3, <2>4 DEF Reading, Result
  <2> QED
    BY <2>1, <2>4, <2>5
<1> QED
  BY <1>1, ReadingInvariant, PTL

-----------------------------------------------------------------------------
(* The files are read in order, the first with the defaults.               *)
Fresh == [val |-> Default, hasSerial |-> FALSE]
FirstFile == IF program = "radarcape" THEN conf ELSE disk
OtherFiles == IF program = "radarcape" THEN <<>> ELSE <<conf>>

OrderInv ==
    /\ (pc = "read" /\ files = FilesToRead) => Current = Fresh
    /\ pc \in {"parse", "closed", "crashed"} => files # FilesToRead
    /\ (pc \in {"parse", "closed"} /\ files = OtherFiles) =>
          opened.file = FirstFile /\ opened.before = Fresh
    /\ (pc \in {"parse", "closed"} /\ program = "dump1090" /\ files = <<>>) =>
          opened.file = conf

LEMMA OrderInit == ASSUME Init PROVE OrderInv
  BY DEF Init, OrderInv

LEMMA OrderIdle ==
    ASSUME pc' \notin {"read", "parse", "closed", "crashed"} PROVE OrderInv'
  BY DEF OrderInv

LEMMA OrderSame ==
    ASSUME OrderInv, files' = files, opened' = opened, program' = program, conf' = conf,
           disk' = disk,
           \/ pc = "parse" /\ pc' \in {"parse", "closed", "crashed"}
           \/ pc = "closed" /\ pc' = "read"
           \/ pc' = pc /\ val' = val /\ hasSerial' = hasSerial
    PROVE  OrderInv'
<1>1. FilesToRead' = FilesToRead /\ FirstFile' = FirstFile /\ OtherFiles' = OtherFiles
  BY DEF FilesToRead, FirstFile, OtherFiles
<1>2. (val' = val /\ hasSerial' = hasSerial) => Current' = Current
  BY CurrentStays
<1> QED
  BY <1>1, <1>2, Zenon DEF OrderInv

LEMMA OrderStep ==
    ASSUME ConfigInv, Registry, FilesInv, OrderInv, [Next]_vars PROVE OrderInv'
<1>0. program \in {"radarcape", "dump1090"}
  BY DEF Registry
<1>1. CASE CFG_registerSection
  BY <1>1, OrderIdle DEF CFG_registerSection
<1>2. CASE CFG_loadDefaults
  <2>1. val' = Default /\ hasSerial' = FALSE /\ pc' = "read"
    BY <1>2 DEF CFG_loadDefaults
  <2>2. Current' = Fresh
    BY <2>1, Zenon DEF Current, Fresh
  <2> QED
    BY <2>1, <2>2, Zenon DEF OrderInv
<1>3. CASE CFG_readFile
  <2>1. /\ pc = "read" /\ files # <<>> /\ files' = Tail(files) /\ program' = program
        /\ conf' = conf /\ disk' = disk
        /\ \/ pc' = "parse" /\ opened' = [file |-> Head(files), before |-> Current]
           \/ pc' = "read"
    BY <1>3 DEF CFG_readFile, environment
  <2>2. <<>> # <<conf>> /\ <<>> # <<disk, conf>> /\ <<conf>> # <<disk, conf>>
    OBVIOUS
  <2>3. FilesToRead' = FilesToRead /\ FirstFile' = FirstFile /\ OtherFiles' = OtherFiles
    BY <2>1 DEF FilesToRead, FirstFile, OtherFiles
  <2>4. CASE files = FilesToRead
    <3>1. Tail(files) = OtherFiles /\ Head(files) = FirstFile /\ OtherFiles # FilesToRead
      <4>1. CASE program = "radarcape"
        BY <2>2, <2>4, <4>1, FilesLeft, Zenon DEF FilesToRead, FirstFile, OtherFiles
      <4>2. CASE program # "radarcape"
        BY <2>2, <2>4, <4>2, FilesLeft, Zenon DEF FilesToRead, FirstFile, OtherFiles
      <4> QED
        BY <4>1, <4>2
    <3>2. program = "dump1090" => OtherFiles # <<>>
      BY <2>2, Zenon DEF OtherFiles
    <3>3. Current = Fresh
      BY <2>1, <2>4, Zenon DEF OrderInv
    <3>4. pc' = "parse" => opened'.file = FirstFile /\ opened'.before = Fresh
      <4>1. ASSUME NEW x, NEW y, opened' = [file |-> x, before |-> y]
            PROVE  opened'.file = x /\ opened'.before = y
        BY <4>1
      <4> QED
        BY <2>1, <3>1, <3>3, <4>1, Zenon
    <3> QED
      BY <2>1, <2>3, <3>1, <3>2, <3>4, Zenon DEF OrderInv
  <2>5. CASE files # FilesToRead
    <3>1. program = "dump1090" /\ files = <<conf>>
      BY <1>0, <2>1, <2>5 DEF FilesInv, FilesToRead
    <3>2. files' = <<>> /\ Head(files) = conf
      BY <2>1, <3>1, FilesLeft, Zenon
    <3>3. <<>> # FilesToRead /\ <<>> # OtherFiles
      BY <2>2, <3>1 DEF FilesToRead, OtherFiles
    <3>4. pc' = "parse" => opened'.file = conf
      <4>1. ASSUME NEW x, NEW y, opened' = [file |-> x, before |-> y]
            PROVE  opened'.file = x
        BY <4>1
      <4> QED
        BY <2>1, <3>2, <4>1, Zenon
    <3> QED
      BY <2>1, <2>3, <3>2, <3>3, <3>4, Zenon DEF OrderInv
  <2> QED
    BY <2>4, <2>5
<1>4. CASE parseSection \/ skipComment \/ skipNewline \/ parsed
  BY <1>4, OrderSame DEF parseSection, skipComment, skipNewline, parsed, Parsing, environment
<1>5. CASE parseOption
  <2>1. /\ program' = program /\ conf' = conf /\ disk' = disk /\ files' = files
        /\ pc = "parse" /\ pc' \in {"parse", "crashed"} /\ opened' = opened
    BY <1>5, Zenon DEF parseOption, Parsing, environment
  <2> QED
    BY <2>1, OrderSame
<1>6. CASE fix
  BY <1>6, OrderSame DEF fix, environment
<1>7. CASE CFG_check \/ Start \/ CFG_write \/ Login \/ CFG_writeSection \/ Restart
  BY <1>7, LoginKeeps, OrderIdle DEF CFG_check, Start, CFG_write, CFG_writeSection, Restart
<1>8. CASE UNCHANGED vars
  BY <1>8, OrderSame DEF vars
<1> QED
  BY <1>1, <1>2, <1>3, <1>4, <1>5, <1>6, <1>7, <1>8 DEF Next, Stopped, Login

-----------------------------------------------------------------------------
(* A serial number that is not given is 0.                                 *)
NoSerial == ~hasSerial => val["serial"] = 0

LEMMA AssignedNoSerial ==
    ASSUME Valid(val), hasSerial \in BOOLEAN, NoSerial, NEW o \in Options, NEW t,
           Assign(Assigned(Current, o, t, TRUE))
    PROVE  /\ NoSerial'
           /\ o # "serial" => hasSerial' = hasSerial /\ val'["serial"] = val["serial"]
<1>0. "serial" \in Options /\ Default["serial"] = 0
  BY DEF Options, Default
<1>1. ASSUME NEW x, val' = [val EXCEPT ![o] = x]
      PROVE  /\ o # "serial" => val'["serial"] = val["serial"]
             /\ o = "serial" => val'["serial"] = x
  BY <1>0, <1>1 DEF Valid
<1>2. CASE t # <<>> /\ Parses(Type[o], t)
  <2>1. val' = [val EXCEPT ![o] = Parsed(Type[o], t)] /\ hasSerial' = (hasSerial \/ o = "serial")
    BY Zenon, <1>2 DEF Assign, Assigned, Current
  <2>2. /\ hasSerial' <=> (hasSerial \/ o = "serial")
        /\ hasSerial' \in BOOLEAN
    BY Zenon, <2>1
  <2>3. o # "serial" => hasSerial' = hasSerial /\ val'["serial"] = val["serial"]
    BY <1>1, <2>1, <2>2
  <2>4. o = "serial" => hasSerial'
    BY <2>2
  <2> QED
    BY <2>3, <2>4, Zenon DEF NoSerial
<1>3. CASE ~(t # <<>> /\ Parses(Type[o], t))
  <2>1. val' = [val EXCEPT ![o] = Default[o]] /\ hasSerial' = (hasSerial /\ o # "serial")
    BY Zenon, <1>3 DEF Assign, Assigned, Current
  <2>2. /\ hasSerial' <=> (hasSerial /\ o # "serial")
        /\ hasSerial' \in BOOLEAN
    BY Zenon, <2>1
  <2>3. o # "serial" => hasSerial' = hasSerial /\ val'["serial"] = val["serial"]
    BY <1>1, <2>1, <2>2
  <2>4. o = "serial" => val'["serial"] = 0
    BY <1>0, <1>1, <2>1
  <2> QED
    BY <2>3, <2>4, Zenon DEF NoSerial
<1> QED
  BY <1>2, <1>3

LEMMA OptionsChange ==
    ASSUME [Next]_vars
    PROVE  \/ val' = val /\ hasSerial' = hasSerial
           \/ val' = Default /\ hasSerial' = FALSE /\ (CFG_loadDefaults \/ Restart)
           \/ parseOption \/ fix \/ serialResponse
<1>1. CASE CFG_registerSection \/ CFG_loadDefaults \/ CFG_readFile
  BY <1>1 DEF CFG_registerSection, CFG_loadDefaults, CFG_readFile
<1>2. CASE parseSection \/ skipComment \/ skipNewline \/ parsed
  BY <1>2 DEF parseSection, skipComment, skipNewline, parsed
<1>3. CASE CFG_check \/ Start \/ CFG_write \/ CFG_writeSection
  BY <1>3 DEF CFG_check, Start, CFG_write, CFG_writeSection
<1>4. CASE Restart \/ UNCHANGED vars
  BY <1>4 DEF Restart, vars
<1>5. CASE Login
  BY <1>5, LoginKeeps
<1> QED
  BY <1>1, <1>2, <1>3, <1>4, <1>5 DEF Next, Stopped, Login

LEMMA NoSerialStep ==
    ASSUME ConfigInv, ParserInv, NoSerial, [Next]_vars PROVE NoSerial'
<1>0. Valid(val) /\ hasSerial \in BOOLEAN
  BY DEF ConfigInv
<1>1. CASE val' = val /\ hasSerial' = hasSerial
  BY <1>1, Zenon DEF NoSerial
<1>2. CASE val' = Default
  BY <1>2 DEF NoSerial, Default
<1>3. CASE parseOption
  <2>1. ASSUME NEW k \in 1..Len(opened.file.lines), opened.file.lines[k].key \in Options,
               Assign(Assigned(Current, opened.file.lines[k].key,
                               opened.file.lines[k].value, TRUE))
        PROVE  NoSerial'
    BY <1>0, <2>1, AssignedNoSerial
  <2> QED
    BY <1>1, <1>3, <2>1, OptionLineAssigned, Zenon
<1>4. CASE fix
  <2>1. hasSerial' = hasSerial /\ (val' = cfgFix(val) \/ val' = val)
    BY <1>4 DEF fix
  <2>2. cfgFix(val)["serial"] = val["serial"]
    BY <1>0, FixKeeps
  <2> QED
    BY <2>1, <2>2, Zenon DEF NoSerial
<1>5. CASE serialResponse
  BY <1>5 DEF serialResponse, NoSerial
<1> QED
  BY <1>1, <1>2, <1>3, <1>4, <1>5, OptionsChange

-----------------------------------------------------------------------------
(* What was saved is read again.                                           *)

Intact == saved.exists /\ (program = "dump1090" => Unset)

SavedOptions == IF program = "dump1090" THEN {"serial"}
                ELSE IF saved.hasSerial THEN Options ELSE Options \ {"serial"}

SavedFile ==
    /\ saved.val["host"] # <<>> /\ saved.hasSerial \in BOOLEAN
    /\ ~saved.hasSerial => saved.val["serial"] = 0
    /\ \E e : Block(disk.lines, "none", e, SavedOptions, saved.val)

Restored == val = cfgFix(saved.val) /\ hasSerial = saved.hasSerial

(* A number is known, in the processes after that which wrote it this one. *)
Later == saved.at < restarts
SerialKept == hasSerial /\ (Later => val["serial"] = saved.val["serial"])
NoOther == pending = 0 /\ used \subseteq {saved.val["serial"]}
Alone == (Intact /\ program = "dump1090" /\ Later) => NoOther
Dated == saved.exists => saved.at \in Nat /\ saved.at <= restarts

(* The saved file, or that with the serial number, has been read.          *)
AllRead == (pc = "read" /\ files = <<>>) \/ pc = "ready"
SerialRead == \/ pc \in {"read", "parse", "closed"} /\ files = <<>>
              \/ pc = "read" /\ files = <<conf>>
              \/ pc \in {"ready", "run"}

SavedInv ==
    /\ pc \in {"wait", "write"} => program = "dump1090" /\ ~Intact
    /\ pc = "write" => hasSerial
    /\ Dated /\ Alone
    /\ Intact => SavedFile
    /\ (Intact /\ program = "radarcape" /\ conf = disk /\ AllRead) => Restored
    /\ (Intact /\ program = "dump1090" /\ SerialRead) => SerialKept

LEMMA SavedInit == ASSUME Init PROVE SavedInv
<1>1. saved = None /\ pc = "register"
  BY DEF Init
<1>2. saved.exists = FALSE
  BY <1>1 DEF None
<1> QED
  BY <1>1, <1>2 DEF SavedInv, Intact, Dated, Alone

(* The file that was saved, read with the defaults.                        *)
LEMMA SavedRead ==
    ASSUME ReadingInv, OrderInv, SavedInv, Intact, pc = "closed", files = OtherFiles,
           FirstFile = disk
    PROVE  /\ success
           /\ val = [o \in Options |-> IF o \in SavedOptions THEN saved.val[o] ELSE Default[o]]
           /\ hasSerial <=> "serial" \in SavedOptions
<1>1. PICK file, b : file = opened.file /\ b = opened.before
  OBVIOUS
<1>2. file = disk /\ b = Fresh
  BY <1>1, Zenon DEF OrderInv
<1>3. PICK sec : Readings(file, b)[Len(file.lines)] = Result(Current, sec, Outcome)
  <2>1. Progress(file, b)
    BY <1>1, Zenon DEF ReadingInv, ParserInv
  <2> QED
    BY <2>1 DEF Progress
<1>4. SavedFile
  BY DEF SavedInv
<1> DEFINE v == saved.val
           S == SavedOptions
<1>5. PICK e : Block(file.lines, "none", e, S, v)
  BY <1>2, <1>4, Zenon DEF SavedFile
<1>6. AllRegistered
  BY AllSections DEF ReadingInv, Registry
<1>7. file.crlf = FALSE /\ Valid(v) /\ Printable(v) /\ v["host"] # <<>>
  BY <1>2, <1>4 DEF ReadingInv, DiskInv, SavedFile
<1> HIDE DEF v, S
<1>8. Merged(b, {}, v) = b
  <2>1. Default = [o \in Options |-> Default[o]]
    BY DefaultValid DEF Valid
  <2>2. PICK h \in BOOLEAN : h = FALSE
    OBVIOUS
  <2>3. b = [val |-> Default, hasSerial |-> h]
    BY <1>2, <2>2, Zenon DEF Fresh
  <2> HIDE DEF Default
  <2> QED
    BY <2>1, <2>2, <2>3, MergedNone, Zenon
<1>9. Reading(file, b) = Result(Merged(b, S, v), e, "read")
  <2>1. Readable(file, v, b)
    BY <1>7, <1>8 DEF Readable
  <2> QED
    BY <1>5, <1>6, <2>1, BlockRead, ZenonT(60)
<1>10. Current = Merged(b, S, v) /\ Outcome = "read"
  <2>1. PICK o, x, m : o = Current /\ x = Outcome /\ m = Merged(b, S, v)
    OBVIOUS
  <2>2. Result(o, sec, x) = Result(m, e, "read")
    BY <1>3, <1>9, <2>1, Zenon DEF Reading
  <2>3. Result(o, sec, x).opts = o /\ Result(o, sec, x).status = x
    BY ResultIs
  <2>4. Result(m, e, "read").opts = m /\ Result(m, e, "read").status = "read"
    BY ResultIs
  <2>5. o = m /\ x = "read"
    BY <2>2, <2>3, <2>4, Zenon
  <2> QED
    BY <2>1, <2>5
<1>11. val = ValuesIn(b, S, v) /\ hasSerial = SerialIn(b, S)
  <2>1. Current.val = val /\ Current.hasSerial = hasSerial
    BY Zenon DEF Current
  <2>2. Merged(b, S, v).val = ValuesIn(b, S, v) /\ Merged(b, S, v).hasSerial = SerialIn(b, S)
    BY Zenon DEF Merged
  <2> QED
    BY <1>10, <2>1, <2>2, Zenon
<1>12. b.val = Default /\ b.hasSerial = FALSE
  BY <1>2, Zenon DEF Fresh
<1>13. success
  BY <1>10 DEF Outcome
<1>14. val = [o \in Options |-> IF o \in S THEN v[o] ELSE Default[o]]
  BY <1>11, <1>12, Zenon DEF ValuesIn
<1>15. hasSerial <=> "serial" \in S
  BY <1>11, <1>12, Zenon DEF SerialIn
<1> QED
  BY <1>13, <1>14, <1>15 DEF v, S

(* The file that was saved is not empty.                                   *)
LEMMA SavedOpens == ASSUME SavedInv, Intact PROVE MMAP_open(disk)
<1>1. PICK e : Block(disk.lines, "none", e, SavedOptions, saved.val)
  BY DEF SavedInv, SavedFile
<1>2. PICK o : o \in SavedOptions
  BY DEF SavedOptions, Options
<1>3. \E i \in 1..Len(disk.lines) : TRUE
  BY <1>1, <1>2, Zenon DEF Block, Exactly
<1>4. Len(<<>>) = 0 /\ 1..0 = {}
  OBVIOUS
<1>5. disk.lines # <<>>
  BY <1>3, <1>4, Zenon
<1> QED
  BY <1>5 DEF MMAP_open

LEMMA SavedSame ==
    ASSUME SavedInv, program' = program, conf' = conf, disk' = disk, saved' = saved,
           server' = server, restarts' = restarts
    PROVE  /\ Intact' = Intact /\ (Intact => SavedFile')
           /\ Later' = Later /\ Dated' /\ Alone'
<1>1. Unset' = Unset /\ SavedOptions' = SavedOptions
  BY DEF Unset, SavedOptions
<1>2. SavedFile' = SavedFile
  BY <1>1, Zenon DEF SavedFile
<1>3. Intact' = Intact
  BY <1>1, Zenon DEF Intact
<1>4. Later' = Later /\ Dated' = Dated
  BY Zenon DEF Later, Dated
<1>5. NoOther' = NoOther
  BY DEF NoOther, server
<1>6. Alone' = Alone
  BY <1>3, <1>4, <1>5, Zenon DEF Alone
<1> QED
  BY <1>2, <1>3, <1>4, <1>6, Zenon DEF SavedInv

(* Steps that leave the files and the options alone.                       *)
LEMMA SavedKept ==
    ASSUME SavedInv, program' = program, conf' = conf, disk' = disk, saved' = saved,
           server' = server, restarts' = restarts,
           val' = val, hasSerial' = hasSerial, pc' \notin {"wait", "write"},
           AllRead' => AllRead, SerialRead' => SerialRead
    PROVE  SavedInv'
<1>1. /\ Intact' = Intact /\ (Intact => SavedFile')
      /\ Later' = Later /\ Dated' /\ Alone'
  BY SavedSame
<1>2. Restored' = Restored /\ SerialKept' = SerialKept
  BY <1>1, Zenon DEF Restored, SerialKept
<1>3. pc' # "wait" /\ pc' # "write"
  OBVIOUS
<1> QED
  BY <1>1, <1>2, <1>3 DEF SavedInv

(* Steps at which nothing has been read yet.                               *)
LEMMA SavedUnread ==
    ASSUME SavedInv, program' = program, conf' = conf, disk' = disk, saved' = saved,
           server' = server, restarts' = restarts,
           pc' \notin {"wait", "write"}, ~AllRead', ~SerialRead'
    PROVE  SavedInv'
<1>1. Intact' = Intact /\ (Intact => SavedFile') /\ Dated' /\ Alone'
  BY SavedSame
<1> QED
  BY <1>1 DEF SavedInv

LEMMA SavedReadFile ==
    ASSUME ReadingInv, OrderInv, SavedInv, CFG_readFile PROVE SavedInv'
<1>1. /\ pc = "read" /\ files # <<>> /\ files' = Tail(files) /\ program' = program
      /\ conf' = conf /\ disk' = disk /\ saved' = saved /\ val' = val
      /\ hasSerial' = hasSerial /\ server' = server /\ restarts' = restarts
      /\ \/ pc' = "parse"
         \/ pc' = "read" /\ ~MMAP_open(Head(files))
  BY DEF CFG_readFile, environment
<1>2. <<conf>> # <<>>
  OBVIOUS
<1>3. program \in {"radarcape", "dump1090"} /\ files \in {<<conf>>, <<disk, conf>>}
  BY <1>1 DEF ReadingInv, Registry, FilesInv
<1>4. /\ Intact' = Intact /\ (Intact => SavedFile')
      /\ Later' = Later /\ Dated' /\ Alone'
  BY <1>1, SavedSame
<1>5. Restored' = Restored /\ SerialKept' = SerialKept
  BY <1>1, <1>4, Zenon DEF Restored, SerialKept
<1>6. ~(Intact /\ program = "radarcape" /\ conf = disk /\ AllRead')
  <2> SUFFICES ASSUME Intact, program = "radarcape", conf = disk, AllRead' PROVE FALSE
    OBVIOUS
  <2>1. pc' = "read"
    BY <1>1 DEF AllRead
  <2>2. files = <<conf>>
    BY <1>3 DEF ReadingInv, FilesInv
  <2>3. Head(files) = disk
    BY <2>2, FilesLeft, Zenon
  <2> QED
    BY <1>1, <2>1, <2>3, SavedOpens
<1>7. (Intact /\ program = "dump1090" /\ SerialRead') => SerialKept
  <2> SUFFICES ASSUME Intact, program = "dump1090", SerialRead' PROVE SerialKept
    OBVIOUS
  <2>1. CASE files = <<conf>>
    <3>1. SerialRead
      BY <1>1, <2>1 DEF SerialRead
    <3> QED
      BY <3>1, Zenon DEF SavedInv
  <2>2. CASE files = <<disk, conf>>
    <3>1. Head(files) = disk /\ files' = <<conf>>
      BY <1>1, <2>2, FilesLeft, Zenon
    <3>2. pc' = "parse"
      BY <1>1, <3>1, SavedOpens
    <3> QED
      BY <1>2, <3>1, <3>2 DEF SerialRead
  <2> QED
    BY <1>3, <2>1, <2>2
<1> QED
  BY <1>1, <1>4, <1>5, <1>6, <1>7, Zenon DEF SavedInv

LEMMA SavedParse ==
    ASSUME ReadingInv, OrderInv, NoSerial, SavedInv, parseOption PROVE SavedInv'
<1>1. /\ pc = "parse" /\ pc' \in {"parse", "crashed"} /\ files' = files /\ program' = program
      /\ conf' = conf /\ disk' = disk /\ saved' = saved /\ server' = server
      /\ restarts' = restarts
  BY Zenon DEF parseOption, Parsing, environment
<1>2. /\ Intact' = Intact /\ (Intact => SavedFile')
      /\ Later' = Later /\ Dated' /\ Alone'
  BY <1>1, SavedSame
<1>3. ~AllRead' /\ (SerialRead' => SerialRead /\ files = <<>>)
  BY <1>1 DEF AllRead, SerialRead
<1>4. (Intact /\ program = "dump1090" /\ SerialRead') => SerialKept'
  <2> SUFFICES ASSUME Intact, program = "dump1090", SerialRead' PROVE SerialKept'
    OBVIOUS
  <2>1. SerialKept
    BY <1>3, Zenon DEF SavedInv
  <2>2. opened.file = conf
    BY <1>1, <1>3, Zenon DEF OrderInv
  <2>3. CASE val' = val /\ hasSerial' = hasSerial
    BY <1>1, <1>2, <2>1, <2>3, Zenon DEF SerialKept
  <2>4. ASSUME NEW k \in 1..Len(conf.lines), conf.lines[k].kind = "option",
               conf.lines[k].key \in Options,
               Assign(Assigned(Current, conf.lines[k].key, conf.lines[k].value, TRUE))
        PROVE  SerialKept'
    <3>1. conf.lines[k].key # "serial"
      BY <2>4 DEF Intact, Unset
    <3>2. Valid(val) /\ hasSerial \in BOOLEAN
      BY DEF ReadingInv, ConfigInv
    <3>3. hasSerial' = hasSerial /\ val'["serial"] = val["serial"]
      BY <2>4, <3>1, <3>2, AssignedNoSerial, Zenon
    <3> QED
      BY <1>1, <1>2, <2>1, <3>3, Zenon DEF SerialKept
  <2>5. ConfigInv /\ ParserInv
    BY DEF ReadingInv
  <2> QED
    BY <2>2, <2>3, <2>4, <2>5, OptionLineAssigned, Zenon
<1> QED
  BY <1>1, <1>2, <1>3, <1>4, Zenon DEF SavedInv

LEMMA SavedFix ==
    ASSUME ReadingInv, OrderInv, SavedInv, fix PROVE SavedInv'
<1>1. /\ pc = "closed" /\ pc' = "read" /\ files' = files /\ program' = program
      /\ conf' = conf /\ disk' = disk /\ saved' = saved /\ hasSerial' = hasSerial
      /\ server' = server /\ restarts' = restarts
      /\ val' = IF success THEN cfgFix(val) ELSE val
  BY DEF fix, environment
<1>2. /\ Intact' = Intact /\ (Intact => SavedFile')
      /\ Later' = Later /\ Dated' /\ Alone'
  BY <1>1, SavedSame
<1>3. Valid(val) /\ hasSerial \in BOOLEAN /\ Valid(saved.val)
      /\ program \in {"radarcape", "dump1090"}
  BY DEF ReadingInv, ConfigInv, DiskInv, Registry
<1>4. (Intact /\ program = "radarcape" /\ conf = disk /\ AllRead') => Restored'
  <2> SUFFICES ASSUME Intact, program = "radarcape", conf = disk, AllRead' PROVE Restored'
    OBVIOUS
  <2>1. files = OtherFiles /\ FirstFile = disk
    BY <1>1 DEF AllRead, OtherFiles, FirstFile
  <2>2. /\ success /\ (hasSerial <=> "serial" \in SavedOptions)
        /\ val = [o \in Options |-> IF o \in SavedOptions THEN saved.val[o] ELSE Default[o]]
    BY <1>1, <2>1, SavedRead
  <2>3. SavedFile
    BY DEF SavedInv
  <2>4. \A o \in Options : o # "serial" => o \in SavedOptions
    BY DEF SavedOptions
  <2>5. "serial" \in SavedOptions <=> saved.hasSerial
    BY DEF SavedOptions, Options
  <2>6. "serial" \notin SavedOptions => saved.val["serial"] = Default["serial"]
    BY <2>3, <2>5 DEF SavedFile, Default
  <2> HIDE DEF Default, SavedOptions
  <2>7. val = saved.val
    <3>1. \A o \in Options :
             (IF o \in SavedOptions THEN saved.val[o] ELSE Default[o]) = saved.val[o]
      BY <2>4, <2>6
    <3>2. saved.val = [o \in Options |-> saved.val[o]]
      BY <1>3 DEF Valid
    <3>3. val = [o \in Options |-> saved.val[o]]
      BY <2>2, <3>1
    <3> QED
      BY <3>2, <3>3
  <2>8. hasSerial = saved.hasSerial
    BY <1>3, <2>2, <2>3, <2>5 DEF SavedFile
  <2> QED
    BY <1>1, <2>2, <2>7, <2>8, Zenon DEF Restored
<1>5. (Intact /\ program = "dump1090" /\ SerialRead') => SerialKept'
  <2> SUFFICES ASSUME Intact, program = "dump1090", SerialRead' PROVE SerialKept'
    OBVIOUS
  <2>1. val'["serial"] = val["serial"]
    BY <1>1, <1>3, FixKeeps
  <2>2. SerialKept
    <3>1. CASE files = <<>>
      <4>1. SerialRead
        BY <1>1, <3>1 DEF SerialRead
      <4> QED
        BY <4>1, Zenon DEF SavedInv
    <3>2. CASE files = <<conf>>
      <4>1. files = OtherFiles /\ FirstFile = disk
        BY <3>2 DEF OtherFiles, FirstFile
      <4>2. /\ hasSerial <=> "serial" \in SavedOptions
            /\ val = [o \in Options |-> IF o \in SavedOptions THEN saved.val[o] ELSE Default[o]]
        BY <1>1, <4>1, SavedRead
      <4>3. "serial" \in Options /\ "serial" \in SavedOptions
        BY DEF Options, SavedOptions
      <4> HIDE DEF SavedOptions, Default, Options
      <4>4. hasSerial /\ val["serial"] = saved.val["serial"]
        BY <4>2, <4>3
      <4> QED
        BY <4>4, Zenon DEF SerialKept
    <3> QED
      BY <1>1, <3>1, <3>2 DEF SerialRead
  <2> QED
    BY <1>1, <1>2, <2>1, <2>2, Zenon DEF SerialKept
<1> QED
  BY <1>1, <1>2, <1>4, <1>5, Zenon DEF SavedInv

(* --save.                                                                 *)
LEMMA SavedWrite ==
    ASSUME ReadingInv, NoSerial, SavedInv, CFG_write PROVE SavedInv'
<1>1. /\ pc = "ready" /\ program = "radarcape" /\ program' = program /\ pc' = "exit"
      /\ disk' = [lines |-> writeSections, crlf |-> FALSE] /\ saved' = Snapshot
      /\ restarts' = restarts
  BY DEF CFG_write
<1>2. sections \in Seq(Sections) /\ Len(sections) = 4
      /\ \A s \in Sections : \E j \in 1..4 : sections[j] = s
  BY <1>1, AllSections DEF ReadingInv, Registry
<1>3. PICK e : Block(writeSections, "none", e, Written, val)
  BY <1>2, SectionsWritten, AllWritten, Zenon
<1>4. disk'.lines = writeSections /\ saved'.val = val /\ saved'.hasSerial = hasSerial
  BY <1>1, SnapshotIs
<1>5. Written = SavedOptions'
  BY <1>1, <1>4 DEF Written, SavedOptions
<1>6. val["host"] # <<>> /\ hasSerial \in BOOLEAN
  BY <1>1 DEF ReadingInv, ConfigInv, checkCfg
<1>7. SavedFile'
  BY <1>3, <1>4, <1>5, <1>6, Zenon DEF SavedFile, NoSerial
<1>8. ~AllRead' /\ ~SerialRead'
  BY <1>1 DEF AllRead, SerialRead
<1>9. Dated' /\ Alone'
  <2>1. program' # "dump1090"
    BY <1>1
  <2>2. restarts \in Nat
    BY ConfigAssumption DEF ReadingInv, ConfigInv
  <2> QED
    BY <1>1, <2>1, <2>2, SnapshotIs DEF Dated, Alone
<1>10. pc' \notin {"wait", "write"} /\ program' # "dump1090"
  BY <1>1
<1> QED
  BY <1>7, <1>8, <1>9, <1>10 DEF SavedInv

(* A number is requested only if none could be read.                       *)
LEMMA SavedRequest ==
    ASSUME ReadingInv, SavedInv, SERIAL_getSerial PROVE SavedInv'
<1>1. /\ pc = "run" /\ program = "dump1090" /\ ~hasSerial /\ program' = program
      /\ conf' = conf /\ saved' = saved /\ restarts' = restarts /\ pc' = "wait"
  BY DEF SERIAL_getSerial
<1>2. ~Intact
  <2>1. SerialRead
    BY <1>1 DEF SerialRead
  <2> QED
    BY <1>1, <2>1, Zenon DEF SavedInv, SerialKept
<1>3. ~Intact' /\ Dated'
  BY <1>1, <1>2, Zenon DEF Intact, Unset, Dated, SavedInv
<1>4. Alone' /\ pc' # "write"
  BY <1>1, <1>3, Zenon DEF Alone
<1> QED
  BY <1>1, <1>3, <1>4, Zenon DEF SavedInv

(* A number that was read is used.                                         *)
LEMMA SavedKnown ==
    ASSUME ReadingInv, SavedInv, SerialKnown PROVE SavedInv'
<1>1. /\ pc = "run" /\ program = "dump1090" /\ program' = program /\ conf' = conf
      /\ disk' = disk /\ saved' = saved /\ restarts' = restarts /\ val' = val
      /\ hasSerial' = hasSerial /\ pc' = pc /\ files' = files /\ pending' = pending
      /\ used' = used \cup {val["serial"]}
  BY DEF SerialKnown
<1>2. Intact' = Intact /\ (Intact => SavedFile') /\ Later' = Later /\ Dated'
  <2>1. Unset' = Unset /\ SavedOptions' = SavedOptions
    BY <1>1 DEF Unset, SavedOptions
  <2>2. SavedFile' = SavedFile /\ Intact' = Intact
    BY <1>1, <2>1, Zenon DEF SavedFile, Intact
  <2>3. Later' = Later /\ Dated' = Dated
    BY <1>1, Zenon DEF Later, Dated
  <2> QED
    BY <2>2, <2>3, Zenon DEF SavedInv
<1>3. SerialKept' = SerialKept /\ SerialRead /\ SerialRead' /\ ~AllRead'
  <2>1. SerialKept' = SerialKept
    BY <1>1, <1>2, Zenon DEF SerialKept
  <2> QED
    BY <1>1, <2>1 DEF SerialRead, AllRead
<1>4. Alone'
  <2> SUFFICES ASSUME Intact, Later PROVE NoOther'
    BY <1>2, Zenon DEF Alone
  <2>1. NoOther /\ SerialKept
    BY <1>1, <1>3, Zenon DEF SavedInv, Alone
  <2>2. val["serial"] = saved.val["serial"]
    BY <2>1, Zenon DEF SerialKept
  <2> QED
    BY <1>1, <2>1, <2>2 DEF NoOther
<1>5. pc' # "wait" /\ pc' # "write"
  BY <1>1
<1> QED
  BY <1>1, <1>2, <1>3, <1>4, <1>5, Zenon DEF SavedInv

(* An answer comes in the process that requested it.                       *)
LEMMA SavedAnswer ==
    ASSUME ReadingInv, SavedInv, serialResponse PROVE SavedInv'
<1>1. /\ pc \in {"run", "wait"} /\ program' = program /\ conf' = conf
      /\ disk' = disk /\ saved' = saved /\ restarts' = restarts
      /\ hasSerial' /\ pc' = pc /\ pending > 0
  BY DEF serialResponse
<1>2. Intact' = Intact /\ (Intact => SavedFile') /\ Later' = Later /\ Dated'
  <2>1. Unset' = Unset /\ SavedOptions' = SavedOptions
    BY <1>1 DEF Unset, SavedOptions
  <2>2. SavedFile' = SavedFile /\ Intact' = Intact
    BY <1>1, <2>1, Zenon DEF SavedFile, Intact
  <2>3. Later' = Later /\ Dated' = Dated
    BY <1>1, Zenon DEF Later, Dated
  <2> QED
    BY <2>2, <2>3, Zenon DEF SavedInv
<1>3. ~NoOther
  <2>1. pending \in Nat
    BY DEF ReadingInv, ConfigInv, Counted
  <2> QED
    BY <1>1, <2>1 DEF NoOther
<1>4. (Intact /\ program = "dump1090") => ~Later
  BY <1>3, Zenon DEF SavedInv, Alone
<1>5. Alone' /\ ((Intact /\ program = "dump1090") => SerialKept')
  BY <1>1, <1>2, <1>4, Zenon DEF Alone, SerialKept
<1>6. ~AllRead' /\ pc' # "write"
  BY <1>1 DEF AllRead
<1> QED
  BY <1>1, <1>2, <1>5, <1>6, Zenon DEF SavedInv

(* The wait ends.                                                          *)
LEMMA SavedWaited ==
    ASSUME ReadingInv, SavedInv, SerialGivesUp \/ SerialReceived PROVE SavedInv'
<1>1. /\ pc = "wait" /\ program' = program /\ conf' = conf /\ saved' = saved
      /\ restarts' = restarts /\ pc' \in {"run", "write"}
      /\ pc' = "write" => hasSerial'
  BY DEF SerialGivesUp, SerialReceived, environment
<1>2. program = "dump1090" /\ ~Intact
  BY <1>1 DEF SavedInv
<1>3. ~Intact' /\ Dated'
  BY <1>1, <1>2, Zenon DEF Intact, Unset, Dated, SavedInv
<1>4. Alone' /\ program' = "dump1090"
  BY <1>1, <1>2, <1>3, Zenon DEF Alone
<1> QED
  BY <1>1, <1>3, <1>4 DEF SavedInv

(* When the number has been written it can be read.                        *)
LEMMA SavedWriteSection ==
    ASSUME ReadingInv, NoSerial, SavedInv, CFG_writeSection PROVE SavedInv'
<1> DEFINE L == Heading("device") \o writeOptions("device")
<1>1. /\ pc = "write" /\ program' = program /\ pc' = "run" /\ val' = val
      /\ hasSerial' = hasSerial
      /\ disk' = [lines |-> L, crlf |-> FALSE] /\ saved' = Snapshot
      /\ restarts' = restarts
  BY DEF CFG_writeSection
<1>2. program = "dump1090" /\ hasSerial
  BY <1>1 DEF SavedInv
<1>3. Block(L, "none", "DEVICE", Given("device"), val)
  BY DeviceWritten
<1> HIDE DEF L
<1>4. disk'.lines = L /\ saved'.val = val /\ saved'.hasSerial = hasSerial
  BY <1>1, SnapshotIs
<1>5. Given("device") = SavedOptions'
  BY <1>1, <1>2 DEF Given, SavedOptions
<1>6. val["host"] # <<>> /\ hasSerial \in BOOLEAN
  BY <1>1 DEF ReadingInv, ConfigInv, checkCfg
<1>7. SavedFile'
  BY <1>3, <1>4, <1>5, <1>6, Zenon DEF SavedFile, NoSerial
<1>8. SerialKept'
  BY <1>1, <1>2, <1>4, Zenon DEF SerialKept
<1>9. pc' \notin {"wait", "write"} /\ program' # "radarcape"
  BY <1>1, <1>2
<1>10. Dated' /\ Alone'
  <2>1. restarts \in Nat /\ saved'.at = restarts
    BY <1>1, ConfigAssumption, SnapshotIs DEF ReadingInv, ConfigInv
  <2>2. ~Later' /\ Dated'
    BY <1>1, <2>1 DEF Later, Dated
  <2> QED
    BY <2>2, Zenon DEF Alone
<1> QED
  BY <1>7, <1>8, <1>9, <1>10 DEF SavedInv

LEMMA SavedRestart ==
    ASSUME ReadingInv, SavedInv, Restart PROVE SavedInv'
<1>1. /\ program' = program /\ disk' = disk /\ saved' = saved /\ pc' = "register"
      /\ program = "dump1090" => conf' = conf
      /\ restarts' = restarts + 1 /\ pending' = 0 /\ used' = {}
  BY DEF Restart
<1>2. Intact' = Intact
  BY <1>1 DEF Intact, Unset
<1>3. SavedFile' = SavedFile
  <2>1. SavedOptions' = SavedOptions
    BY <1>1 DEF SavedOptions
  <2> QED
    BY <1>1, <2>1, Zenon DEF SavedFile
<1>4. ~AllRead' /\ ~SerialRead' /\ pc' \notin {"wait", "write"}
  BY <1>1 DEF AllRead, SerialRead
<1>5. Dated'
  <2>1. restarts \in Nat
    BY ConfigAssumption DEF ReadingInv, ConfigInv
  <2> QED
    BY <1>1, <2>1 DEF SavedInv, Dated
<1>6. Alone'
  BY <1>1 DEF Alone, NoOther
<1> QED
  BY <1>2, <1>3, <1>4, <1>5, <1>6 DEF SavedInv

LEMMA SavedStep ==
    ASSUME ReadingInv, OrderInv, NoSerial, SavedInv, [Next]_vars PROVE SavedInv'
<1>1. CASE CFG_registerSection
  BY <1>1, SavedUnread DEF CFG_registerSection, AllRead, SerialRead
<1>2. CASE CFG_loadDefaults
  <2>1. /\ files' = FilesToRead /\ program' = program /\ conf' = conf /\ disk' = disk
        /\ saved' = saved /\ pc' = "read" /\ server' = server /\ restarts' = restarts
    BY <1>2 DEF CFG_loadDefaults, environment
  <2>2. Intact' = Intact /\ (Intact => SavedFile') /\ Dated' /\ Alone'
    BY <2>1, SavedSame
  <2>3. <<conf>> # <<>> /\ <<disk, conf>> # <<>> /\ <<disk, conf>> # <<conf>>
    OBVIOUS
  <2>4. ~AllRead' /\ (program = "dump1090" => ~SerialRead')
    BY <2>1, <2>3 DEF AllRead, SerialRead, FilesToRead
  <2> QED
    BY <2>1, <2>2, <2>4, Zenon DEF SavedInv
<1>3. CASE parseSection \/ skipComment \/ skipNewline \/ parsed
  <2>1. /\ program' = program /\ conf' = conf /\ disk' = disk /\ saved' = saved
        /\ server' = server /\ restarts' = restarts
        /\ val' = val /\ hasSerial' = hasSerial /\ files' = files
        /\ pc = "parse" /\ pc' \in {"parse", "closed"}
    BY <1>3 DEF parseSection, skipComment, skipNewline, parsed, Parsing, environment
  <2> QED
    BY <2>1, SavedKept DEF AllRead, SerialRead
<1>4. CASE CFG_check \/ Start
  <2>1. /\ program' = program /\ conf' = conf /\ disk' = disk /\ saved' = saved
        /\ server' = server /\ restarts' = restarts
        /\ val' = val /\ hasSerial' = hasSerial
        /\ \/ pc = "read" /\ files = <<>> /\ pc' \in {"ready", "exit"}
           \/ pc = "ready" /\ pc' = "run"
    BY <1>4 DEF CFG_check, Start, environment
  <2> QED
    BY <2>1, SavedKept DEF AllRead, SerialRead
<1>5. CASE UNCHANGED vars
  <2>1. /\ program' = program /\ conf' = conf /\ disk' = disk /\ saved' = saved
        /\ server' = server /\ restarts' = restarts
        /\ val' = val /\ hasSerial' = hasSerial /\ pc' = pc /\ files' = files
    BY <1>5 DEF vars, server
  <2>2. CASE pc \notin {"wait", "write"}
    BY <2>1, <2>2, SavedKept DEF AllRead, SerialRead
  <2>3. CASE pc \in {"wait", "write"}
    <3>1. Intact' = Intact /\ Dated' /\ Alone' /\ ~Intact
      BY <2>1, <2>3, SavedSame DEF SavedInv
    <3> QED
      BY <2>1, <2>3, <3>1 DEF SavedInv
  <2> QED
    BY <2>2, <2>3
<1> QED
  BY <1>1, <1>2, <1>3, <1>4, <1>5, SavedReadFile, SavedParse, SavedFix, SavedWrite,
     SavedRequest, SavedKnown, SavedAnswer, SavedWaited, SavedWriteSection,
     SavedRestart DEF Next, Stopped

-----------------------------------------------------------------------------
SavingInv == ReadingInv /\ OrderInv /\ NoSerial /\ SavedInv

LEMMA SavingInvariant == Spec => []SavingInv
<1>1. Init => OrderInv /\ NoSerial /\ SavedInv
  <2>1. ASSUME Init PROVE NoSerial
    BY <2>1 DEF Init, NoSerial, Default
  <2> QED
    BY <2>1, OrderInit, SavedInit
<1>2. ReadingInv /\ OrderInv /\ NoSerial /\ SavedInv /\ [Next]_vars
        => OrderInv' /\ NoSerial' /\ SavedInv'
  BY OrderStep, NoSerialStep, SavedStep DEF ReadingInv
<1> QED
  BY <1>1, <1>2, ReadingInvariant, PTL DEF Spec, SavingInv

(* Whatever was configured, in whichever order the components registered   *)
(* their sections: started with the file that --save wrote, radarcape has  *)
(* all the options it had when it wrote it, the two sections of one name   *)
(* and the serial number that was not given included.                      *)
THEOREM SavedConfigurationRestored == Spec => []SavedIsRestored
<1>1. SavingInv => SavedIsRestored
  <2> SUFFICES ASSUME SavingInv, pc = "ready", program = "radarcape", saved.exists,
                      conf = disk
               PROVE  val = cfgFix(saved.val) /\ hasSerial = saved.hasSerial
    BY Zenon DEF SavedIsRestored
  <2>1. Intact /\ AllRead
    BY DEF Intact, AllRead
  <2> QED
    BY <2>1, Zenon DEF SavingInv, SavedInv, Restored
<1> QED
  BY <1>1, SavingInvariant, PTL

(* However often and wherever the process crashes: once dump1090 has       *)
(* written a serial number, the processes after it know it, log in with no *)
(* other and request none, unless the operator's file sets one.            *)
THEOREM SerialNumberSurvives == Spec => []SerialSurvives
<1>1. SavingInv => SerialSurvives
  <2> SUFFICES ASSUME SavingInv, program = "dump1090", pc \in {"run", "wait", "write"},
                      saved.exists, saved.at < restarts, Unset
               PROVE  /\ pc = "run" /\ pending = 0
                      /\ hasSerial /\ val["serial"] = saved.val["serial"]
                      /\ used \subseteq {saved.val["serial"]}
    BY Zenon DEF SerialSurvives
  <2>1. Intact /\ Later
    BY DEF Intact, Later
  <2>2. pc = "run"
    BY <2>1 DEF SavingInv, SavedInv
  <2>3. SerialRead
    BY <2>2 DEF SerialRead
  <2>4. SerialKept /\ NoOther
    BY <2>1, <2>3, Zenon DEF SavingInv, SavedInv, Alone
  <2> QED
    BY <2>1, <2>2, <2>4, Zenon DEF SerialKept, NoOther
<1> QED
  BY <1>1, SavingInvariant, PTL
=============================================================================
