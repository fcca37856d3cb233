----------------------------- MODULE GucProofs ------------------------------
(***************************************************************************)
(* Proofs about Guc: whatever the file holds and whatever sessions SET, in *)
(* any order and any number, an INT variable is worth what the file says,  *)
(* the log filter follows log_min_messages, no client holds a stale REPORT *)
(* value and a refused assignment has changed nothing.                     *)
(***************************************************************************)
EXTENDS Guc, TLAPS

-----------------------------------------------------------------------------
(* The table.                                                              *)

\* What the proofs need of gucdef.yaml: the one variable whose hook reaches
\* into the process cannot be SET, and neither can those that are reported.
LEMMA DefsFacts ==
  ASSUME NEW g \in Gucs
  PROVE  /\ Defs[g].type \in {"INT", "STR", "BOOL", "REAL"}
         /\ Defs[g].hook = "log_min_messages" <=> g = "log_min_messages"
         /\ Defs[g].hook = "log_min_messages" => ~Preassign(g, "SET")
         /\ Defs[g].report => ~Preassign(g, "SET")
         /\ Defs[g].type = "INT" => Preassign(g, "FILE") /\ Defs[g].hook = "none"
<1>1. g \in DOMAIN Defs
  BY GucAssumption
<1> QED
  BY <1>1 DEF Defs, Def, Preassign, Context
LEMMA BootTyped == ASSUME NEW g \in Gucs PROVE Defs[g].boot \in TypeOf(g)
<1>1. g \in DOMAIN Defs
  BY GucAssumption
<1>2. /\ Defs[g].type = "INT" => Defs[g].boot = 1
      /\ Defs[g].type = "BOOL" => g \in {"is_superuser", "enable_cs_wal"}
  BY <1>1 DEF Defs, Def
<1>3. 1 \in Int32
  BY GucAssumption DEF Int32
<1>4. CASE Defs[g].type = "STR"
  BY <1>4 DEF TypeOf
<1>5. CASE Defs[g].type = "BOOL"
  <2>1. Defs["is_superuser"].boot = TRUE
    BY Zenon DEF Defs, Def
  <2>2. Defs["enable_cs_wal"].boot = FALSE
    BY Zenon DEF Defs, Def
  <2>3. Defs[g].boot \in BOOLEAN
    BY <1>2, <1>5, <2>1, <2>2, Zenon
  <2> QED
    BY <1>5, <2>3 DEF TypeOf
<1>6. CASE Defs[g].type = "INT"
  BY <1>2, <1>3, <1>6 DEF TypeOf
<1>7. CASE Defs[g].type = "REAL"
  BY <1>7 DEF TypeOf
<1> QED
  BY <1>4, <1>5, <1>6, <1>7, DefsFacts

-----------------------------------------------------------------------------
(* The conversions.                                                        *)

LEMMA YamlCases ==
  ASSUME NEW y \in Yaml
  PROVE  \/ y[1] = "Integer" /\ y[2] \in FileInts
         \/ y[1] = "String" /\ y[2] \in Texts
         \/ y[1] = "Boolean" /\ y[2] \in BOOLEAN
         \/ y[1] = "Real" /\ y[2] \in {Word("0.5"), Word(".inf")}
         \/ y[1] = "Array"
<1>1. ASSUME NEW n \in FileInts, y = <<"Integer", n>> PROVE y[1] = "Integer" /\ y[2] \in FileInts
  BY <1>1
<1>2. ASSUME NEW t \in Texts, y = <<"String", t>> PROVE y[1] = "String" /\ y[2] \in Texts
  BY <1>2
<1>3. ASSUME NEW b \in BOOLEAN, y = <<"Boolean", b>> PROVE y[1] = "Boolean" /\ y[2] \in BOOLEAN
  <2>1. y[1] = "Boolean" /\ y[2] = b
    BY <1>3
  <2> QED
    BY <2>1, Zenon
<1>4. ASSUME NEW t \in {Word("0.5"), Word(".inf")}, y = <<"Real", t>>
      PROVE  y[1] = "Real" /\ y[2] \in {Word("0.5"), Word(".inf")}
  BY <1>4
<1>5. CASE y = <<"Array", "">>
  BY <1>5
<1>6. \/ \E n \in FileInts : y = <<"Integer", n>>
      \/ \E t \in Texts : y = <<"String", t>>
      \/ \E b \in BOOLEAN : y = <<"Boolean", b>>
      \/ \E t \in {Word("0.5"), Word(".inf")} : y = <<"Real", t>>
      \/ y = <<"Array", "">>
  BY Zenon DEF Yaml
<1> QED
  BY <1>1, <1>2, <1>3, <1>4, <1>5, <1>6, Zenon

\* A cut integer fits the width.
LEMMA AsInt32Fits == ASSUME NEW n \in Int PROVE AsInt32(n) \in Int32
<1>1. 2 * Half \in Nat \ {0} /\ n + Half \in Int
  BY GucAssumption
<1>2. (n + Half) % (2 * Half) \in 0..(2 * Half - 1)
  BY <1>1
<1> QED
  BY <1>2, GucAssumption DEF AsInt32, Int32

\* yaml_try_to*: what a value of the file becomes is of the variable's type.
LEMMA ConvertTyped ==
  ASSUME NEW g \in Gucs, NEW y \in Yaml, NEW v \in Convert(g, y)
  PROVE  v \in TypeOf(g)
<1>1. CASE Defs[g].type = "STR"
  BY <1>1 DEF TypeOf, Convert
<1>2. CASE Defs[g].type = "BOOL"
  <2>1. v \in ToBool(y)
    BY <1>2 DEF Convert
  <2>2. v \in BOOLEAN
    <3>1. CASE y[1] = "Integer"
      <4>1. v = (y[2] # 0)
        BY <2>1, <3>1, Zenon DEF ToBool
      <4> QED
        BY <4>1, Zenon
    <3>2. CASE y[1] = "String"
      <4>1. v = (y[2] \in {Word("true"), Word("TRUE")})
        BY <2>1, <3>2, Zenon DEF ToBool
      <4> QED
        BY <4>1
    <3>3. CASE y[1] = "Boolean"
      <4>1. v = y[2]
        BY <2>1, <3>3, Zenon DEF ToBool
      <4>2. y[2] \in BOOLEAN
        <5>1. /\ "Boolean" # "Integer" /\ "Boolean" # "String"
              /\ "Boolean" # "Real" /\ "Boolean" # "Array"
          OBVIOUS
        <5> QED
          BY <3>3, <5>1, YamlCases, Zenon
      <4> QED
        BY <4>1, <4>2, Zenon
    <3>4. CASE y[1] \notin {"Integer", "String", "Boolean"}
      BY <2>1, <3>4, Zenon DEF ToBool
    <3> QED
      BY <3>1, <3>2, <3>3, <3>4, Zenon
  <2> QED
    BY <1>2, <2>2 DEF TypeOf
<1>3. CASE Defs[g].type = "INT"
  <2>1. v \in ToI32(y)
    BY <1>3 DEF Convert
  <2>2. 0 \in Int32 /\ 1 \in Int32 /\ \A t : ParseI32(t) \subseteq Int32
    BY GucAssumption DEF Int32, ParseI32
  <2>3. \A n \in FileInts : AsInt32(n) \in Int32
    BY AsInt32Fits, GucAssumption
  <2>4. v \in Int32
    BY <2>1, <2>2, <2>3, YamlCases DEF ToI32
  <2> QED
    BY <1>3, <2>4 DEF TypeOf
<1>4. CASE Defs[g].type = "REAL"
  <2>1. v \in ToF64(y)
    BY <1>4 DEF Convert
  <2>2. v \in Texts \cup {Word("0.5")} \cup {Decimal(n) : n \in FileInts}
    BY <2>1, YamlCases DEF ToF64, Word
  <2> QED
    BY <1>4, <2>2 DEF TypeOf
<1> QED
  BY <1>1, <1>2, <1>3, <1>4, DefsFacts

LEMMA ArgsTyped == ASSUME NEW g \in Gucs, NEW v \in Args(g) PROVE v \in TypeOf(g)
BY DefsFacts DEF Args, TypeOf

-----------------------------------------------------------------------------
(* The inductive invariant.                                                *)

\* A GucState is a record of its two fields, its values a function.
StateOK(gs) ==
  /\ gs = [vals |-> gs.vals, base_search_path_valid |-> gs.base_search_path_valid]
  /\ gs.vals = [g \in Gucs |-> gs.vals[g]]
  /\ GucStateOK(gs)

CopiesOK ==
  /\ copy = [s \in Sessions |-> copy[s]] /\ told = [s \in Sessions |-> told[s]]
  /\ \A s \in Sessions :
       \/ copy[s] = NoCopy
       \/ copy[s] = [made |-> TRUE, gs |-> copy[s].gs] /\ StateOK(copy[s].gs)

\* No copy is made before the file has been read.
CopiesLate == phase # "running" => \A s \in Sessions : copy[s] = NoCopy

IInv == TypeOK /\ StateOK(shared) /\ CopiesOK /\ CopiesLate /\ FilterCoherent /\ ReportedNeverStale

\* A copy is made or it is not.
LEMMA MadeCopy ==
  ASSUME CopiesOK, NEW s \in Sessions
  PROVE  /\ copy[s].made => copy[s] = [made |-> TRUE, gs |-> copy[s].gs] /\ StateOK(copy[s].gs)
         /\ ~copy[s].made <=> copy[s] = NoCopy
BY DEF CopiesOK, NoCopy

LEMMA InitIInv == Init => IInv
<1> SUFFICES ASSUME Init PROVE IInv
  OBVIOUS
<1>1. StateOK(shared)
  BY BootTyped DEF Init, StateOK, GucStateOK, BootVals
<1>2. TypeOK
  BY <1>1, GucAssumption DEF Init, TypeOK, StateOK, InitLog, Levels, Quiet
<1>3. CopiesOK /\ CopiesLate
  BY DEF Init, CopiesOK, CopiesLate
<1>4. FilterCoherent
  <2>1. \A s \in Sessions : ~copy[s].made
    BY DEF Init, NoCopy
  <2>2. Holders = {shared}
    BY <2>1 DEF Holders
  <2>3. "log_min_messages" \in Gucs => Levels[shared.vals["log_min_messages"][2]] = "trace"
    BY DEF Init, BootVals, Defs, Def, Levels, Word
  <2> QED
    BY <2>2, <2>3 DEF FilterCoherent, Init, InitLog
<1>5. ReportedNeverStale
  BY DEF Init, ReportedNeverStale, NoCopy
<1> QED
  BY <1>1, <1>2, <1>3, <1>4, <1>5 DEF IInv

-----------------------------------------------------------------------------
(* An assignment.                                                          *)

\* What the hook of log_min_messages may do: everything or nothing.
LEMMA LogMinMessagesFacts ==
  ASSUME NEW v, NEW o \in LogMinMessages(v)
  PROVE  \/ /\ o.ok /\ v \in {Word(w) : w \in DOMAIN Levels}
            /\ o.filter = Levels[v[2]] /\ o.maxlevel = Levels[v[2]]
         \/ ~o.ok /\ o.filter = filter /\ o.maxlevel = maxlevel
<1>1. CASE v \in {Word(w) : w \in DOMAIN Levels}
  <2>1. \/ o = Outcome(TRUE, FALSE, Levels[v[2]], Levels[v[2]])
        \/ o = Outcome(FALSE, TRUE, filter, maxlevel)
    BY <1>1, Zenon DEF LogMinMessages
  <2> QED
    BY <1>1, <2>1 DEF Outcome
<1>2. CASE v \notin {Word(w) : w \in DOMAIN Levels}
  <2>1. o = Outcome(FALSE, FALSE, filter, maxlevel)
    BY <1>2, Zenon DEF LogMinMessages
  <2> QED
    BY <2>1 DEF Outcome
<1> QED
  BY <1>1, <1>2

\* A refusal leaves the log levels alone; so does every variable but
\* log_min_messages.
LEMMA AssignFacts ==
  ASSUME NEW g \in Gucs, NEW v, NEW src, NEW o \in Assign(g, v, src)
  PROVE  \/ ~o.ok /\ o.filter = filter /\ o.maxlevel = maxlevel
         \/ /\ o.ok /\ Preassign(g, src) /\ g = "log_min_messages"
            /\ v \in {Word(w) : w \in DOMAIN Levels}
            /\ o.filter = Levels[v[2]] /\ o.maxlevel = Levels[v[2]]
         \/ /\ o.ok /\ Preassign(g, src) /\ g # "log_min_messages"
            /\ o.filter = filter /\ o.maxlevel = maxlevel
<1>1. CASE ~Preassign(g, src)
  <2>1. o = Outcome(FALSE, TRUE, filter, maxlevel)
    BY <1>1, Zenon DEF Assign
  <2> QED
    BY <2>1 DEF Outcome
<1>2. CASE Preassign(g, src) /\ Defs[g].hook = "log_min_messages"
  <2>1. o \in LogMinMessages(v)
    BY <1>2, Zenon DEF Assign
  <2>2. g = "log_min_messages"
    BY <1>2, DefsFacts
  <2> QED
    BY <1>2, <2>1, <2>2, LogMinMessagesFacts, Zenon
<1>3. CASE Preassign(g, src) /\ Defs[g].hook # "log_min_messages"
  <2>1. o = Outcome(TRUE, FALSE, filter, maxlevel)
    BY <1>3, Zenon DEF Assign
  <2>2. g # "log_min_messages"
    BY <1>3, DefsFacts
  <2> QED
    BY <1>3, <2>1, <2>2 DEF Outcome
<1> QED
  BY <1>1, <1>2, <1>3

\* What an assignment makes of a GucState.
LEMMA AppliedFacts ==
  ASSUME NEW gs, StateOK(gs), NEW g \in Gucs, NEW v \in TypeOf(g), NEW o
  PROVE  /\ StateOK(Applied(gs, g, v, o))
         /\ ~o.ok => Applied(gs, g, v, o) = gs
         /\ o.ok => Applied(gs, g, v, o).vals[g] = v
         /\ \A h \in Gucs \ {g} : Applied(gs, g, v, o).vals[h] = gs.vals[h]
<1> DEFINE n == Applied(gs, g, v, o)
<1>1. CASE ~o.ok
  <2>1. n = gs
    BY <1>1, Zenon DEF Applied
  <2> QED
    BY <1>1, <2>1
<1>2. CASE o.ok
  <2> DEFINE b == gs.base_search_path_valid /\ Defs[g].hook # "search_path"
  <2>1. n = [vals |-> [gs.vals EXCEPT ![g] = v], base_search_path_valid |-> b]
    BY <1>2, Zenon DEF Applied
  <2>2. b \in BOOLEAN
    OBVIOUS
  <2> HIDE DEF n, b
  <2>3. n.vals = [gs.vals EXCEPT ![g] = v] /\ n.base_search_path_valid = b
    BY <2>1
  <2>4. gs.vals = [h \in Gucs |-> gs.vals[h]] /\ \A h \in Gucs : gs.vals[h] \in TypeOf(h)
    BY DEF StateOK, GucStateOK
  <2>5. /\ n.vals = [h \in Gucs |-> n.vals[h]] /\ DOMAIN n.vals = Gucs
        /\ n.vals[g] = v /\ \A h \in Gucs \ {g} : n.vals[h] = gs.vals[h]
    BY <2>3, <2>4
  <2>6. \A h \in Gucs : n.vals[h] \in TypeOf(h)
    BY <2>4, <2>5
  <2>7. n.base_search_path_valid \in BOOLEAN
    BY <2>2, <2>3, Zenon
  <2>8. n = [vals |-> n.vals, base_search_path_valid |-> n.base_search_path_valid]
    BY <2>1, <2>3
  <2>9. StateOK(n)
    BY <2>5, <2>6, <2>7, <2>8, Zenon DEF StateOK, GucStateOK
  <2> QED
    BY <1>2, <2>5, <2>9, Zenon DEF n
<1> QED
  BY <1>1, <1>2, Zenon

-----------------------------------------------------------------------------
(* The steps.                                                              *)

\* The value of log_min_messages in gs is what level f stands for.
Follows(gs, f) == "log_min_messages" \in Gucs => Levels[gs.vals["log_min_messages"][2]] = f

LEMMA FilterParts ==
  /\ FilterCoherent <=>
       /\ maxlevel = filter /\ Follows(shared, filter)
       /\ \A s \in Sessions : copy[s].made => Follows(copy[s].gs, filter)
  /\ FilterCoherent' <=>
       /\ maxlevel' = filter' /\ Follows(shared', filter')
       /\ \A s \in Sessions : copy'[s].made => Follows(copy'[s].gs, filter')
BY DEF FilterCoherent, Holders, Follows

\* A step that leaves the values and the levels alone.
LEMMA QuietStep ==
  ASSUME IInv, UNCHANGED <<shared, copy, told, filter, maxlevel, sets>>,
         phase' \in {"init", "loading", "running", "dead"}, phase = "running" => phase' = "running",
         unread' \subseteq unread, last'.res \in {"none", "applied", "rejected"}
  PROVE  IInv'
<1>1. TypeOK'
  BY DEF IInv, TypeOK, GucStateOK, StateOK
<1>2. StateOK(shared)' /\ CopiesOK' /\ CopiesLate'
  <2>1. StateOK(shared)'
    BY DEF IInv, StateOK, GucStateOK
  <2>2. CopiesOK'
    BY DEF IInv, CopiesOK, StateOK, GucStateOK
  <2>3. CopiesLate'
    BY DEF IInv, CopiesLate
  <2> QED
    BY <2>1, <2>2, <2>3
<1>3. FilterCoherent'
  BY FilterParts DEF IInv
<1>4. ReportedNeverStale'
  BY DEF IInv, ReportedNeverStale
<1> QED
  BY <1>1, <1>2, <1>3, <1>4 DEF IInv

LEMMA RecordFacts ==
  ASSUME NEW o, Record(o)
  PROVE  /\ filter' = o.filter /\ maxlevel' = o.maxlevel
         /\ last'.res = IF o.ok THEN "applied" ELSE "rejected"
BY DEF Record

\* The level of a known word.
LEMMA LevelsFacts ==
  ASSUME NEW v \in {Word(w) : w \in DOMAIN Levels}
  PROVE  Levels[v[2]] \in {Levels[w] : w \in DOMAIN Levels}
<1>1. PICK w \in DOMAIN Levels : v = Word(w)
  OBVIOUS
<1>2. v[2] = w
  BY <1>1 DEF Word
<1> QED
  BY <1>2, Zenon

\* An entry of the file is refused, or is in the one GucState there is.
LEMMA LoadGucStep == ASSUME NEW g \in Gucs, NEW y \in Yaml, IInv, LoadGuc(g, y) PROVE IInv'
<1>1. /\ phase = "loading" /\ unread' \subseteq unread /\ UNCHANGED <<phase, copy, told, sets>>
  BY DEF LoadGuc
<1>2. CASE Record(Outcome(FALSE, TRUE, filter, maxlevel)) /\ shared' = shared
  <2>1. /\ filter' = filter /\ maxlevel' = maxlevel /\ last'.res = "rejected"
    BY <1>2 DEF Record, Outcome
  <2> QED
    BY <1>1, <1>2, <2>1, QuietStep
<1>3. ASSUME NEW v \in Convert(g, y), NEW o \in Assign(g, v, "FILE"),
             Record(o), shared' = Applied(shared, g, v, o)
      PROVE  IInv'
  <2>1. v \in TypeOf(g)
    BY ConvertTyped
  <2>2. /\ StateOK(shared') /\ (~o.ok => shared' = shared)
        /\ (o.ok => shared'.vals[g] = v)
        /\ \A h \in Gucs \ {g} : shared'.vals[h] = shared.vals[h]
    <3>1. /\ StateOK(Applied(shared, g, v, o)) /\ (~o.ok => Applied(shared, g, v, o) = shared)
          /\ (o.ok => Applied(shared, g, v, o).vals[g] = v)
          /\ \A h \in Gucs \ {g} : Applied(shared, g, v, o).vals[h] = shared.vals[h]
      BY <2>1, AppliedFacts DEF IInv
    <3> QED
      BY <1>3, <3>1
  <2>3. \A s \in Sessions : copy[s] = NoCopy
    BY <1>1 DEF IInv, CopiesLate
  <2>4. last'.res \in {"applied", "rejected"}
    BY <1>3, RecordFacts
  <2>5. /\ filter' = o.filter /\ maxlevel' = o.maxlevel
        /\ maxlevel = filter /\ Follows(shared, filter)
        /\ filter \in {Levels[w] : w \in DOMAIN Levels}
    BY <1>3, RecordFacts, FilterParts DEF IInv, TypeOK
  <2>6. /\ filter' \in {Levels[w] : w \in DOMAIN Levels} /\ maxlevel' = filter'
        /\ Follows(shared', filter')
    <3>1. CASE ~o.ok /\ o.filter = filter /\ o.maxlevel = maxlevel
      BY <2>2, <2>5, <3>1
    <3>2. CASE /\ o.ok /\ g = "log_min_messages"
               /\ v \in {Word(w) : w \in DOMAIN Levels}
               /\ o.filter = Levels[v[2]] /\ o.maxlevel = Levels[v[2]]
      <4>1. filter' = Levels[v[2]] /\ maxlevel' = Levels[v[2]] /\ shared'.vals["log_min_messages"] = v
        BY <2>2, <2>5, <3>2
      <4> QED
        BY <3>2, <4>1, LevelsFacts DEF Follows
    <3>3. CASE g # "log_min_messages" /\ o.filter = filter /\ o.maxlevel = maxlevel
      <4>1. "log_min_messages" \in Gucs =>
              shared'.vals["log_min_messages"] = shared.vals["log_min_messages"]
        BY <2>2, <3>3
      <4> QED
        BY <2>5, <3>3, <4>1 DEF Follows
    <3> QED
      BY <3>1, <3>2, <3>3, AssignFacts, Zenon
  <2>7. TypeOK'
    BY <1>1, <2>2, <2>3, <2>4, <2>6 DEF IInv, TypeOK, StateOK
  <2>8. CopiesOK' /\ CopiesLate'
    <3>1. CopiesOK'
      BY <1>1, <2>3 DEF IInv, CopiesOK
    <3> QED
      BY <1>1, <2>3, <3>1 DEF CopiesLate
  <2>9. FilterCoherent'
    BY <1>1, <2>3, <2>6, FilterParts DEF NoCopy
  <2>10. ReportedNeverStale'
    BY <1>1, <2>3 DEF ReportedNeverStale, NoCopy
  <2>11. StateOK(shared)'
    BY <2>2 DEF StateOK, GucStateOK
  <2> QED
    BY <2>7, <2>8, <2>9, <2>10, <2>11 DEF IInv
<1> QED
  BY <1>2, <1>3 DEF LoadGuc

LEMMA StartSessionStep == ASSUME NEW s \in Sessions, IInv, StartSession(s) PROVE IInv'
<1>1. /\ phase = "running" /\ UNCHANGED <<phase, unread, shared, filter, maxlevel, sets>>
      /\ copy' = [copy EXCEPT ![s] = [made |-> TRUE, gs |-> shared]]
      /\ told' = [told EXCEPT ![s] = {<<g, Show(g, shared.vals[g])>> : g \in Reported}]
      /\ last' = Quiet
  BY DEF StartSession
<1>2. /\ copy = [t \in Sessions |-> copy[t]] /\ told = [t \in Sessions |-> told[t]]
  BY DEF IInv, CopiesOK
<1>3. /\ copy'[s] = [made |-> TRUE, gs |-> shared]
      /\ \A t \in Sessions \ {s} : copy'[t] = copy[t] /\ told'[t] = told[t]
      /\ told'[s] = {<<g, Show(g, shared.vals[g])>> : g \in Reported}
      /\ copy' = [t \in Sessions |-> copy'[t]] /\ told' = [t \in Sessions |-> told'[t]]
  BY <1>1, <1>2
<1>4. copy'[s].gs = shared /\ copy'[s].made
  BY <1>3
<1>5. StateOK(shared) /\ StateOK(shared)'
  BY <1>1 DEF IInv, StateOK, GucStateOK
<1>6. CopiesOK'
  <2>1. \A t \in Sessions :
          \/ copy'[t] = NoCopy
          \/ copy'[t] = [made |-> TRUE, gs |-> copy'[t].gs] /\ StateOK(copy'[t].gs)
    <3> TAKE t \in Sessions
    <3>1. CASE t = s
      BY <1>3, <1>4, <1>5, <3>1
    <3>2. CASE t # s
      BY <1>3, <3>2 DEF IInv, CopiesOK
    <3> QED
      BY <3>1, <3>2
  <2> QED
    BY <1>3, <2>1 DEF CopiesOK, StateOK, GucStateOK
<1>7. TypeOK'
  <2>1. \A t \in Sessions : copy'[t] = NoCopy \/ GucStateOK(copy'[t].gs)
    <3> TAKE t \in Sessions
    <3>1. CASE t = s
      BY <1>4, <1>5, <3>1 DEF StateOK
    <3>2. CASE t # s
      BY <1>3, <3>2 DEF IInv, TypeOK
    <3> QED
      BY <3>1, <3>2
  <2> QED
    BY <1>1, <1>5, <2>1 DEF IInv, TypeOK, StateOK, Quiet, GucStateOK
<1>8. CopiesLate'
  BY <1>1 DEF CopiesLate
<1>9. FilterCoherent'
  BY <1>1, <1>3, <1>4, FilterParts DEF IInv
<1>10. ReportedNeverStale'
  <2>1. told'[s] = {<<g, Show(g, copy'[s].gs.vals[g])>> : g \in Reported}
    BY <1>3, <1>4
  <2> QED
    BY <1>3, <2>1 DEF IInv, ReportedNeverStale
<1> QED
  BY <1>5, <1>6, <1>7, <1>8, <1>9, <1>10 DEF IInv

\* What a SET does: nothing to the levels, nothing to log_min_messages and
\* nothing to a variable that is reported.
LEMMA SetGucFacts ==
  ASSUME NEW s \in Sessions, NEW g \in Gucs, NEW v \in Args(g), IInv, SetGuc(s, g, v)
  PROVE  /\ UNCHANGED <<phase, unread, shared, told, filter, maxlevel>>
         /\ sets' = sets + 1 /\ sets < MaxSets
         /\ copy[s].made /\ StateOK(copy[s].gs)
         /\ copy' = [t \in Sessions |-> copy'[t]]
         /\ \A t \in Sessions \ {s} : copy'[t] = copy[t]
         /\ copy'[s] = [made |-> TRUE, gs |-> copy'[s].gs] /\ StateOK(copy'[s].gs)
         /\ last'.res \in {"applied", "rejected"}
         /\ last'.res = "rejected" => copy' = copy
         /\ \A h \in Gucs : h = "log_min_messages" \/ Defs[h].report =>
              copy'[s].gs.vals[h] = copy[s].gs.vals[h]
<1>1. PICK o \in Assign(g, v, "SET") :
        Record(o) /\ copy' = [copy EXCEPT ![s] = [made |-> TRUE, gs |-> Applied(@.gs, g, v, o)]]
  BY DEF SetGuc
<1>2. /\ UNCHANGED <<phase, unread, shared, told>> /\ sets' = sets + 1 /\ sets < MaxSets
      /\ copy[s].made
  BY DEF SetGuc
<1>3. v \in TypeOf(g)
  BY ArgsTyped
<1>4. /\ copy = [t \in Sessions |-> copy[t]] /\ copy[s] = [made |-> TRUE, gs |-> copy[s].gs]
      /\ StateOK(copy[s].gs)
  BY <1>2, MadeCopy DEF IInv, CopiesOK
<1> DEFINE n == Applied(copy[s].gs, g, v, o)
<1>5. /\ StateOK(n) /\ (~o.ok => n = copy[s].gs)
      /\ \A h \in Gucs \ {g} : n.vals[h] = copy[s].gs.vals[h]
  BY <1>3, <1>4, AppliedFacts
<1>6. copy' = [copy EXCEPT ![s] = [made |-> TRUE, gs |-> n]]
  BY <1>1
<1> HIDE DEF n
<1>7. /\ copy'[s] = [made |-> TRUE, gs |-> n] /\ copy' = [t \in Sessions |-> copy'[t]]
      /\ \A t \in Sessions \ {s} : copy'[t] = copy[t]
  BY <1>4, <1>6
<1>8. copy'[s].gs = n
  BY <1>7
<1>9. filter' = o.filter /\ maxlevel' = o.maxlevel
       /\ last'.res = IF o.ok THEN "applied" ELSE "rejected"
  BY <1>1, RecordFacts
<1>10. filter' = filter /\ maxlevel' = maxlevel
  BY <1>9, AssignFacts, DefsFacts
<1>11. last'.res \in {"applied", "rejected"}
  BY <1>9
<1>12. last'.res = "rejected" => copy' = copy
  <2> SUFFICES ASSUME last'.res = "rejected" PROVE copy' = copy
    OBVIOUS
  <2>1. ~o.ok
    BY <1>9
  <2>2. n = copy[s].gs
    BY <1>5, <2>1
  <2> QED
    BY <1>4, <1>7, <2>2
<1>13. ASSUME NEW h \in Gucs, h = "log_min_messages" \/ Defs[h].report
       PROVE  n.vals[h] = copy[s].gs.vals[h]
  <2>1. CASE ~o.ok
    BY <1>5, <2>1
  <2>2. CASE o.ok
    <3>1. Preassign(g, "SET")
      BY <2>2, AssignFacts, Zenon
    <3>2. h # g
      BY <1>13, <3>1, DefsFacts
    <3> QED
      BY <1>5, <3>2
  <2> QED
    BY <2>1, <2>2
<1> QED
  BY <1>2, <1>4, <1>5, <1>7, <1>8, <1>10, <1>11, <1>12, <1>13

LEMMA SetGucStep ==
  ASSUME NEW s \in Sessions, NEW g \in Gucs, NEW v \in Args(g), IInv, SetGuc(s, g, v)
  PROVE  IInv'
<1>1. /\ UNCHANGED <<phase, unread, shared, told, filter, maxlevel>>
      /\ sets' = sets + 1 /\ sets < MaxSets
      /\ copy[s].made /\ copy' = [t \in Sessions |-> copy'[t]]
      /\ \A t \in Sessions \ {s} : copy'[t] = copy[t]
      /\ copy'[s] = [made |-> TRUE, gs |-> copy'[s].gs] /\ StateOK(copy'[s].gs)
      /\ last'.res \in {"applied", "rejected"}
      /\ \A h \in Gucs : h = "log_min_messages" \/ Defs[h].report =>
           copy'[s].gs.vals[h] = copy[s].gs.vals[h]
  BY SetGucFacts
<1>2. StateOK(shared)'
  BY <1>1 DEF IInv, StateOK, GucStateOK
<1>3. \A t \in Sessions :
        \/ copy'[t] = NoCopy
        \/ copy'[t] = [made |-> TRUE, gs |-> copy'[t].gs] /\ StateOK(copy'[t].gs)
  BY <1>1 DEF IInv, CopiesOK
<1>4. CopiesOK'
  BY <1>1, <1>3 DEF IInv, CopiesOK, StateOK, GucStateOK
<1>5. TypeOK'
  <2>1. \A t \in Sessions : copy'[t] = NoCopy \/ GucStateOK(copy'[t].gs)
    BY <1>3 DEF StateOK
  <2> QED
    BY <1>1, <1>2, <2>1, GucAssumption DEF IInv, TypeOK, StateOK, GucStateOK
<1>6. CopiesLate'
  <2>1. phase = "running"
    BY <1>1 DEF IInv, CopiesLate, NoCopy
  <2> QED
    BY <1>1, <2>1 DEF CopiesLate
<1>7. FilterCoherent'
  <2>1. Follows(copy[s].gs, filter) => Follows(copy'[s].gs, filter)
    BY <1>1 DEF Follows
  <2> QED
    BY <1>1, <2>1, FilterParts DEF IInv
<1>8. ReportedNeverStale'
  <2>1. \A h \in Reported : copy'[s].gs.vals[h] = copy[s].gs.vals[h]
    BY <1>1 DEF Reported
  <2>2. {<<h, Show(h, copy'[s].gs.vals[h])>> : h \in Reported}
          = {<<h, Show(h, copy[s].gs.vals[h])>> : h \in Reported}
    BY <2>1
  <2> QED
    BY <1>1, <2>2 DEF IInv, ReportedNeverStale
<1> QED
  BY <1>2, <1>4, <1>5, <1>6, <1>7, <1>8 DEF IInv

\* The steps that assign nothing.
LEMMA ControlStep ==
  ASSUME IInv, \/ LoadFail \/ LoadBegin \/ LoadEnd \/ UNCHANGED vars
               \/ \E k \in {"unknown", "[]"} : LoadUnknown(k)
  PROVE  IInv'
<1>1. UNCHANGED <<shared, copy, told, filter, maxlevel, sets>>
  BY DEF LoadFail, LoadBegin, LoadEnd, LoadUnknown, Record, Outcome, vars
<1>2. /\ phase' \in {"init", "loading", "running", "dead"} /\ unread' \subseteq unread
      /\ phase = "running" => phase' = "running"
  BY DEF LoadFail, LoadBegin, LoadEnd, LoadUnknown, vars, IInv, TypeOK
<1>3. last'.res \in {"none", "applied", "rejected"}
  BY DEF LoadFail, LoadBegin, LoadEnd, LoadUnknown, Record, Outcome, vars, IInv, TypeOK, Quiet
<1> QED
  BY <1>1, <1>2, <1>3, QuietStep

LEMMA Invariance == Spec => []IInv
<1>1. IInv /\ [Next]_vars => IInv'
  BY LoadGucStep, StartSessionStep, SetGucStep, ControlStep DEF Next
<1> QED
  BY <1>1, InitIInv, PTL DEF Spec

-----------------------------------------------------------------------------
(* What the file said.                                                     *)

\* An entry is read once: before it, the variable has no entry.
SaidOK ==
  /\ said = [g \in IntGucs |-> said[g]]
  /\ \A g \in IntGucs \cap unread : said[g] = NoEntry

SaidInv == SaidOK /\ LoadedAsWritten

\* Without an entry the boot value stays.
LEMMA NoEntryAsWritten ==
  ASSUME NEW g, NEW v
  PROVE  AsWritten(g, NoEntry, v) <=> v = Defs[g].boot
<1>1. Meant(NoEntry) = {}
  BY DEF Meant, NoEntry
<1> QED
  BY <1>1 DEF AsWritten

\* Euclidean division.
LEMMA DivMod ==
  ASSUME NEW a \in Int, NEW m \in Nat, m > 0
  PROVE  /\ a \div m \in Int /\ a % m \in 0..(m - 1)
         /\ a = (m * (a \div m)) + (a % m)
OBVIOUS

LEMMA MultipleMod == ASSUME NEW k \in Int, NEW m \in Nat, m > 0 PROVE (m * k) % m = 0
OBVIOUS

\* The low bits of n are n itself if n fits, and congruent to n if not.
LEMMA AsInt32Facts ==
  ASSUME NEW n \in Int
  PROVE  /\ AsInt32(n) \in Int32 /\ (AsInt32(n) - n) % (2 * Half) = 0
         /\ n \in Int32 => AsInt32(n) = n
<1> DEFINE m == 2 * Half
           q == (n + Half) \div m
           r == (n + Half) % m
<1>1. m \in Nat /\ m > 0 /\ Half \in Nat \ {0} /\ n + Half \in Int
  BY GucAssumption
<1>2. q \in Int /\ r \in 0..(m - 1) /\ n + Half = (m * q) + r
  <2> HIDE DEF m
  <2> QED
    BY <1>1, DivMod
<1>3. AsInt32(n) = r - Half
  BY DEF AsInt32
<1>4. AsInt32(n) - n = m * (-q)
  BY <1>1, <1>2, <1>3
<1>5. (m * (-q)) % m = 0
  <2> HIDE DEF m, q
  <2> QED
    BY <1>1, <1>2, MultipleMod
<1>6. n \in Int32 => n + Half \in 0..(m - 1)
  BY GucAssumption DEF Int32
<1>7. n \in Int32 => r = n + Half
  BY <1>1, <1>6
<1> QED
  BY <1>1, <1>3, <1>4, <1>5, <1>7, AsInt32Fits

\* yaml_try_toi32 answers what the entry means, or nothing.
LEMMA ToI32AsWritten ==
  ASSUME NEW g \in IntGucs, NEW y \in Yaml
  PROVE  /\ ToI32(y) = {} => AsWritten(g, y, Defs[g].boot)
         /\ \A v \in ToI32(y) : AsWritten(g, y, v)
<1>1. CASE y[1] = "Integer"
  <2>1. y[2] \in Int
    BY <1>1, YamlCases, GucAssumption
  <2>2. Meant(y) = {y[2]} /\ ToI32(y) = {AsInt32(y[2])}
    BY <1>1, Zenon DEF Meant, ToI32
  <2> QED
    BY <1>1, <2>1, <2>2, AsInt32Facts DEF AsWritten
<1>2. CASE y[1] \in {"String", "Real"}
  <2>1. ToI32(y) = ParseI32(y[2])
    BY <1>2 DEF ToI32
  <2>2. CASE y[2][1] = "decimal"
    <3>1. Meant(y) = {y[2][2]}
      BY <1>2, <2>2 DEF Meant
    <3> QED
      BY <1>2, <2>1, <2>2, <3>1 DEF AsWritten, ParseI32
  <2>3. CASE y[2][1] # "decimal"
    <3>1. Meant(y) = {} /\ ToI32(y) = {}
      BY <1>2, <2>1, <2>3 DEF Meant, ParseI32
    <3> QED
      BY <3>1 DEF AsWritten
  <2> QED
    BY <2>2, <2>3
<1>3. CASE y[1] = "Boolean"
  <2>1. PICK n \in {0, 1} : Meant(y) = {n} /\ ToI32(y) = {n}
    BY <1>3 DEF Meant, ToI32
  <2>2. n \in Int32
    BY GucAssumption DEF Int32
  <2> QED
    BY <2>1, <2>2 DEF AsWritten
<1>4. CASE y[1] = "Array"
  <2>1. Meant(y) = {} /\ ToI32(y) = {}
    BY <1>4 DEF Meant, ToI32
  <2> QED
    BY <2>1 DEF AsWritten
<1> QED
  BY <1>1, <1>2, <1>3, <1>4, YamlCases

\* A step that reads no entry of a variable.
LEMMA SaidQuiet ==
  ASSUME SaidInv, UNCHANGED <<shared, said>>, unread' \subseteq unread
  PROVE  SaidInv'
BY DEF SaidInv, SaidOK, LoadedAsWritten

LEMMA SaidLoadGuc ==
  ASSUME NEW g \in Gucs, NEW y \in Yaml, IInv, SaidInv, LoadGuc(g, y) PROVE SaidInv'
<1>1. /\ g \in unread /\ unread' = unread \ {g}
      /\ said' = IF g \in IntGucs THEN [said EXCEPT ![g] = y] ELSE said
  BY DEF LoadGuc
<1>2. /\ SaidOK'
      /\ \A h \in IntGucs \ {g} : said'[h] = said[h]
      /\ g \in IntGucs => said'[g] = y /\ said[g] = NoEntry
  BY <1>1 DEF SaidInv, SaidOK
<1>3. \A h \in Gucs \ {g} : shared'.vals[h] = shared.vals[h]
  <2>1. ASSUME NEW v \in Convert(g, y), NEW o, shared' = Applied(shared, g, v, o)
        PROVE  \A h \in Gucs \ {g} : shared'.vals[h] = shared.vals[h]
    <3>1. v \in TypeOf(g)
      BY ConvertTyped
    <3>2. \A h \in Gucs \ {g} : Applied(shared, g, v, o).vals[h] = shared.vals[h]
      BY <3>1, AppliedFacts DEF IInv
    <3> QED
      BY <2>1, <3>2
  <2> QED
    BY <2>1 DEF LoadGuc
<1>4. ASSUME g \in IntGucs PROVE AsWritten(g, y, shared'.vals[g])
  <2>1. Convert(g, y) = ToI32(y)
    BY <1>4 DEF Convert, IntGucs
  <2>2. shared.vals[g] = Defs[g].boot
    BY <1>2, <1>4, NoEntryAsWritten DEF SaidInv, LoadedAsWritten
  <2>3. CASE Convert(g, y) = {} /\ shared' = shared
    BY <1>4, <2>1, <2>2, <2>3, ToI32AsWritten
  <2>4. ASSUME NEW v \in Convert(g, y), NEW o \in Assign(g, v, "FILE"),
               shared' = Applied(shared, g, v, o)
        PROVE  AsWritten(g, y, shared'.vals[g])
    <3>1. Preassign(g, "FILE") /\ Defs[g].hook = "none"
      BY <1>4, DefsFacts DEF IntGucs
    <3>2. o = Outcome(TRUE, FALSE, filter, maxlevel)
      BY <3>1 DEF Assign
    <3>3. o.ok
      BY <3>2 DEF Outcome
    <3>4. v \in TypeOf(g)
      BY ConvertTyped
    <3>5. shared'.vals[g] = v
      BY <2>4, <3>3, <3>4, AppliedFacts DEF IInv
    <3> QED
      BY <1>4, <2>1, <3>5, ToI32AsWritten
  <2> QED
    BY <2>3, <2>4 DEF LoadGuc
<1>5. LoadedAsWritten'
  <2>1. ASSUME NEW h \in IntGucs PROVE AsWritten(h, said'[h], shared'.vals[h])
    <3>1. CASE h = g
      BY <1>2, <1>4, <3>1
    <3>2. CASE h # g
      <4>1. said'[h] = said[h] /\ shared'.vals[h] = shared.vals[h]
        BY <1>2, <1>3, <3>2 DEF IntGucs
      <4> QED
        BY <4>1 DEF SaidInv, LoadedAsWritten
    <3> QED
      BY <3>1, <3>2
  <2> QED
    BY <2>1 DEF LoadedAsWritten
<1> QED
  BY <1>2, <1>5 DEF SaidInv

LEMMA SaidInvariance == Spec => []SaidInv
<1>1. Init => SaidInv
  <2> SUFFICES ASSUME Init PROVE SaidInv
    OBVIOUS
  <2>1. said = [g \in IntGucs |-> NoEntry] /\ \A g \in Gucs : shared.vals[g] = Defs[g].boot
    BY DEF Init, BootVals
  <2>2. SaidOK
    BY <2>1 DEF SaidOK
  <2>3. ASSUME NEW g \in IntGucs PROVE AsWritten(g, said[g], shared.vals[g])
    <3>1. said[g] = NoEntry /\ shared.vals[g] = Defs[g].boot
      BY <2>1 DEF IntGucs
    <3> QED
      BY <3>1, NoEntryAsWritten
  <2> QED
    BY <2>2, <2>3 DEF SaidInv, LoadedAsWritten
<1>2. IInv /\ SaidInv /\ [Next]_vars => SaidInv'
  <2> SUFFICES ASSUME IInv, SaidInv, [Next]_vars PROVE SaidInv'
    OBVIOUS
  <2>1. CASE \/ LoadFail \/ LoadBegin \/ LoadEnd \/ UNCHANGED vars
             \/ \E k \in {"unknown", "[]"} : LoadUnknown(k)
             \/ \E s \in Sessions : StartSession(s)
             \/ \E s \in Sessions : \E g \in Gucs : \E v \in Args(g) : SetGuc(s, g, v)
    <3>1. UNCHANGED <<shared, said>> /\ unread' \subseteq unread
      BY <2>1 DEF LoadFail, LoadBegin, LoadEnd, LoadUnknown, StartSession, SetGuc, vars
    <3> QED
      BY <3>1, SaidQuiet
  <2> QED
    BY <2>1, SaidLoadGuc DEF Next
<1> QED
  BY <1>1, <1>2, Invariance, PTL DEF Spec

-----------------------------------------------------------------------------
(* The theorems.                                                           *)

\* Every variable has its type, whatever the file held and a caller passes.
THEOREM TypeCorrect == Spec => []TypeOK
BY Invariance, PTL DEF IInv

\* Whatever the file holds, an INT variable is worth the integer written there
\* if it fits, its low bits if it was written too wide without quotes, and its
\* boot value otherwise; nothing a session does changes that.
THEOREM LoadedAsWrittenAlways == Spec => []LoadedAsWritten
BY SaidInvariance, PTL DEF SaidInv

\* The log filter, the level of the log crate and the log_min_messages of every
\* holder agree at all times.
THEOREM FilterCoherentAlways == Spec => []FilterCoherent
BY Invariance, PTL DEF IInv

\* What a client was told of the REPORT variables stays true.
THEOREM ReportedNeverStaleAlways == Spec => []ReportedNeverStale
BY Invariance, PTL DEF IInv

\* A refused assignment, of the file or of a session, has changed nothing.
THEOREM RefusalsChangeNothing == Spec => RefusalChangesNothing
<1>1. IInv /\ [Next]_vars =>
        [(last'.res = "rejected") => UNCHANGED <<shared, copy, filter, maxlevel>>]_vars
  <2> SUFFICES ASSUME IInv, Next, last'.res = "rejected"
               PROVE  UNCHANGED <<shared, copy, filter, maxlevel>>
    OBVIOUS
  <2>1. CASE LoadFail \/ LoadBegin \/ LoadEnd \/ \E k \in {"unknown", "[]"} : LoadUnknown(k)
    BY <2>1 DEF LoadFail, LoadBegin, LoadEnd, LoadUnknown, Record, Outcome
  <2>2. ASSUME NEW g \in Gucs, NEW y \in Yaml, LoadGuc(g, y)
        PROVE  UNCHANGED <<shared, copy, filter, maxlevel>>
    <3>1. CASE Record(Outcome(FALSE, TRUE, filter, maxlevel)) /\ shared' = shared
      BY <2>2, <3>1 DEF LoadGuc, Record, Outcome
    <3>2. ASSUME NEW v \in Convert(g, y), NEW o \in Assign(g, v, "FILE"),
                 Record(o), shared' = Applied(shared, g, v, o)
          PROVE  UNCHANGED <<shared, copy, filter, maxlevel>>
      <4>1. ~o.ok
        BY <3>2, AssignFacts, RecordFacts
      <4>2. shared' = shared
        BY <3>2, <4>1 DEF Applied
      <4>3. filter' = filter /\ maxlevel' = maxlevel
        BY <3>2, <4>1, AssignFacts, RecordFacts
      <4> QED
        BY <2>2, <4>2, <4>3 DEF LoadGuc
    <3> QED
      BY <2>2, <3>1, <3>2 DEF LoadGuc
  <2>3. ASSUME NEW s \in Sessions, StartSession(s) PROVE FALSE
    BY <2>3 DEF StartSession, Quiet
  <2>4. ASSUME NEW s \in Sessions, NEW g \in Gucs, NEW v \in Args(g), SetGuc(s, g, v)
        PROVE  UNCHANGED <<shared, copy, filter, maxlevel>>
    BY <2>4, SetGucFacts
  <2> QED
    BY <2>1, <2>2, <2>3, <2>4 DEF Next
<1> QED
  BY <1>1, Invariance, PTL DEF Spec, RefusalChangesNothing

=============================================================================
