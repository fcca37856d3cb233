-------------------------------- MODULE Guc ---------------------------------
(***************************************************************************)
(* The configuration variables: guc::load reads kuiba.conf into the state  *)
(* every session shares, the set_*_guc functions change a copy of it, and  *)
(* a hook keeps the process-wide log filter in step with log_min_messages. *)
(*                                                                         *)
(* Of the variables of gucdef.yaml one is kept for each combination of     *)
(* type, context, hook and REPORT flag: the code treats the others alike.  *)
(* A text is a pair: the decimal text of an integer, or a word.            *)
(***************************************************************************)
EXTENDS Integers

CONSTANTS Gucs,      \* the variables of the instance, among DOMAIN Defs
          Sessions,  \* holders of a copy of the loaded state
          Half,      \* 2^31: an INT value is in -Half..Half - 1
          FileInts,  \* the YAML integers that appear in the file (64 bits)
          FileWords, \* the other texts that appear in the file
          MaxSets    \* bound: calls of set_*_guc

\* The enum Context derives PartialOrd: declaration order.
Context == [Internal |-> 0, KuiBaDB |-> 1, SigHup |-> 2, SuSet |-> 3, UserSet |-> 4]

Word(w) == <<"word", w>>
Decimal(n) == <<"decimal", n>>

Def(type, context, hook, report, boot) ==
  [type |-> type, context |-> context, hook |-> hook, report |-> report, boot |-> boot]

\* Mutant: log_min_messages can be SET.
DefsLogSet ==
  [port             |-> Def("INT", "KuiBaDB", "none", FALSE, 1),
   max_connections  |-> Def("INT", "SigHup", "none", FALSE, 1),
   batch_size       |-> Def("INT", "UserSet", "none", FALSE, 1),
   log_min_messages |-> Def("STR", "UserSet", "log_min_messages", FALSE, Word("DEBUG2")),
   server_version   |-> Def("STR", "Internal", "none", TRUE, Word("0.0.1")),
   search_path      |-> Def("STR", "UserSet", "search_path", FALSE, Word("public")),
   is_superuser     |-> Def("BOOL", "Internal", "none", TRUE, TRUE),
   enable_cs_wal    |-> Def("BOOL", "KuiBaDB", "none", FALSE, FALSE),
   seq_page_cost    |-> Def("REAL", "UserSet", "none", FALSE, Decimal(1))]

\* gucdef.yaml (an INT boot value is 1 where the width of the instance asks so).
Defs ==
  [port             |-> Def("INT", "KuiBaDB", "none", FALSE, 1),
   max_connections  |-> Def("INT", "SigHup", "none", FALSE, 1),
   batch_size       |-> Def("INT", "UserSet", "none", FALSE, 1),
   log_min_messages |-> Def("STR", "SigHup", "log_min_messages", FALSE, Word("DEBUG2")),
   server_version   |-> Def("STR", "Internal", "none", TRUE, Word("0.0.1")),
   search_path      |-> Def("STR", "UserSet", "search_path", FALSE, Word("public")),
   is_superuser     |-> Def("BOOL", "Internal", "none", TRUE, TRUE),
   enable_cs_wal    |-> Def("BOOL", "KuiBaDB", "none", FALSE, FALSE),
   seq_page_cost    |-> Def("REAL", "UserSet", "none", FALSE, Decimal(1))]

ASSUME GucAssumption ==
  /\ Gucs \subseteq DOMAIN Defs
  /\ Half \in Nat \ {0, 1} /\ FileInts \subseteq Int /\ MaxSets \in Nat

Int32 == (-Half)..(Half - 1)
Texts == {Word(w) : w \in FileWords} \cup {Decimal(n) : n \in FileInts}

\* `v as i32`: the low bits, in two's complement.
AsInt32(n) == ((n + Half) % (2 * Half)) - Half

-----------------------------------------------------------------------------
(* YAML values and their conversions (common.rs).  A Real keeps its text.  *)

Yaml == {<<"Integer", n>> : n \in FileInts} \cup {<<"String", t>> : t \in Texts}
        \cup {<<"Boolean", TRUE>>, <<"Boolean", FALSE>>}
        \cup {<<"Real", Word("0.5")>>, <<"Real", Word(".inf")>>, <<"Array", "">>}

\* Each conversion is the set of its results: empty for None.
ToStr(y) ==
  CASE y[1] = "Integer" -> {Decimal(y[2])}
    [] y[1] \in {"Real", "String"} -> {y[2]}
    [] y[1] = "Boolean" -> {Word(IF y[2] THEN "true" ELSE "false")}
    [] OTHER -> {}

ToBool(y) ==
  CASE y[1] = "Integer" -> {y[2] # 0}
    [] y[1] = "String" -> {y[2] \in {Word("true"), Word("TRUE")}}
    [] y[1] = "Boolean" -> {y[2]}
    [] OTHER -> {}

\* Mutant: a text is parsed with 64 bits and cut, as a YAML integer is.
ParseI32Cut(t) == IF t[1] = "decimal" THEN {AsInt32(t[2])} ELSE {}

\* Parsing a text refuses what does not fit; a YAML integer is cut to the width.
ParseI32(t) == IF t[1] = "decimal" /\ t[2] \in Int32 THEN {t[2]} ELSE {}

ToI32(y) ==
  CASE y[1] = "Integer" -> {AsInt32(y[2])}
    [] y[1] \in {"String", "Real"} -> ParseI32(y[2])
    [] y[1] = "Boolean" -> {IF y[2] THEN 1 ELSE 0}
    [] OTHER -> {}

\* A float is its text; f64's parser does not know YAML's .inf.
ToF64(y) ==
  CASE y[1] = "Integer" -> {Decimal(y[2])}
    [] y[1] \in {"String", "Real"} ->
         {t \in {y[2]} : t[1] = "decimal" \/ t = Word("0.5")}
    [] OTHER -> {}

Convert(g, y) ==
  CASE Defs[g].type = "STR"  -> ToStr(y)
    [] Defs[g].type = "BOOL" -> ToBool(y)
    [] Defs[g].type = "INT"  -> ToI32(y)
    [] Defs[g].type = "REAL" -> ToF64(y)

\* The values a caller of set_*_guc may pass: the type of its parameter.
Args(g) ==
  CASE Defs[g].type = "STR"  -> Texts
    [] Defs[g].type = "BOOL" -> BOOLEAN
    [] Defs[g].type = "INT"  -> Int32
    [] Defs[g].type = "REAL" -> {t \in Texts : t[1] = "decimal"} \cup {Word("0.5")}

\* guc::show, with the default of each type (no variable has a hook for it).
Show(g, v) ==
  CASE Defs[g].type = "BOOL" -> Word(IF v THEN "on" ELSE "off")
    [] Defs[g].type = "INT" -> Decimal(v)
    [] OTHER -> v

-----------------------------------------------------------------------------
VARIABLES
  phase,    \* "init", "loading", "running", "dead"
  unread,   \* the entries of the file load has not come to
  shared,   \* GlobalState.gucstate: [vals, base_search_path_valid]
  copy,     \* the sessions' copies (NoCopy before they are made)
  told,     \* what a session's client was told of the REPORT variables
  filter,   \* the level of LOG_FILTER_RELOAD_HANDLER
  maxlevel, \* log::max_level
  last,     \* the last assignment: [res |-> "none" | "applied" | "rejected", warned]
  sets,     \* calls of set_*_guc so far
  said      \* history: what the file gave for each INT variable

vars == <<phase, unread, shared, copy, told, filter, maxlevel, last, sets, said>>

Levels == [OFF |-> "off", ERROR |-> "error", WARNING |-> "warn", INFO |-> "info",
           DEBUG1 |-> "debug", DEBUG2 |-> "trace"]
Reported == {g \in Gucs : Defs[g].report}
IntGucs == {g \in Gucs : Defs[g].type = "INT"}
NoEntry == <<"absent", "">>
NoCopy == [made |-> FALSE]
Quiet == [res |-> "none", warned |-> FALSE]

\* GucVals::default, generated from the table.
BootVals == [g \in Gucs |-> Defs[g].boot]

\* init_log: the filter is built at "trace", and so is the log crate's level.
InitLog == filter = "trace" /\ maxlevel = "trace"

\* GucState::default, after init_log.
Init ==
  /\ phase = "init" /\ unread = Gucs \cup {"unknown", "[]"}
  /\ shared = [vals |-> BootVals, base_search_path_valid |-> FALSE]
  /\ copy = [s \in Sessions |-> NoCopy]
  /\ told = [s \in Sessions |-> {}]
  /\ InitLog
  /\ last = Quiet /\ sets = 0
  /\ said = [g \in IntGucs |-> NoEntry]

\* Mutant: SET may assign every variable.
PreassignAnySet(g, src) == src = "SET" \/ Defs[g].context # "Internal"

\* preassign: who may assign the variable.  (A refusal is warned of.)
Preassign(g, src) ==
  \/ src = "FILE" /\ Defs[g].context # "Internal"
  \/ src = "SET" /\ Context[Defs[g].context] >= Context["SuSet"]

\* What a hook did: its answer, whether it warned, and the two log levels.
Outcome(ok, warned, f, m) == [ok |-> ok, warned |-> warned, filter |-> f, maxlevel |-> m]

\* Mutant: the level of the log crate is set before the filter is reloaded.
LogMinMessagesEager(v) ==
  IF v \in {Word(w) : w \in DOMAIN Levels}
  THEN {Outcome(TRUE, FALSE, Levels[v[2]], Levels[v[2]]),
        Outcome(FALSE, TRUE, filter, Levels[v[2]])}
  ELSE {Outcome(FALSE, FALSE, filter, maxlevel)}

\* log_min_messages_preassign: reload the filter, which may fail, then set the
\* level of the log crate.  An unknown word is refused without a warning.
LogMinMessages(v) ==
  IF v \in {Word(w) : w \in DOMAIN Levels}
  THEN {Outcome(TRUE, FALSE, Levels[v[2]], Levels[v[2]]),
        Outcome(FALSE, TRUE, filter, maxlevel)}
  ELSE {Outcome(FALSE, FALSE, filter, maxlevel)}

\* preassign, then the variable's own hook if it has one.
Assign(g, v, src) ==
  CASE ~Preassign(g, src) -> {Outcome(FALSE, TRUE, filter, maxlevel)}
    [] Preassign(g, src) /\ Defs[g].hook = "log_min_messages" -> LogMinMessages(v)
    [] OTHER -> {Outcome(TRUE, FALSE, filter, maxlevel)}

\* apply_*_guc: the state gs after the assignment had the outcome o.
\* (search_path_preassign also marks what was derived from the path stale.)
Applied(gs, g, v, o) ==
  IF o.ok
  THEN [vals |-> [gs.vals EXCEPT ![g] = v],
        base_search_path_valid |->
          gs.base_search_path_valid /\ Defs[g].hook # "search_path"]
  ELSE gs

Record(o) ==
  /\ filter' = o.filter /\ maxlevel' = o.maxlevel
  /\ last' = [res |-> IF o.ok THEN "applied" ELSE "rejected", warned |-> o.warned]

-----------------------------------------------------------------------------
\* init: the directory or the file cannot be opened, or it is not a YAML hash.
LoadFail ==
  /\ phase = "init" /\ phase' = "dead"
  /\ UNCHANGED <<unread, shared, copy, told, filter, maxlevel, last, sets, said>>

LoadBegin ==
  /\ phase = "init" /\ phase' = "loading"
  /\ UNCHANGED <<unread, shared, copy, told, filter, maxlevel, last, sets, said>>

\* load_guc: one entry of the file; its value may be none the variable takes.
LoadGuc(g, y) ==
  /\ phase = "loading" /\ g \in unread
  /\ unread' = unread \ {g}
  /\ \/ /\ Convert(g, y) = {}
        /\ Record(Outcome(FALSE, TRUE, filter, maxlevel))
        /\ UNCHANGED shared
     \/ \E v \in Convert(g, y) : \E o \in Assign(g, v, "FILE") :
          /\ Record(o)
          /\ shared' = Applied(shared, g, v, o)
  /\ said' = IF g \in IntGucs THEN [said EXCEPT ![g] = y] ELSE said
  /\ UNCHANGED <<phase, copy, told, sets>>

\* A name that is no variable's, or a key that is not a scalar.
LoadUnknown(k) ==
  /\ phase = "loading" /\ k \in unread \ Gucs
  /\ unread' = unread \ {k}
  /\ Record(Outcome(FALSE, TRUE, filter, maxlevel))
  /\ UNCHANGED <<phase, shared, copy, told, sets, said>>

\* The end of the file: the state goes into the Arc of GlobalState.
LoadEnd ==
  /\ phase = "loading" /\ phase' = "running"
  /\ last' = Quiet
  /\ UNCHANGED <<unread, shared, copy, told, filter, maxlevel, sets, said>>

\* A session starts: report_all_gucs shows its client the REPORT variables of
\* the shared state.  set_*_guc wants a GucState to write to, and GucState is
\* Clone for the session to have its own; at this commit every session still
\* reads the shared Arc, and nobody calls set_*_guc.
StartSession(s) ==
  /\ phase = "running" /\ ~copy[s].made
  /\ copy' = [copy EXCEPT ![s] = [made |-> TRUE, gs |-> shared]]
  /\ told' = [told EXCEPT ![s] = {<<g, Show(g, shared.vals[g])>> : g \in Reported}]
  /\ last' = Quiet
  /\ UNCHANGED <<phase, unread, shared, filter, maxlevel, sets, said>>

\* set_int_guc, set_str_guc, set_real_guc, set_bool_guc.
SetGuc(s, g, v) ==
  /\ copy[s].made /\ sets < MaxSets
  /\ sets' = sets + 1
  /\ \E o \in Assign(g, v, "SET") :
       /\ Record(o)
       /\ copy' = [copy EXCEPT ![s] = [made |-> TRUE, gs |-> Applied(@.gs, g, v, o)]]
  /\ UNCHANGED <<phase, unread, shared, told, said>>

Next ==
  \/ LoadFail \/ LoadBegin \/ LoadEnd
  \/ \E g \in Gucs : \E y \in Yaml : LoadGuc(g, y)
  \/ \E k \in {"unknown", "[]"} : LoadUnknown(k)
  \/ \E s \in Sessions : StartSession(s)
  \/ \E s \in Sessions : \E g \in Gucs : \E v \in Args(g) : SetGuc(s, g, v)

Spec == Init /\ [][Next]_vars

-----------------------------------------------------------------------------
(* Properties.                                                             *)

TypeOf(g) ==
  CASE Defs[g].type = "STR"  -> Texts \cup {Defs[g].boot} \cup
                                UNION {ToStr(y) : y \in Yaml}
    [] Defs[g].type = "BOOL" -> BOOLEAN
    [] Defs[g].type = "INT"  -> Int32
    [] Defs[g].type = "REAL" -> Texts \cup {Defs[g].boot, Word("0.5")} \cup
                                {Decimal(n) : n \in FileInts}

GucStateOK(gs) ==
  /\ gs.base_search_path_valid \in BOOLEAN
  /\ DOMAIN gs.vals = Gucs
  /\ \A g \in Gucs : gs.vals[g] \in TypeOf(g)

\* The types of the state (of the program: `said` is a history).
TypeOK ==
  /\ phase \in {"init", "loading", "running", "dead"}
  /\ unread \subseteq Gucs \cup {"unknown", "[]"}
  /\ GucStateOK(shared)
  /\ \A s \in Sessions : copy[s] = NoCopy \/ GucStateOK(copy[s].gs)
  /\ filter \in {Levels[w] : w \in DOMAIN Levels} /\ maxlevel \in {Levels[w] : w \in DOMAIN Levels}
  /\ last.res \in {"none", "applied", "rejected"} /\ sets \in 0..MaxSets

\* The integer an entry of the file stands for, if it stands for one.
Meant(y) ==
  CASE y[1] = "Integer" -> {y[2]}
    [] y[1] \in {"String", "Real"} /\ y[2][1] = "decimal" -> {y[2][2]}
    [] y[1] = "Boolean" -> {IF y[2] THEN 1 ELSE 0}
    [] OTHER -> {}

\* What the value v of the INT variable g may be after the entry y.
AsWritten(g, y, v) ==
  /\ Meant(y) = {} => v = Defs[g].boot
  /\ \A n \in Meant(y) :
       \/ n \in Int32 /\ v = n
       \/ n \notin Int32 /\ y[1] = "Integer" /\ v \in Int32 /\ (v - n) % (2 * Half) = 0
       \/ n \notin Int32 /\ y[1] # "Integer" /\ v = Defs[g].boot

\* At every moment of the start and after it an INT variable is worth what the
\* file has said of it, and the boot value where the file says nothing, or nothing
\* that is an integer.  An integer that is too wide is treated in two ways
\* (yaml_try_toi32): a quoted one is refused and the boot value stays; one
\* without quotes is taken without a warning, and only its low bits are kept.
LoadedAsWritten == \A g \in IntGucs : AsWritten(g, said[g], shared.vals[g])

Holders == {shared} \cup {copy[s].gs : s \in {t \in Sessions : copy[t].made}}

\* The log filter and the log crate's level are the process's, the value of
\* log_min_messages is every holder's: they all agree, whatever sessions SET,
\* because the variable's context keeps SET away from it.
FilterCoherent ==
  /\ maxlevel = filter
  /\ "log_min_messages" \in Gucs =>
       \A gs \in Holders : Levels[gs.vals["log_min_messages"][2]] = filter

\* report_all_gucs runs once per session and set_*_guc reports nothing: what
\* the client was told stays true of the session's own state.
ReportedNeverStale ==
  \A s \in Sessions : copy[s].made =>
    told[s] = {<<g, Show(g, copy[s].gs.vals[g])>> : g \in Reported}

\* A refused assignment has changed nothing, not even half of what the hook of
\* log_min_messages does: neither the value nor either log level.
RefusalChangesNothing ==
  [][(last'.res = "rejected") => UNCHANGED <<shared, copy, filter, maxlevel>>]_vars

\* What gucdef.yaml asks of the hooks: "preassign should print some warn logs
\* if it return false."
RefusalsWarned == last.res = "rejected" => last.warned
=============================================================================
