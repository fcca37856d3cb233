------------------------------ MODULE FrontEnd ------------------------------
(***************************************************************************)
(* The sequential code a session runs on bytes and statements: the buffer  *)
(* of read_body (MsgBuf), the parsing of a startup message (Startup), the  *)
(* serialisers (Wire) and the analysis (Analyze).  The four share no       *)
(* state, so that interleaving them adds nothing: a behaviour is one of    *)
(* one of them, with the others at rest.                                   *)
(***************************************************************************)
EXTENDS MsgBuf, Startup, Wire, Analyze

VARIABLE part \* the one that runs

fvars == <<part, vars, svars, wvars, avars>>

SIdle ==
  /\ body = [ver |-> "short", rest |-> <<>>] /\ second = FALSE
  /\ spc = "fail" /\ pos = 0 /\ name = <<>> /\ params = NoParams

AIdle ==
  /\ abuild = "debug" /\ stmt = [kind |-> "Empty"] /\ apc = "panicked"
  /\ tlist = <<>> /\ p_next_resno = 1

FInit ==
  \/ part = "MsgBuf"  /\ Init /\ SIdle /\ WInit /\ AIdle
  \/ part = "Startup" /\ Init /\ build = "debug" /\ SInit /\ WInit /\ AIdle
  \/ part = "Wire"    /\ Init /\ build = "debug" /\ SIdle /\ WInit /\ AIdle
  \/ part = "Analyze" /\ Init /\ build = "debug" /\ SIdle /\ WInit /\ AInit

FNext ==
  \/ part = "MsgBuf"  /\ Next /\ UNCHANGED <<part, svars, wvars, avars>>
  \/ part = "Startup" /\ SNext /\ UNCHANGED <<part, vars, wvars, avars>>
  \/ part = "Wire"    /\ WNext /\ UNCHANGED <<part, vars, svars, avars>>
  \/ part = "Analyze" /\ ANext /\ UNCHANGED <<part, vars, svars, wvars>>

FSpec == FInit /\ [][FNext]_fvars /\ WF_svars(Step)

\* Every variable has its type: read_body's buffer, the strings of read_cstr
\* (UTF-8 without a zero, no empty name) and the bytes of ser.rs.
FTypeOK == TypeOK /\ STypeOK /\ WTypeOK
=============================================================================
