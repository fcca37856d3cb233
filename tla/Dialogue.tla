------------------------------ MODULE Dialogue ------------------------------
(***************************************************************************)
(* What a frontend may rely on, whatever the transport does: the order of  *)
(* the messages a KuiBaDB session tells it.                                *)
(***************************************************************************)
EXTENDS Integers, Sequences, FiniteSets

CONSTANTS Reported, ErrCodes

VARIABLES told,  \* the messages the frontend has received in full
          asked  \* the queries it has sent in full

dvars == <<told, asked>>

\* The tag of the last message, "" before the first.
LastTag == IF told = <<>> THEN "" ELSE told[Len(told)].tag

Answers == Cardinality({i \in DOMAIN told : told[i].tag = "C"})
Known   == {g \in Reported : [tag |-> "S", guc |-> g] \in {told[i] : i \in DOMAIN told}}

Tell(m) == told' = Append(told, m) /\ UNCHANGED asked

RefuseSSL == LastTag = "" /\ Tell([tag |-> "N"])
Accept    == LastTag \in {"", "N"} /\ Tell([tag |-> "R"])

\* Every reported parameter, each of them once.
Report == LastTag \in {"R", "S"} /\ \E g \in Reported \ Known : Tell([tag |-> "S", guc |-> g])
GiveKey == LastTag \in {"R", "S"} /\ Known = Reported /\ Tell([tag |-> "K"])

\* Ready once after the key, and once after each answer.
BeReady == LastTag \in {"K", "C"} /\ Tell([tag |-> "Z"])

\* Answers come one for each query, in the order of the queries.
Answer == LastTag = "Z" /\ Answers < asked /\ Tell([tag |-> "C", query |-> Answers + 1])

\* An error is the last thing the frontend hears.
Refuse == LastTag # "E" /\ \E c \in ErrCodes : Tell([tag |-> "E", code |-> c])

Ask == asked' = asked + 1 /\ UNCHANGED told

Init == told = <<>> /\ asked = 0
Next == RefuseSSL \/ Accept \/ Report \/ GiveKey \/ BeReady \/ Answer \/ Refuse \/ Ask
Spec == Init /\ [][Next]_dvars
=============================================================================
