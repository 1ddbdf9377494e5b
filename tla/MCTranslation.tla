----------------------------- MODULE MCTranslation -----------------------------
(***************************************************************************)
(* The two halves of the protocol layer in one run: the streams of         *)
(* Translate and the bodies of Convert.  They share no state, and a        *)
(* behaviour is of one of them: the other half rests.                      *)
(***************************************************************************)
EXTENDS Translate

CONSTANTS MaxEntries, MaxCalls

ASSUME BodiesAssumption == MaxEntries \in Nat /\ MaxCalls \in Nat

VARIABLE task

Bodies == INSTANCE Convert

AllRoads == {r \in Protocols \X Protocols : r[1] # r[2]}

NoTask == [about |-> "nothing", from |-> "chat"]

StreamOnly == Init /\ task = NoTask

BodyOnly ==
  /\ Bodies!Init
  /\ road = (CHOOSE r \in Roads : TRUE) /\ up = NewUpstream /\ arrived = <<>>
  /\ parser = NewParser /\ events = <<>> /\ emitter = NewEmitter /\ wire = <<>>
  /\ client = NewClient /\ phase = "switched"

MCInit == StreamOnly \/ BodyOnly

MCNext ==
  \/ task = NoTask /\ Next /\ UNCHANGED task
  \/ task # NoTask /\ Bodies!Next /\ UNCHANGED vars

MCSpec == MCInit /\ [][MCNext]_<<vars, task>>

(* Convert: calls, results and parts survive each of the six directions, an    *)
(* option is kept, refused or named as degraded, and an answer keeps its       *)
(* reason and its numbers of tokens; with the types.                           *)
BodiesKept == Bodies!TypeOK /\ Bodies!ConversationKept /\ Bodies!OptionsKept /\ Bodies!AnswerKept
================================================================================
